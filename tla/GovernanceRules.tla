--------------------------- MODULE GovernanceRules ---------------------------
(***************************************************************************)
(* The pure functions of l9_ci/governance: what compare_authority reports  *)
(* of two constitutions, what compare_attestation says of a node, and      *)
(* whether evaluate_promotion lets a policy change its mode.  No state.    *)
(***************************************************************************)
EXTENDS Integers, Sequences

NoField == "absent"     \* the field is not there; "null" is one that is

(* The recognised values of an action's fields, weakest authority first;   *)
(* of replay_safe, the least safe first.                                   *)
Ranked ==
    [mutation_class |-> <<"read_only", "propose_only", "enrich_only", "internal_state",
                          "internal_plus_graph_sync", "external_mutation">>,
     approval_mode  |-> <<"human", "threshold_or_human", "autonomous">>,
     replay_safe    |-> <<"no", "conditional", "yes">>]

Fields == DOMAIN Ranked

Collections == {"required_provenance", "required_dependencies"}

Values(field) == {Ranked[field][i] : i \in DOMAIN Ranked[field]}

Rank(field, value) == CHOOSE i \in DOMAIN Ranked[field] : Ranked[field][i] = value

(* A change from old to new that gives the action more authority.          *)
Stronger(field, old, new) ==
    IF field = "replay_safe" THEN Rank(field, new) < Rank(field, old)
    ELSE Rank(field, new) > Rank(field, old)

-----------------------------------------------------------------------------
(* compare_authority.  A change is an action, a field or a collection of   *)
(* it, and what happened.                                                  *)
Change(action, part, kind) == [action |-> action, part |-> part, kind |-> kind]

Recognised(action) ==
    \A f \in Fields : action[f] \in Values(f) \cup {NoField, "null"}

Comparable(doc) ==
    doc.actions_mapped /\ \A n \in DOMAIN doc.actions : Recognised(doc.actions[n])

(* Mutant: a field that only one side has is not compared.                 *)
FieldChangeOfCommon(name, f, old, new) ==
    IF NoField \in {old, new} \/ old = new THEN {}
    ELSE {Change(name, f, IF Stronger(f, old, new) THEN "escalated" ELSE "reduced")}

FieldChange(name, f, old, new) ==
    IF old = new THEN {}
    ELSE IF old = NoField THEN {Change(name, f, "added")}
    ELSE IF new = NoField THEN {Change(name, f, "removed")}
    ELSE {Change(name, f, IF Stronger(f, old, new) THEN "escalated" ELSE "reduced")}

ItemChanges(name, c, old, new) ==
    (IF old \ new # {} THEN {Change(name, c, "removed")} ELSE {}) \cup
    (IF new \ old # {} THEN {Change(name, c, "added")} ELSE {})

ActionChanges(name, old, new) ==
    (UNION {FieldChange(name, f, old[f], new[f]) : f \in Fields}) \cup
    (UNION {ItemChanges(name, c, old[c], new[c]) : c \in Collections})

AuthorityChanges(before, after) ==
    {Change(n, "action", "added") : n \in DOMAIN after.actions \ DOMAIN before.actions} \cup
    {Change(n, "action", "removed") : n \in DOMAIN before.actions \ DOMAIN after.actions} \cup
    UNION {ActionChanges(n, before.actions[n], after.actions[n]) :
               n \in DOMAIN before.actions \cap DOMAIN after.actions}

(* A null that becomes a value, or the reverse, has no rank: a KeyError.   *)
AuthorityRaises(before, after) ==
    \E n \in DOMAIN before.actions \cap DOMAIN after.actions : \E f \in Fields :
        LET old == before.actions[n][f]
            new == after.actions[n][f]
        IN  NoField \notin {old, new} /\ old # new /\ "null" \in {old, new}

CompareAuthority(before, after) ==
    IF ~Comparable(before) \/ ~Comparable(after) THEN [status |-> "invalid", changes |-> {}]
    ELSE IF AuthorityRaises(before, after) THEN [status |-> "raises", changes |-> {}]
    ELSE [status |-> "pass", changes |-> AuthorityChanges(before, after)]

-----------------------------------------------------------------------------
(* contract_file_hashes: by content.                                       *)
ContractHashes(doc) == [actions |-> doc.actions, dependencies |-> doc.dependencies]

(* contract_set_digest frames those hashes, and nothing else.               *)
ContractDigest(doc) == <<ContractHashes(doc)>>

(* compare_attestation.  "expected" are the optional arguments given.      *)
Expectations == {"digest", "hashes", "mode"}

Readiness == {"ready", "unready", "contradictory"}    \* ready, with missing_env

ValidAttestation(a) ==
    a.whole /\ \A d \in DOMAIN a.dependencies : a.dependencies[d].state # "contradictory"

RequiredIn(doc) == {d \in DOMAIN doc.dependencies : doc.dependencies[d].required}

(* Mutant: only what nodes must do without can be degraded.                *)
DegradedOfRequired(doc) ==
    UNION {doc.dependencies[d].degraded : d \in RequiredIn(doc)}

DeclaredDegraded(doc) ==
    UNION {doc.dependencies[d].degraded : d \in DOMAIN doc.dependencies}

UndeclaredDegraded(doc, a) == a.degraded \ DeclaredDegraded(doc)

(* The identity of the node is not varied; node.version and                *)
(* contract_version are compared alike, if the constitution declares them. *)
Drifts(doc, a, expected, mode) ==
    \/ doc.version # NoField /\ a.version # doc.version
    \/ "digest" \in expected /\ a.digest # ContractDigest(doc)
    \/ "hashes" \in expected /\ a.hashes # ContractHashes(doc)
    \/ "mode" \in expected /\ a.policy_mode # mode
    \/ a.actions # DOMAIN doc.actions
    \/ \E d \in DOMAIN a.dependencies \cap DOMAIN doc.dependencies :
         a.dependencies[d].required # doc.dependencies[d].required
    \/ DOMAIN a.dependencies \ DOMAIN doc.dependencies # {}
    \/ UndeclaredDegraded(doc, a) # {}

Unready(doc, a) ==
    \E d \in RequiredIn(doc) :
        d \in DOMAIN a.dependencies => a.dependencies[d].state # "ready"

(* Mutant: an incomplete attestation is not compared any further.          *)
IncompleteFirst(doc, a, expected, mode) ==
    IF ~ValidAttestation(a) \/ ~doc.actions_mapped THEN "invalid"
    ELSE IF Unready(doc, a) THEN "incomplete"
    ELSE IF Drifts(doc, a, expected, mode) THEN "fail"
    ELSE "pass"

CompareAttestation(doc, a, expected, mode) ==
    IF ~ValidAttestation(a) \/ ~doc.actions_mapped THEN "invalid"
    ELSE IF Drifts(doc, a, expected, mode) THEN "fail"
    ELSE IF Unready(doc, a) THEN "incomplete"
    ELSE "pass"

-----------------------------------------------------------------------------
(* evaluate_promotion.  Timestamps count parts of a day.                   *)
CONSTANTS PartsPerDay

ASSUME PartsAssumption == PartsPerDay \in Nat \ {0}

LegalTransition(policy, current, requested) ==
    current \in DOMAIN policy.transitions /\ requested \in policy.transitions[current]

PromotionValid(policy, current, requested, o) ==
    /\ policy.complete
    /\ LegalTransition(policy, current, requested)
    /\ o.whole
    /\ o.last >= o.first

FullDays(o) == (o.last - o.first) \div PartsPerDay

(* Mutant: exactly so many runs.                                           *)
UnmetUnlessExact(policy, o, approval_present) ==
    \/ o.completed_runs # policy.minimum_observation_runs
    \/ FullDays(o) < policy.minimum_observation_days
    \/ o.contract_failures > policy.maximum_contract_failures
    \/ policy.approval_required /\ ~approval_present

(* The failures of contracts and of artifacts have a budget each, alike;   *)
(* one stands for both.                                                    *)
Unmet(policy, o, approval_present) ==
    \/ o.completed_runs < policy.minimum_observation_runs
    \/ FullDays(o) < policy.minimum_observation_days
    \/ o.contract_failures > policy.maximum_contract_failures
    \/ policy.approval_required /\ ~approval_present

EvaluatePromotion(policy, current, requested, o, approval_present) ==
    IF ~PromotionValid(policy, current, requested, o) THEN "invalid"
    ELSE IF Unmet(policy, o, approval_present) THEN "ineligible"
    ELSE "eligible"
=============================================================================
