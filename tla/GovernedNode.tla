----------------------------- MODULE GovernedNode -----------------------------
(***************************************************************************)
(* A node whose constitution is amended, that is deployed and attests what *)
(* it runs, and whose policy mode is promoted: GovernanceRules between the *)
(* actors that call them.  External: Core, which collects the evidence and *)
(* asks (it compares every amendment with the version before, and makes an *)
(* eligible transition), the human who approves, and the node.             *)
(***************************************************************************)
EXTENDS GovernanceRules

CONSTANTS
    Constitutions,   \* versions the constitution may have
    Policies,        \* promotion policies a request may carry
    Modes,           \* policy modes
    MaxAmendments, MaxClock, MaxRuns    \* bounds

ASSUME ConstitutionAssumption ==
    \A doc \in Constitutions :
        /\ doc = [version |-> doc.version, actions_mapped |-> doc.actions_mapped,
                  actions |-> doc.actions, dependencies |-> doc.dependencies]
        /\ doc.actions_mapped \in BOOLEAN

(* Other requirements make a policy invalid: it is not complete.           *)
ASSUME PolicyAssumption ==
    \A p \in Policies :
        p.complete => {p.minimum_observation_runs, p.minimum_observation_days,
                       p.maximum_contract_failures} \subseteq Nat

Origins == {doc \in Constitutions : Comparable(doc)}

VARIABLES
    constitution,   \* the declared one
    origin,         \* what it was at first
    amendments,     \* how many amendments there were
    reported,       \* the changes compare_authority reported of them
    unanswered,     \* an amendment was answered with invalid, or an exception
    runtime,        \* what the node runs
    attestation,    \* its latest attestation
    verdict,        \* the latest answer of compare_attestation
    mode,           \* the node's policy mode, for Core
    window,         \* the observation: when, how many runs, how many failures
    clock,          \* parts of days
    approved        \* the human approved the next transition

authority == <<constitution, origin, amendments, reported, unanswered>>
node      == <<runtime, attestation, verdict>>
promotion == <<mode, window, clock, approved>>
vars      == <<authority, node, promotion>>

NoVerdict(doc, m) ==
    [status |-> "none", expected |-> {}, doc |-> doc, mode |-> m, moved |-> FALSE]

EmptyWindow ==
    [whole |-> FALSE, first |-> 0, last |-> 0, completed_runs |-> 0, contract_failures |-> 0]

Running(doc, m) == [doc |-> doc, extra |-> {}, unready |-> {}, mode |-> m]

DegradedOf(r) == UNION {r.doc.dependencies[d].degraded : d \in r.unready}

(* What a node says of itself; without a declared version, one that no     *)
(* constitution has.  An attestation is "moved" when what it is about      *)
(* changed since.                                                          *)
AttestationOf(r, whole, contradictory) ==
    [whole |-> whole,
     version |-> r.doc.version,
     digest |-> ContractDigest(r.doc),
     hashes |-> ContractHashes(r.doc),
     actions |-> DOMAIN r.doc.actions \cup r.extra,
     dependencies |-> [d \in DOMAIN r.doc.dependencies |->
        [required |-> r.doc.dependencies[d].required,
         state |-> IF d \in contradictory THEN "contradictory"
                   ELSE IF d \in r.unready THEN "unready" ELSE "ready"]],
     degraded |-> DegradedOf(r),
     policy_mode |-> r.mode,
     moved |-> FALSE]

Init ==
    /\ constitution \in Origins
    /\ origin = constitution
    /\ amendments = 0
    /\ reported = {}
    /\ unanswered = FALSE
    /\ mode \in Modes
    /\ runtime = Running(constitution, mode)
    /\ attestation = AttestationOf(runtime, TRUE, {})
    /\ verdict = NoVerdict(constitution, mode)
    /\ window = EmptyWindow
    /\ clock = 0
    /\ approved = FALSE

-----------------------------------------------------------------------------
(* An amendment is adopted, whatever compare_authority says of it.         *)
Amend ==
    /\ amendments < MaxAmendments
    /\ \E doc \in Constitutions \ {constitution} :
        LET result == CompareAuthority(constitution, doc)
        IN  /\ constitution' = doc
            /\ reported' = reported \cup result.changes
            /\ unanswered' = (unanswered \/ result.status # "pass")
    /\ amendments' = amendments + 1
    /\ UNCHANGED <<origin, node, promotion>>

(* What the node runs changes: an attestation, or the verdict on it, made  *)
(* before is about what it ran then.                                       *)
Becomes(r) ==
    /\ runtime' = r
    /\ attestation' = [attestation EXCEPT !.moved = TRUE]
    /\ verdict' = [verdict EXCEPT !.moved = TRUE]
    /\ UNCHANGED <<authority, promotion>>

Deploy == constitution.actions_mapped /\ Becomes(Running(constitution, mode))

LoadPlugin == runtime.extra = {} /\ Becomes([runtime EXCEPT !.extra = {"plugin"}])

DependencyFails ==
    \E d \in DOMAIN runtime.doc.dependencies \ runtime.unready :
        Becomes([runtime EXCEPT !.unready = @ \cup {d}])

DependencyRecovers ==
    \E d \in runtime.unready : Becomes([runtime EXCEPT !.unready = @ \ {d}])

(* An attestation may leave fields out, or contradict itself.              *)
Attest ==
    /\ \E whole \in BOOLEAN, contradictory \in {{}, DOMAIN runtime.doc.dependencies} :
        attestation' = AttestationOf(runtime, whole, contradictory)
    /\ UNCHANGED <<authority, promotion, runtime, verdict>>

(* compare_attestation with whatever expectations the caller has.          *)
Evaluate ==
    /\ \E expected \in SUBSET Expectations :
        verdict' =
            [status |-> CompareAttestation(constitution, attestation, expected, mode),
             expected |-> expected, doc |-> constitution, mode |-> mode,
             moved |-> attestation.moved]
    /\ UNCHANGED <<authority, promotion, runtime, attestation>>

-----------------------------------------------------------------------------
Tick ==
    /\ clock < MaxClock
    /\ clock' = clock + 1
    /\ UNCHANGED <<authority, node, mode, window, approved>>

(* A run of some past moment is recorded: runs may be reported late and    *)
(* out of order, and the window takes the time of the last one.            *)
Record ==
    /\ window.completed_runs < MaxRuns
    /\ \E at \in 0 .. clock, failed \in BOOLEAN :
        window' = [whole |-> TRUE,
                   first |-> IF window.whole THEN window.first ELSE at,
                   last |-> at,
                   completed_runs |-> window.completed_runs + 1,
                   contract_failures |-> window.contract_failures + (IF failed THEN 1 ELSE 0)]
    /\ UNCHANGED <<authority, node, mode, clock, approved>>

RestartWindow ==
    /\ window.whole
    /\ window' = EmptyWindow
    /\ UNCHANGED <<authority, node, mode, clock, approved>>

Approve ==
    /\ ~approved
    /\ approved' = TRUE
    /\ UNCHANGED <<authority, node, mode, window, clock>>

(* The transition is asked for and made at once; an approval is of one.    *)
Promote ==
    /\ \E policy \in Policies, requested \in Modes \ {mode} :
        /\ EvaluatePromotion(policy, mode, requested, window, approved) = "eligible"
        /\ mode' = requested
    /\ approved' = FALSE
    /\ UNCHANGED <<authority, node, window, clock>>

Next ==
    \/ Amend \/ Deploy \/ LoadPlugin \/ DependencyFails \/ DependencyRecovers
    \/ Attest \/ Evaluate
    \/ Tick \/ Record \/ RestartWindow \/ Approve \/ Promote

Spec == Init /\ [][Next]_vars

-----------------------------------------------------------------------------
Statuses == {"none", "pass", "fail", "incomplete", "invalid"}

TypeOK ==
    /\ constitution \in Constitutions /\ runtime.doc \in Constitutions
    /\ amendments \in 0 .. MaxAmendments
    /\ \A c \in reported : c.kind \in {"added", "removed", "escalated", "reduced"}
    /\ verdict.status \in Statuses
    /\ verdict.expected \subseteq Expectations
    /\ mode \in Modes /\ runtime.mode \in Modes
    /\ window.completed_runs \in 0 .. MaxRuns
    /\ window.contract_failures \in 0 .. window.completed_runs
    /\ clock \in 0 .. MaxClock
    /\ {unanswered, approved, attestation.moved, verdict.moved} \subseteq BOOLEAN

(* "normalized observations rather than hidden prose differences" (ADR     *)
(* 0014:15): over any sequence of amendments that were all answered, an    *)
(* action that has more authority than at first, or requires less, or is   *)
(* new, left a trace, even if the fields, or the action, were removed and  *)
(* added again in between.                                                 *)
AuthorityIsTraced ==
    ~unanswered =>
        \A n \in DOMAIN constitution.actions :
            \/ Change(n, "action", "added") \in reported
            \/ /\ n \in DOMAIN origin.actions
               /\ \A f \in Fields :
                    LET old == origin.actions[n][f]
                        new == constitution.actions[n][f]
                    IN  /\ {old, new} \subseteq Values(f)
                        /\ Stronger(f, old, new)
                        => {Change(n, f, "escalated"), Change(n, f, "added")} \cap reported # {}
               /\ \A c \in Collections :
                    origin.actions[n][c] \ constitution.actions[n][c] # {} =>
                        Change(n, c, "removed") \in reported

(* "`pass`: evidence is structurally valid and consistent"                 *)
(* (governance-evidence-layer.md): unless the node changed since it        *)
(* attested, one that passes, or is incomplete, has no action undeclared   *)
(* or missing, has the version the constitution declares, if it declares   *)
(* one, the contracts of that constitution if a digest or the hashes were  *)
(* expected, and is in the expected mode; one that passes has every        *)
(* dependency that constitution requires.                                  *)
PassMeansConforms ==
    verdict.status \in {"pass", "incomplete"} /\ ~verdict.moved =>
        /\ DOMAIN runtime.doc.actions \cup runtime.extra = DOMAIN verdict.doc.actions
        /\ verdict.doc.version # NoField => runtime.doc.version = verdict.doc.version
        /\ verdict.expected \cap {"digest", "hashes"} # {} =>
             ContractHashes(runtime.doc) = ContractHashes(verdict.doc)
        /\ "mode" \in verdict.expected => runtime.mode = verdict.mode
        /\ verdict.status = "pass" =>
             RequiredIn(verdict.doc) \subseteq DOMAIN runtime.doc.dependencies \ runtime.unready

(* "`fail`: supplied evidence contradicts declared state": there are no    *)
(* false alarms.  A node that runs the constitution, without plugins and   *)
(* in the expected mode, does not fail, whichever dependencies it lacks    *)
(* and degraded modes it is in.                                            *)
NoFalseAlarm ==
    verdict.status = "fail" /\ ~verdict.moved =>
        \/ runtime.doc # verdict.doc
        \/ runtime.extra # {}
        \/ "mode" \in verdict.expected /\ runtime.mode # verdict.mode

(* More of the same evidence never takes eligibility away: later runs that *)
(* do not fail leave every eligible transition eligible.                   *)
EligibleStaysEligible ==
    [][\A p \in Policies, m \in Modes :
        /\ EvaluatePromotion(p, mode, m, window, approved) = "eligible"
        /\ mode' = mode
        /\ window'.completed_runs >= window.completed_runs
        /\ window'.last >= window.last
        /\ window'.contract_failures = window.contract_failures
        /\ approved => approved'
        => EvaluatePromotion(p, mode, m, window', approved') = "eligible"]_vars
=============================================================================
