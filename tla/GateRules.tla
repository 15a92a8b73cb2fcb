------------------------------ MODULE GateRules ------------------------------
(***************************************************************************)
(* The pure rules of the canonical artifact plane: what makes a finding    *)
(* bundle valid (l9_ci/artifacts/validator.py) and what the gate says of   *)
(* a bundle (l9_ci/gates/evaluator.py).  No state; the modules that write, *)
(* read and judge bundles extend this one.                                 *)
(*                                                                         *)
(* A bundle is a record of lists, as in l9_ci/contracts/bundle.py:         *)
(*   providers   the provider runs: who ran, and whether it was required   *)
(*   coverage    one claim per provider of what it analysed                *)
(*   failures    the provider failures met on the way                      *)
(*   findings    the findings; "intact" says that the finding's evidence,  *)
(*               provider and snapshot references resolve                  *)
(*   classes     the policy's classification of findings                   *)
(***************************************************************************)
EXTENDS Naturals, Sequences

CoverageStatuses == {"complete", "partial", "skipped", "unsupported", "failed"}

RuleModes == {"blocking", "advisory", "shadow", "disabled", "unresolved"}

GateStatuses == {"pass", "fail", "incomplete", "invalid"}

ProviderRuns(P)    == [provider_id : P, required : BOOLEAN]
Coverages(P)       == [provider_id : P, status : CoverageStatuses]
Failures(P)        == [provider_id : P, required : BOOLEAN, fatal : BOOLEAN]
Findings(F)        == [finding_id : F, intact : BOOLEAN]
Classifications(F) == [finding_id : F, mode : RuleModes]

Elems(list) == {list[i] : i \in DOMAIN list}

ProviderIdsIn(list) == {r.provider_id : r \in Elems(list)}

FindingIdsIn(list) == {r.finding_id : r \in Elems(list)}

UniqueByProvider(list) ==
    \A i, k \in DOMAIN list : list[i].provider_id = list[k].provider_id => i = k

UniqueByFinding(list) ==
    \A i, k \in DOMAIN list : list[i].finding_id = list[k].finding_id => i = k

-----------------------------------------------------------------------------
(***************************************************************************)
(* validate_bundle_semantics: identifiers are unique, references resolve,  *)
(* and the coverage records are exactly those of the requested providers.  *)
(* Nothing requires a finding to be classified, nor a failure to name a    *)
(* requested provider.                                                     *)
(***************************************************************************)
ValidBundle(b) ==
    /\ UniqueByProvider(b.providers)
    /\ UniqueByProvider(b.coverage)
    /\ UniqueByFinding(b.findings)
    /\ UniqueByFinding(b.classes)
    /\ \A f \in Elems(b.findings) : f.intact
    /\ FindingIdsIn(b.classes) \subseteq FindingIdsIn(b.findings)
    /\ ProviderIdsIn(b.coverage) = ProviderIdsIn(b.providers)

-----------------------------------------------------------------------------
(***************************************************************************)
(* evaluate_gate.  The coverage map is built from the list, so a later     *)
(* record of the same provider would hide an earlier one.                  *)
(***************************************************************************)
LastIndexOf(list, p) ==
    CHOOSE i \in DOMAIN list :
        /\ list[i].provider_id = p
        /\ \A k \in DOMAIN list : list[k].provider_id = p => k <= i

CoverageStatusOf(b, p) == b.coverage[LastIndexOf(b.coverage, p)].status

Unclassified(b) == FindingIdsIn(b.findings) \ FindingIdsIn(b.classes)

(* Mutant: failures kept in a map by provider, where the last record wins. *)
LastFailureFatal(b) ==
    {p \in ProviderIdsIn(b.failures) :
        LET last == b.failures[LastIndexOf(b.failures, p)]
        IN  last.required /\ last.fatal}

FatalProviders(b) ==
    {f.provider_id : f \in {g \in Elems(b.failures) : g.required /\ g.fatal}}

NonfatalProviders(b) ==
    {f.provider_id : f \in {g \in Elems(b.failures) : g.required /\ ~g.fatal}}
        \ FatalProviders(b)

RequiredProviders(b) ==
    {r.provider_id : r \in {q \in Elems(b.providers) : q.required}}

UncoveredProviders(b) ==
    {p \in RequiredProviders(b) :
        \/ p \notin ProviderIdsIn(b.coverage)
        \/ CoverageStatusOf(b, p) \in {"failed", "partial", "skipped", "unsupported"}}

IncompleteProviders(b) == UncoveredProviders(b) \cup NonfatalProviders(b)

FindingsOfMode(b, m) ==
    {c.finding_id : c \in {d \in Elems(b.classes) : d.mode = m}}

(* Mutant: blocking findings reported before provider failures.            *)
GateStatusBlockingFirst(b, strict) ==
    IF Unclassified(b) # {} THEN "invalid"
    ELSE IF FindingsOfMode(b, "blocking") # {} THEN "fail"
    ELSE IF FatalProviders(b) \cup IncompleteProviders(b) # {} THEN "incomplete"
    ELSE IF strict /\ FindingsOfMode(b, "unresolved") # {} THEN "incomplete"
    ELSE "pass"

GateStatus(b, strict) ==
    IF Unclassified(b) # {} THEN "invalid"
    ELSE IF FatalProviders(b) \cup IncompleteProviders(b) # {} THEN "incomplete"
    ELSE IF FindingsOfMode(b, "blocking") # {} THEN "fail"
    ELSE IF strict /\ FindingsOfMode(b, "unresolved") # {} THEN "incomplete"
    ELSE "pass"
=============================================================================
