--------------------------- MODULE GateEvaluation ---------------------------
(***************************************************************************)
(* The gate over bundles as they grow.  Any producer may append any record *)
(* the artifact schema admits; at every moment `l9-ci gate evaluate` may   *)
(* read the bundle, reject it or give its verdict (state functions of      *)
(* GateRules).  The steps are the appends, so a step relates the verdict   *)
(* before a record to the verdict after it.                                *)
(***************************************************************************)
EXTENDS GateRules

CONSTANTS
    ProviderIds,     \* provider identifiers
    FindingIds,      \* finding identifiers
    MaxProviders,    \* bound: provider runs and coverage records in a bundle
    MaxFailures,     \* bound: provider failures in a bundle
    MaxFindings      \* bound: findings and classifications in a bundle

ASSUME BoundsAssumption ==
    MaxProviders \in Nat /\ MaxFailures \in Nat /\ MaxFindings \in Nat

VARIABLE bundle

Bundles ==
    [ providers : Seq(ProviderRuns(ProviderIds)),
      coverage  : Seq(Coverages(ProviderIds)),
      failures  : Seq(Failures(ProviderIds)),
      findings  : Seq(Findings(FindingIds)),
      classes   : Seq(Classifications(FindingIds)) ]

BundleOK == bundle \in Bundles

GateInit ==
    bundle = [ providers |-> <<>>, coverage |-> <<>>, failures |-> <<>>,
               findings |-> <<>>, classes |-> <<>> ]

-----------------------------------------------------------------------------
AddProvider ==
    \E r \in ProviderRuns(ProviderIds) :
        /\ Len(bundle.providers) < MaxProviders
        /\ bundle' = [bundle EXCEPT !.providers = Append(@, r)]

AddCoverage ==
    \E c \in Coverages(ProviderIds) :
        /\ Len(bundle.coverage) < MaxProviders
        /\ bundle' = [bundle EXCEPT !.coverage = Append(@, c)]

AddFailure ==
    \E f \in Failures(ProviderIds) :
        /\ Len(bundle.failures) < MaxFailures
        /\ bundle' = [bundle EXCEPT !.failures = Append(@, f)]

AddFinding ==
    \E f \in Findings(FindingIds) :
        /\ Len(bundle.findings) < MaxFindings
        /\ bundle' = [bundle EXCEPT !.findings = Append(@, f)]

AddClassification ==
    \E c \in Classifications(FindingIds) :
        /\ Len(bundle.classes) < MaxFindings
        /\ bundle' = [bundle EXCEPT !.classes = Append(@, c)]

GateNext ==
    \/ AddProvider
    \/ AddCoverage
    \/ AddFailure
    \/ AddFinding
    \/ AddClassification

GateSpec == GateInit /\ [][GateNext]_bundle

-----------------------------------------------------------------------------
(***************************************************************************)
(* The reference verdict: look at every record on its own, rank the defect *)
(* it is, and let the worst defect decide.                                 *)
(***************************************************************************)
HasUnclassifiedFinding(b) ==
    \E f \in Elems(b.findings) :
        \A c \in Elems(b.classes) : c.finding_id # f.finding_id

HasRequiredFailure(b) == \E f \in Elems(b.failures) : f.required

HasUncoveredRequiredRun(b) ==
    \E r \in Elems(b.providers) :
        /\ r.required
        /\ \A c \in Elems(b.coverage) :
              c.provider_id = r.provider_id => c.status # "complete"

HasMode(b, m) == \E c \in Elems(b.classes) : c.mode = m

WorstDefect(b, strict) ==
    CASE HasUnclassifiedFinding(b) -> "invalid"
      [] /\ ~HasUnclassifiedFinding(b)
         /\ HasRequiredFailure(b) \/ HasUncoveredRequiredRun(b) -> "incomplete"
      [] /\ ~HasUnclassifiedFinding(b)
         /\ ~HasRequiredFailure(b) /\ ~HasUncoveredRequiredRun(b)
         /\ HasMode(b, "blocking") -> "fail"
      [] /\ ~HasUnclassifiedFinding(b)
         /\ ~HasRequiredFailure(b) /\ ~HasUncoveredRequiredRun(b)
         /\ ~HasMode(b, "blocking")
         /\ strict /\ HasMode(b, "unresolved") -> "incomplete"
      [] OTHER -> "pass"

(***************************************************************************)
(* For every bundle the validator accepts, the verdict is the one the      *)
(* worst single record calls for: the set arithmetic of evaluate_gate      *)
(* (maps keyed by provider, differences of sets, early returns) loses no   *)
(* defect and invents none.  A failure is a required one by its own flag,  *)
(* whatever the provider run's flag is.                                    *)
(***************************************************************************)
VerdictIsWorstDefect ==
    ValidBundle(bundle) =>
        \A strict \in BOOLEAN :
            GateStatus(bundle, strict) = WorstDefect(bundle, strict)

(***************************************************************************)
(* No added provider run, failure or finding can turn a verdict that was   *)
(* not PASS into PASS: only a classification or a coverage claim can       *)
(* (evaluate_gate, "fail closed").                                         *)
(***************************************************************************)
OnlyClaimsRedeem ==
    [][ \A strict \in BOOLEAN :
          /\ bundle'.classes = bundle.classes
          /\ bundle'.coverage = bundle.coverage
          /\ GateStatus(bundle', strict) = "pass"
          => GateStatus(bundle, strict) = "pass" ]_bundle
=============================================================================
