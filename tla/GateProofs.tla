----------------------------- MODULE GateProofs -----------------------------
(***************************************************************************)
(* Proofs about the gate, for bundles of any length over any providers and *)
(* findings.  No invariant beyond the type is needed: the verdict is a     *)
(* function of the bundle, and the lemmas relate each set the code builds  *)
(* to the records it stands for.                                           *)
(***************************************************************************)
EXTENDS GateEvaluation, TLAPS

(* An appended record adds itself to the elements and removes none.        *)
LEMMA AppendAdds ==
    ASSUME NEW S, NEW list \in Seq(S), NEW e \in S
    PROVE  Elems(list) \subseteq Elems(Append(list, e))
<1> SUFFICES ASSUME NEW i \in DOMAIN list
             PROVE  list[i] \in Elems(Append(list, e))
  BY DEF Elems
<1>1. i \in DOMAIN Append(list, e) /\ Append(list, e)[i] = list[i]
  OBVIOUS
<1> QED
  BY <1>1 DEF Elems

(* In a valid bundle a provider's only coverage record is the one the map  *)
(* of evaluate_gate holds.                                                 *)
LEMMA CoverageIsFound ==
    ASSUME NEW b, b.coverage \in Seq(Coverages(ProviderIds)),
           UniqueByProvider(b.coverage), NEW i \in DOMAIN b.coverage
    PROVE  CoverageStatusOf(b, b.coverage[i].provider_id) = b.coverage[i].status
<1> DEFINE p == b.coverage[i].provider_id
           IsLast(k) == /\ b.coverage[k].provider_id = p
                        /\ \A n \in DOMAIN b.coverage :
                              b.coverage[n].provider_id = p => n <= k
<1>1. \A n \in DOMAIN b.coverage : b.coverage[n].provider_id = p => n = i
  BY DEF UniqueByProvider
<1>2. DOMAIN b.coverage \subseteq Nat
  OBVIOUS
<1>3. IsLast(i)
  BY <1>1, <1>2
<1>4. LastIndexOf(b.coverage, p) = i
  BY <1>1, <1>3 DEF LastIndexOf
<1> QED
  BY <1>4 DEF CoverageStatusOf

(* The set of unclassified identifiers.                                    *)
LEMMA UnclassifiedMeans ==
    ASSUME NEW b
    PROVE  Unclassified(b) # {} <=> HasUnclassifiedFinding(b)
  BY DEF Unclassified, FindingIdsIn, HasUnclassifiedFinding

(* The two sets of failed providers.                                       *)
LEMMA FailuresMean ==
    ASSUME NEW b
    PROVE  FatalProviders(b) \cup NonfatalProviders(b) # {} <=> HasRequiredFailure(b)
  BY DEF FatalProviders, NonfatalProviders, HasRequiredFailure

(* The set of uncovered providers.                                         *)
LEMMA UncoveredMeans ==
    ASSUME NEW b \in Bundles, ValidBundle(b)
    PROVE  UncoveredProviders(b) # {} <=> HasUncoveredRequiredRun(b)
<1>1. b.coverage \in Seq(Coverages(ProviderIds)) /\ UniqueByProvider(b.coverage)
  BY DEF Bundles, ValidBundle
<1>2. \A c \in Elems(b.coverage) :
         /\ CoverageStatusOf(b, c.provider_id) = c.status
         /\ c.status \in CoverageStatuses
  <2> SUFFICES ASSUME NEW i \in DOMAIN b.coverage
               PROVE  /\ CoverageStatusOf(b, b.coverage[i].provider_id)
                           = b.coverage[i].status
                      /\ b.coverage[i].status \in CoverageStatuses
    BY DEF Elems
  <2>1. b.coverage[i] \in Coverages(ProviderIds)
    BY <1>1
  <2> QED
    BY <1>1, <2>1, CoverageIsFound DEF Coverages
<1>3. ASSUME NEW p
      PROVE  (\/ p \notin ProviderIdsIn(b.coverage)
              \/ CoverageStatusOf(b, p) \in {"failed", "partial", "skipped", "unsupported"})
             <=> \A c \in Elems(b.coverage) : c.provider_id = p => c.status # "complete"
  BY <1>2 DEF ProviderIdsIn, CoverageStatuses
<1> QED
  BY <1>3 DEF UncoveredProviders, RequiredProviders, HasUncoveredRequiredRun

(* The findings of a mode.                                                 *)
LEMMA ModesMean ==
    ASSUME NEW b, NEW m
    PROVE  FindingsOfMode(b, m) # {} <=> HasMode(b, m)
  BY DEF FindingsOfMode, HasMode

-----------------------------------------------------------------------------
(***************************************************************************)
(* evaluate_gate on a valid bundle is the verdict of its worst record.     *)
(***************************************************************************)
LEMMA VerdictOfValidBundle ==
    ASSUME NEW b \in Bundles, ValidBundle(b), NEW strict \in BOOLEAN
    PROVE  GateStatus(b, strict) = WorstDefect(b, strict)
<1>1. FatalProviders(b) \cup IncompleteProviders(b) # {}
         <=> HasRequiredFailure(b) \/ HasUncoveredRequiredRun(b)
  BY FailuresMean, UncoveredMeans DEF IncompleteProviders
<1>2. Unclassified(b) # {} <=> HasUnclassifiedFinding(b)
  BY UnclassifiedMeans
<1>3. \A m : FindingsOfMode(b, m) # {} <=> HasMode(b, m)
  BY ModesMean
<1> QED
  BY <1>1, <1>2, <1>3 DEF GateStatus, WorstDefect

(* A bundle with one list replaced is a bundle.                            *)
LEMMA UpdateIsBundle ==
    ASSUME NEW b \in Bundles
    PROVE  /\ \A v \in Seq(ProviderRuns(ProviderIds)) :
                 [b EXCEPT !.providers = v] \in Bundles
           /\ \A v \in Seq(Coverages(ProviderIds)) :
                 [b EXCEPT !.coverage = v] \in Bundles
           /\ \A v \in Seq(Failures(ProviderIds)) :
                 [b EXCEPT !.failures = v] \in Bundles
           /\ \A v \in Seq(Findings(FindingIds)) :
                 [b EXCEPT !.findings = v] \in Bundles
           /\ \A v \in Seq(Classifications(FindingIds)) :
                 [b EXCEPT !.classes = v] \in Bundles
  BY DEF Bundles

(* Appending a record to a list of a bundle gives a list of the same kind. *)
LEMMA AppendIsTyped ==
    ASSUME BundleOK
    PROVE  /\ \A r \in ProviderRuns(ProviderIds) :
                 Append(bundle.providers, r) \in Seq(ProviderRuns(ProviderIds))
           /\ \A c \in Coverages(ProviderIds) :
                 Append(bundle.coverage, c) \in Seq(Coverages(ProviderIds))
           /\ \A f \in Failures(ProviderIds) :
                 Append(bundle.failures, f) \in Seq(Failures(ProviderIds))
           /\ \A f \in Findings(FindingIds) :
                 Append(bundle.findings, f) \in Seq(Findings(FindingIds))
           /\ \A c \in Classifications(FindingIds) :
                 Append(bundle.classes, c) \in Seq(Classifications(FindingIds))
  BY DEF BundleOK, Bundles

(* The bundle of the model has the shape of the artifact.                  *)
THEOREM TypeCorrectness == GateSpec => []BundleOK
<1>1. GateInit => BundleOK
  BY DEF GateInit, BundleOK, Bundles
<1>2. BundleOK /\ [GateNext]_bundle => BundleOK'
  <2> SUFFICES ASSUME BundleOK, [GateNext]_bundle PROVE BundleOK'
    OBVIOUS
  <2>1. bundle \in Bundles
    BY DEF BundleOK
  <2>2. CASE AddProvider
    BY <2>1, <2>2, UpdateIsBundle, AppendIsTyped, Zenon DEF AddProvider, BundleOK
  <2>3. CASE AddCoverage
    BY <2>1, <2>3, UpdateIsBundle, AppendIsTyped, Zenon DEF AddCoverage, BundleOK
  <2>4. CASE AddFailure
    BY <2>1, <2>4, UpdateIsBundle, AppendIsTyped, Zenon DEF AddFailure, BundleOK
  <2>5. CASE AddFinding
    BY <2>1, <2>5, UpdateIsBundle, AppendIsTyped, Zenon DEF AddFinding, BundleOK
  <2>6. CASE AddClassification
    BY <2>1, <2>6, UpdateIsBundle, AppendIsTyped, Zenon DEF AddClassification, BundleOK
  <2>7. CASE UNCHANGED bundle
    BY <2>7 DEF BundleOK
  <2> QED
    BY <2>2, <2>3, <2>4, <2>5, <2>6, <2>7 DEF GateNext
<1> QED
  BY <1>1, <1>2, PTL DEF GateSpec

(***************************************************************************)
(* The gate's verdict on every valid bundle any producers can assemble.    *)
(***************************************************************************)
THEOREM VerdictCorrectness == GateSpec => []VerdictIsWorstDefect
<1>1. BundleOK => VerdictIsWorstDefect
  BY VerdictOfValidBundle DEF BundleOK, VerdictIsWorstDefect
<1> QED
  BY <1>1, TypeCorrectness, PTL

-----------------------------------------------------------------------------
(* A pass has no failure, no uncovered run, no unclassified finding, and   *)
(* no finding of the modes that matter.                                    *)
LEMMA PassMeans ==
    ASSUME NEW b, NEW strict
    PROVE  GateStatus(b, strict) = "pass" <=>
              /\ Unclassified(b) = {}
              /\ ~HasRequiredFailure(b)
              /\ UncoveredProviders(b) = {}
              /\ FindingsOfMode(b, "blocking") = {}
              /\ strict => FindingsOfMode(b, "unresolved") = {}
<1>1. FatalProviders(b) \cup IncompleteProviders(b) # {}
         <=> HasRequiredFailure(b) \/ UncoveredProviders(b) # {}
  BY FailuresMean DEF IncompleteProviders
<1> QED
  BY <1>1 DEF GateStatus

(* More runs, failures and findings with the same claims never help.       *)
LEMMA MoreRecordsDoNotHelp ==
    ASSUME NEW b, NEW c, NEW strict,
           c.coverage = b.coverage, c.classes = b.classes,
           Elems(b.providers) \subseteq Elems(c.providers),
           Elems(b.failures) \subseteq Elems(c.failures),
           Elems(b.findings) \subseteq Elems(c.findings),
           GateStatus(c, strict) = "pass"
    PROVE  GateStatus(b, strict) = "pass"
<1>1. Unclassified(b) \subseteq Unclassified(c)
  BY DEF Unclassified, FindingIdsIn
<1>2. HasRequiredFailure(b) => HasRequiredFailure(c)
  BY DEF HasRequiredFailure
<1>3. UncoveredProviders(b) \subseteq UncoveredProviders(c)
  BY DEF UncoveredProviders, RequiredProviders, CoverageStatusOf
<1>4. \A m : FindingsOfMode(b, m) = FindingsOfMode(c, m)
  BY DEF FindingsOfMode
<1>5. /\ Unclassified(c) = {} /\ ~HasRequiredFailure(c)
      /\ UncoveredProviders(c) = {} /\ FindingsOfMode(c, "blocking") = {}
      /\ strict => FindingsOfMode(c, "unresolved") = {}
  BY PassMeans
<1>6. /\ Unclassified(b) = {} /\ ~HasRequiredFailure(b)
      /\ UncoveredProviders(b) = {} /\ FindingsOfMode(b, "blocking") = {}
      /\ strict => FindingsOfMode(b, "unresolved") = {}
  BY <1>1, <1>2, <1>3, <1>4, <1>5
<1> QED
  BY <1>6, PassMeans

(* What an append does to the lists a claim does not change.               *)
LEMMA AppendsGrow ==
    ASSUME BundleOK, GateNext, bundle'.classes = bundle.classes,
           bundle'.coverage = bundle.coverage
    PROVE  /\ Elems(bundle.providers) \subseteq Elems(bundle'.providers)
           /\ Elems(bundle.failures) \subseteq Elems(bundle'.failures)
           /\ Elems(bundle.findings) \subseteq Elems(bundle'.findings)
<1> USE DEF BundleOK, Bundles
<1>1. CASE AddProvider
  <2> PICK r \in ProviderRuns(ProviderIds) :
        bundle' = [bundle EXCEPT !.providers = Append(@, r)]
    BY <1>1 DEF AddProvider
  <2> QED
    BY AppendAdds
<1>2. CASE AddCoverage
  BY <1>2 DEF AddCoverage
<1>3. CASE AddFailure
  <2> PICK f \in Failures(ProviderIds) :
        bundle' = [bundle EXCEPT !.failures = Append(@, f)]
    BY <1>3 DEF AddFailure
  <2> QED
    BY AppendAdds
<1>4. CASE AddFinding
  <2> PICK f \in Findings(FindingIds) :
        bundle' = [bundle EXCEPT !.findings = Append(@, f)]
    BY <1>4 DEF AddFinding
  <2> QED
    BY AppendAdds
<1>5. CASE AddClassification
  BY <1>5 DEF AddClassification
<1> QED
  BY <1>1, <1>2, <1>3, <1>4, <1>5 DEF GateNext

(***************************************************************************)
(* evaluate_gate fails closed under added records: only claims redeem.     *)
(***************************************************************************)
THEOREM FailClosed == GateSpec => OnlyClaimsRedeem
<1>1. ASSUME BundleOK, [GateNext]_bundle
      PROVE  [ \A strict \in BOOLEAN :
                 /\ bundle'.classes = bundle.classes
                 /\ bundle'.coverage = bundle.coverage
                 /\ GateStatus(bundle', strict) = "pass"
                 => GateStatus(bundle, strict) = "pass" ]_bundle
  <2>1. CASE UNCHANGED bundle
    BY <2>1
  <2>2. CASE GateNext
    <3> SUFFICES ASSUME NEW strict \in BOOLEAN,
                        bundle'.classes = bundle.classes,
                        bundle'.coverage = bundle.coverage,
                        GateStatus(bundle', strict) = "pass"
                 PROVE  GateStatus(bundle, strict) = "pass"
      OBVIOUS
    <3> QED
      BY <1>1, <2>2, AppendsGrow, MoreRecordsDoNotHelp
  <2> QED
    BY <1>1, <2>1, <2>2
<1> QED
  BY <1>1, TypeCorrectness, PTL DEF GateSpec, OnlyClaimsRedeem
=============================================================================
