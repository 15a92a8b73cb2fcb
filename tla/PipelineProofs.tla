--------------------------- MODULE PipelineProofs ---------------------------
(***************************************************************************)
(* Proofs about SemgrepPipeline, for any number of jobs, any requests, any *)
(* report contents, fresh and reused workspaces, overlapping jobs or not;  *)
(* and, in the last section, about fresh machines.                         *)
(***************************************************************************)
EXTENDS SemgrepPipeline, TLAPS

(* What a step of a job takes for granted of the job's own variables.      *)
StepHasInputs ==
    \A j \in Jobs :
        /\ pc[j] = "await" => child[j] # Nothing
        /\ pc[j] \in {"assemble", "publish"} => norm[j] # Nothing

TypeInv == TypeOK /\ StepHasInputs

-----------------------------------------------------------------------------
(* The records the actions build have their types.                         *)
LEMMA NothingIsNoRecord ==
    /\ Nothing \notin Children
    /\ Nothing \notin Normalizations
    /\ Nothing \notin Reports
    /\ Nothing \notin Bundles
  BY DEF Nothing, Children, Normalizations, Reports, Bundles

LEMMA FailedRunIsTyped ==
    ASSUME NEW t \in FailureTypes
    PROVE  FailedRun(t) \in Normalizations
<1>1. <<t>> \in Seq(FailureTypes) /\ <<>> \in Seq(Matches)
  OBVIOUS
<1> QED
  BY <1>1 DEF FailedRun, Normalizations, CoverageStatuses

LEMMA NormalizedIsTyped ==
    ASSUME NEW report \in Reports
    PROVE  Normalized(report) \in Normalizations
<1>1. report.content.matches \in Seq(Matches)
  BY DEF Reports, ContentType
<1>2. (IF report.content.errors = "fatal" THEN <<"execution_error">> ELSE <<>>)
         \in Seq(FailureTypes)
  <2>1. <<"execution_error">> \in Seq(FailureTypes) /\ <<>> \in Seq(FailureTypes)
    BY DEF FailureTypes
  <2> QED
    BY <2>1, Zenon
<1> QED
  BY <1>1, <1>2 DEF Normalized, Normalizations, CoverageStatuses

LEMMA ChildIsTyped ==
    ASSUME NEW c \in Children
    PROVE  /\ [c EXCEPT !.alive = FALSE] \in Children
           /\ [c EXCEPT !.progress = "writing"] \in Children
           /\ [c EXCEPT !.progress = "wrote"] \in Children
  BY DEF Children

LEMMA ReportIsTyped ==
    ASSUME NEW j \in Jobs, NEW c \in ContentType
    PROVE  [kind |-> "report", by |-> j, content |-> c] \in Reports
  BY DEF Reports

LEMMA PartIsTyped ==
    [body |-> "unparsable", errors |-> "none", scanned |-> FALSE, matches |-> <<>>]
        \in ContentType
  BY DEF ContentType

LEMMA RunIsTyped ==
    ASSUME NEW required \in BOOLEAN, NEW coverage \in CoverageStatuses
    PROVE  /\ <<[provider_id |-> "semgrep", required |-> required]>>
                \in Seq(ProviderRuns({"semgrep"}))
           /\ <<[provider_id |-> "semgrep", status |-> coverage]>>
                \in Seq(Coverages({"semgrep"}))
<1>1. [provider_id |-> "semgrep", required |-> required] \in ProviderRuns({"semgrep"})
  BY DEF ProviderRuns
<1>2. [provider_id |-> "semgrep", status |-> coverage] \in Coverages({"semgrep"})
  BY DEF Coverages
<1> QED
  BY <1>1, <1>2

LEMMA MapIsSeq ==
    ASSUME NEW S, NEW T, NEW list \in Seq(S), NEW f,
           f = [i \in DOMAIN list |-> f[i]], \A i \in DOMAIN list : f[i] \in T
    PROVE  f \in Seq(T)
<1>1. DOMAIN list = 1 .. Len(list) /\ Len(list) \in Nat
  OBVIOUS
<1>2. f \in [1 .. Len(list) -> T]
  BY <1>1, Zenon
<1> QED
  BY <1>1, <1>2

LEMMA BundleIsTyped ==
    ASSUME TypeOK, NEW j \in Jobs, norm[j] # Nothing
    PROVE  BundleOf(j) \in Bundles
<1>1. norm[j] \in Normalizations /\ req[j] \in RequestType /\ version[j] \in Versions
  BY PipelineAssumption DEF TypeOK
<1>2. /\ norm[j].findings \in Seq(Matches)
      /\ norm[j].failures \in Seq(FailureTypes)
      /\ norm[j].coverage \in CoverageStatuses
      /\ norm[j].scan \in Reports \cup {Nothing}
  BY <1>1 DEF Normalizations
<1>3. /\ req[j].required \in BOOLEAN /\ req[j].strict \in BOOLEAN
      /\ req[j].execute \in BOOLEAN
  BY <1>1 DEF RequestType
<1>4. /\ <<[provider_id |-> "semgrep", required |-> req[j].required]>>
            \in Seq(ProviderRuns({"semgrep"}))
      /\ <<[provider_id |-> "semgrep", status |-> norm[j].coverage]>>
            \in Seq(Coverages({"semgrep"}))
  BY <1>2, <1>3, RunIsTyped
<1>5. [i \in DOMAIN norm[j].failures |->
         [ provider_id |-> "semgrep", required |-> req[j].required,
           fatal |-> req[j].required ]] \in Seq(Failures({"semgrep"}))
  <2>1. [ provider_id |-> "semgrep", required |-> req[j].required,
          fatal |-> req[j].required ] \in Failures({"semgrep"})
    BY <1>3 DEF Failures
  <2> QED
    BY <1>2, <2>1, MapIsSeq
<1>6. [i \in DOMAIN norm[j].findings |->
         [finding_id |-> norm[j].findings[i], intact |-> TRUE]] \in Seq(Findings(Matches))
  <2>1. \A i \in DOMAIN norm[j].findings :
           [finding_id |-> norm[j].findings[i], intact |-> TRUE] \in Findings(Matches)
    BY <1>2 DEF Findings
  <2> QED
    BY <1>2, <2>1, MapIsSeq
<1>7. [i \in DOMAIN norm[j].findings |->
         [ finding_id |-> norm[j].findings[i],
           mode |-> PolicyMode[norm[j].findings[i]] ]] \in Seq(Classifications(Matches))
  <2>1. \A i \in DOMAIN norm[j].findings :
           [ finding_id |-> norm[j].findings[i],
             mode |-> PolicyMode[norm[j].findings[i]] ] \in Classifications(Matches)
    BY <1>2, PipelineAssumption DEF Classifications
  <2> QED
    BY <1>2, <2>1, MapIsSeq
<1>8. <<>> \in Seq(Classifications(Matches))
  OBVIOUS
<1> QED
  BY <1>1, <1>2, <1>3, <1>4, <1>5, <1>6, <1>7, <1>8, Zenon DEF BundleOf, Bundles

-----------------------------------------------------------------------------
(* The actions, one lemma for each group that changes the same variables.  *)
LEMMA InitType == Init => TypeInv
  BY PipelineAssumption
  DEF Init, TypeInv, TypeOK, StepHasInputs, Nothing, Steps, Versions

(* Fails and EndsWithFailure, the two ways a step can end a run.           *)
LEMMA EndIsTyped ==
    ASSUME TypeOK, NEW j \in Jobs
    PROVE  /\ Fails(j) => pc' \in [Jobs -> Steps]
                          /\ exit' \in [Jobs -> {"none", "ok", "error", "killed"}]
                          /\ pc' = [pc EXCEPT ![j] = "end"]
           /\ \A t \in FailureTypes : EndsWithFailure(j, t) =>
                 /\ norm' \in [Jobs -> Normalizations \cup {Nothing}]
                 /\ norm'[j] # Nothing
                 /\ \A k \in Jobs : k # j => norm'[k] = norm[k]
                 /\ pc' = [pc EXCEPT ![j] = "assemble"]
                 /\ pc' \in [Jobs -> Steps]
  BY FailedRunIsTyped, NothingIsNoRecord
  DEF TypeOK, Fails, EndsWithFailure, Steps

LEMMA StartType ==
    ASSUME TypeInv, NEW j \in Jobs, Start(j) \/ Refuse(j)
    PROVE  TypeInv'
<1>1. /\ raw' \in [Places -> Reports \cup {Nothing}]
      /\ out' \in Bundles \cup {Nothing}
      /\ child' \in [Jobs -> Children \cup {Nothing}]
      /\ \A k \in Jobs : child'[k] = Nothing <=> child[k] = Nothing
  <2>1. TakeWorkspace(j)
    BY DEF Start, Refuse
  <2>2. CASE FreshWorkspace
    <3> DEFINE c(k) == IF child[k] = Nothing THEN Nothing
                       ELSE [child[k] EXCEPT !.alive = FALSE]
    <3>1. child' = [k \in Jobs |-> c(k)]
      BY <2>1, <2>2, Zenon DEF TakeWorkspace
    <3>2. ASSUME NEW k \in Jobs
          PROVE  /\ c(k) \in Children \cup {Nothing}
                 /\ c(k) = Nothing <=> child[k] = Nothing
      <4>1. CASE child[k] = Nothing
        BY <4>1, Zenon
      <4>2. CASE child[k] # Nothing
        <5>1. child[k] \in Children
          BY <4>2 DEF TypeInv, TypeOK
        <5>2. c(k) \in Children
          BY <4>2, <5>1, ChildIsTyped, Zenon
        <5> QED
          BY <4>2, <5>2, NothingIsNoRecord, Zenon
      <4> QED
        BY <4>1, <4>2
    <3> HIDE DEF c
    <3>3. raw' = [p \in Places |-> Nothing] /\ out' = Nothing
      BY <2>1, <2>2 DEF TakeWorkspace
    <3> QED
      BY <3>1, <3>2, <3>3
  <2>3. CASE ~FreshWorkspace
    BY <2>1, <2>3 DEF TakeWorkspace, TypeInv, TypeOK
  <2> QED
    BY <2>2, <2>3
<1>2. CASE Start(j)
  BY <1>1, <1>2 DEF Start, TypeInv, TypeOK, StepHasInputs, Steps
<1>3. CASE Refuse(j)
  BY <1>1, <1>3, EndIsTyped DEF Refuse, TypeInv, TypeOK, StepHasInputs
<1> QED
  BY <1>2, <1>3

LEMMA AcquireType ==
    ASSUME TypeInv, NEW j \in Jobs, Acquire(j)
    PROVE  TypeInv'
<1>1. raw' \in [Places -> Reports \cup {Nothing}]
  BY PipelineAssumption, ReportIsTyped DEF TypeInv, TypeOK, Acquire
<1> QED
  BY <1>1 DEF Acquire, TypeInv, TypeOK, StepHasInputs, Steps, Versions

LEMMA PrepareType ==
    ASSUME TypeInv, NEW j \in Jobs,
           DetectVersion(j) \/ Detect(j) \/ Configure(j)
    PROVE  TypeInv'
<1> USE EndIsTyped DEF TypeInv, TypeOK, StepHasInputs, Steps
<1>1. CASE DetectVersion(j)
  BY <1>1 DEF DetectVersion, Versions
<1>2. CASE Detect(j)
  BY <1>2 DEF Detect, FailureTypes
<1>3. CASE Configure(j)
  BY <1>3 DEF Configure, FailureTypes
<1> QED
  BY <1>1, <1>2, <1>3

LEMMA LaunchType ==
    ASSUME TypeInv, NEW j \in Jobs, Launch(j)
    PROVE  TypeInv'
<1>1. LaunchFailure \in Results
  BY DEF LaunchFailure, Results
<1>2. [kind |-> "child", alive |-> TRUE, progress |-> "scanning"] \in Children
  BY DEF Children
<1> QED
  BY <1>1, <1>2, NothingIsNoRecord
  DEF Launch, TypeInv, TypeOK, StepHasInputs, Steps

LEMMA ChildType ==
    ASSUME TypeInv, NEW j \in Jobs, ChildWritesPart(j) \/ ChildWritesAll(j)
    PROVE  TypeInv'
<1>1. child[j] \in Children
  BY DEF TypeInv, TypeOK, ChildWritesPart, ChildWritesAll, ChildAt
<1>2. ReportPlace(j) \in Places
  BY DEF ReportPlace, Places
<1>3. PICK c \in ContentType :
        raw' = [raw EXCEPT ![ReportPlace(j)] =
                  [kind |-> "report", by |-> j, content |-> c]]
  <2>1. CASE ChildWritesPart(j)
    BY <2>1, PartIsTyped, Zenon DEF ChildWritesPart
  <2>2. CASE ChildWritesAll(j)
    BY <2>2, PipelineAssumption DEF ChildWritesAll
  <2> QED
    BY <2>1, <2>2
<1>4. raw' \in [Places -> Reports \cup {Nothing}]
  BY <1>2, <1>3, ReportIsTyped DEF TypeInv, TypeOK
<1>5. PICK grown \in Children : child' = [child EXCEPT ![j] = grown]
  <2>1. CASE ChildWritesPart(j)
    BY <1>1, <2>1, ChildIsTyped, Zenon DEF ChildWritesPart
  <2>2. CASE ChildWritesAll(j)
    BY <1>1, <2>2, ChildIsTyped, Zenon DEF ChildWritesAll
  <2> QED
    BY <2>1, <2>2
<1>6. /\ child' \in [Jobs -> Children \cup {Nothing}]
      /\ \A k \in Jobs : child[k] # Nothing => child'[k] # Nothing
  BY <1>5, NothingIsNoRecord DEF TypeInv, TypeOK
<1> QED
  BY <1>4, <1>6 DEF ChildWritesPart, ChildWritesAll, TypeInv, TypeOK, StepHasInputs

LEMMA EndsType ==
    ASSUME TypeInv, NEW j \in Jobs, ChildExits(j) \/ ChildTimesOut(j)
    PROVE  TypeInv'
<1>1. child[j] \in Children
  BY DEF TypeInv, TypeOK, StepHasInputs, ChildExits, ChildTimesOut
<1>2. PICK code \in {-1, 0, 1, 2}, timed_out \in BOOLEAN : ChildEnds(j, code, timed_out)
  BY DEF ChildExits, ChildTimesOut
<1>3. /\ child' \in [Jobs -> Children \cup {Nothing}]
      /\ \A k \in Jobs : child[k] # Nothing => child'[k] # Nothing
  BY <1>1, <1>2, ChildIsTyped, NothingIsNoRecord DEF TypeInv, TypeOK, ChildEnds
<1>4. result' \in [Jobs -> Results \cup {Nothing}]
  <2>1. PICK limit \in BOOLEAN :
          result' = [result EXCEPT ![j] =
                      [ kind |-> "result", exit_code |-> code,
                        timed_out |-> timed_out, output_limit_exceeded |-> limit,
                        report_path |-> raw["cwd"] # Nothing ]]
    BY <1>2 DEF ChildEnds
  <2>2. [ kind |-> "result", exit_code |-> code,
          timed_out |-> timed_out, output_limit_exceeded |-> limit,
          report_path |-> raw["cwd"] # Nothing ] \in Results
    BY DEF Results
  <2> QED
    BY <2>1, <2>2 DEF TypeInv, TypeOK
<1> QED
  BY <1>2, <1>3, <1>4 DEF ChildEnds, TypeInv, TypeOK, StepHasInputs, Steps

LEMMA RaisesType ==
    ASSUME TypeInv, NEW j \in Jobs, ExecuteRaises(j)
    PROVE  TypeInv'
<1>1. child[j] # Nothing => child[j] \in Children
  BY DEF TypeInv, TypeOK
<1>2. /\ child' \in [Jobs -> Children \cup {Nothing}]
      /\ \A k \in Jobs : child[k] # Nothing => child'[k] # Nothing
  BY <1>1, ChildIsTyped, NothingIsNoRecord DEF ExecuteRaises, TypeInv, TypeOK
<1>3. EndsWithFailure(j, "execution_error") /\ "execution_error" \in FailureTypes
  BY DEF ExecuteRaises, FailureTypes
<1> QED
  BY <1>2, <1>3, EndIsTyped DEF ExecuteRaises, TypeInv, TypeOK, StepHasInputs, Steps

LEMMA JudgeType ==
    ASSUME TypeInv, NEW j \in Jobs, Judge(j)
    PROVE  TypeInv'
<1>1. ASSUME ExecutionFailure(result[j]) # <<>>
      PROVE  ExecutionFailure(result[j])[1] \in FailureTypes
  BY <1>1 DEF ExecutionFailure, FailureTypes
<1> QED
  BY <1>1, EndIsTyped DEF Judge, TypeInv, TypeOK, StepHasInputs, Steps

LEMMA ImportType ==
    ASSUME TypeInv, NEW j \in Jobs, Import(j)
    PROVE  TypeInv'
<1> DEFINE problem == ReportProblem(raw["cwd"])
<1>1. CASE problem = <<>>
  <2>1. raw["cwd"] \in Reports
    BY <1>1 DEF ReportProblem, TypeInv, TypeOK, Places
  <2>2. Normalized(raw["cwd"]) \in Normalizations
    BY <2>1, NormalizedIsTyped
  <2> QED
    BY <1>1, <2>2, NothingIsNoRecord DEF Import, TypeInv, TypeOK, StepHasInputs, Steps
<1>2. CASE problem # <<>>
  <2>1. problem[1] \in FailureTypes
    BY <1>2 DEF ReportProblem, FailureTypes
  <2> QED
    BY <1>2, <2>1, EndIsTyped DEF Import, TypeInv, TypeOK, StepHasInputs
<1> QED
  BY <1>1, <1>2

LEMMA PublishType ==
    ASSUME TypeInv, NEW j \in Jobs, Assemble(j) \/ Publish(j) \/ PublishRaises(j)
    PROVE  TypeInv'
<1> USE EndIsTyped DEF TypeInv, TypeOK, StepHasInputs, Steps
<1>1. CASE Assemble(j)
  BY <1>1 DEF Assemble
<1>2. CASE Publish(j)
  <2>1. BundleOf(j) \in Bundles
    BY <1>2, BundleIsTyped DEF Publish
  <2> QED
    BY <1>2, <2>1 DEF Publish
<1>3. CASE PublishRaises(j)
  BY <1>3 DEF PublishRaises
<1> QED
  BY <1>1, <1>2, <1>3

LEMMA GateType ==
    ASSUME TypeInv, NEW j \in Jobs, GateEvaluate(j)
    PROVE  TypeInv'
<1>1. ASSUME NEW strict \in BOOLEAN
      PROVE  [ kind |-> "verdict", bundle |-> out,
               status |-> IF out = Nothing THEN "error"
                          ELSE IF ~ValidBundle(out) THEN "error"
                          ELSE GateStatus(out, strict) ] \in Verdicts
  BY DEF Verdicts, GateStatuses, GateStatus, TypeInv, TypeOK
<1> QED
  BY <1>1 DEF GateEvaluate, TypeInv, TypeOK, StepHasInputs, Steps

LEMMA OutsideType ==
    ASSUME TypeInv, ToolChanges \/ (\E j \in Jobs : Kill(j)) \/ UNCHANGED vars
    PROVE  TypeInv'
<1> USE DEF TypeInv, TypeOK, StepHasInputs, Steps
<1>1. CASE ToolChanges
  BY <1>1, PipelineAssumption DEF ToolChanges
<1>2. CASE \E j \in Jobs : Kill(j)
  BY <1>2 DEF Kill
<1>3. CASE UNCHANGED vars
  BY <1>3 DEF vars
<1> QED
  BY <1>1, <1>2, <1>3

LEMMA NextType == TypeInv /\ [Next]_vars => TypeInv'
<1> SUFFICES ASSUME TypeInv, [Next]_vars PROVE TypeInv'
  OBVIOUS
<1> QED
  BY StartType, AcquireType, PrepareType, LaunchType, ChildType, EndsType, RaisesType, JudgeType,
     ImportType, PublishType, GateType, OutsideType
  DEF Next, Command, Child

(* The invariant of every behaviour.                                       *)
THEOREM TypeInvariance == Spec => []TypeInv
  BY InitType, NextType, PTL DEF Spec

(***************************************************************************)
(* Type correctness of the pipeline: the bundle at the output path always  *)
(* has the shape of the artifact contract, and every verdict is defined.   *)
(***************************************************************************)
THEOREM TypeCorrectness == Spec => []TypeOK
<1>1. TypeInv => TypeOK
  BY DEF TypeInv
<1> QED
  BY <1>1, TypeInvariance, PTL

-----------------------------------------------------------------------------
(***************************************************************************)
(* Complete coverage.  The claim is made by normalize and published later, *)
(* and the version it vouches for was probed earlier: the invariant says   *)
(* what each stage has established when the next one begins.               *)
(***************************************************************************)
BeforeNormalization ==
    {"idle", "probe", "acquire", "detect", "configure", "launch", "await",
     "judge", "import"}

VersionIsSettled ==
    \A j \in Jobs :
        pc[j] \in {"configure", "launch", "await", "judge", "import"}
            => version[j] = "supported"

NotYetNormalized ==
    \A j \in Jobs : pc[j] \in BeforeNormalization => norm[j] = Nothing

EarnedByNormalization(n) ==
    n.coverage = "complete" =>
        /\ n.failures = <<>>
        /\ n.scan # Nothing
        /\ n.scan.content.scanned

NormalizationIsEarned ==
    \A j \in Jobs : norm[j] # Nothing =>
        /\ EarnedByNormalization(norm[j])
        /\ norm[j].coverage = "complete" => version[j] = "supported"

CoverageInv ==
    /\ VersionIsSettled
    /\ NotYetNormalized
    /\ NormalizationIsEarned
    /\ CompleteCoverageIsEarned

(* What normalize and _failed say of coverage.                             *)
LEMMA NormalizedIsEarned ==
    ASSUME NEW report \in Reports
    PROVE  EarnedByNormalization(Normalized(report))
<1>1. report # Nothing
  BY NothingIsNoRecord
<1>2. CASE report.content.errors = "fatal"
  <2>1. Normalized(report).coverage = "partial"
    BY <1>2 DEF Normalized
  <2> QED
    BY <2>1 DEF EarnedByNormalization
<1>3. CASE report.content.errors # "fatal"
  <2>1. /\ Normalized(report).failures = <<>>
        /\ Normalized(report).scan = report
        /\ ~report.content.scanned => Normalized(report).coverage = "partial"
    BY <1>3 DEF Normalized
  <2> QED
    BY <1>1, <2>1 DEF EarnedByNormalization
<1> QED
  BY <1>2, <1>3

LEMMA FailedRunClaimsNothing ==
    ASSUME NEW t
    PROVE  FailedRun(t).coverage = "failed"
  BY DEF FailedRun

(* The bundle carries the claim of its normalization.                      *)
LEMMA BundleCarriesCoverage ==
    ASSUME NEW j \in Jobs
    PROVE  /\ CoverageStatusOf(BundleOf(j), "semgrep") = norm[j].coverage
           /\ BundleOf(j).version = version[j]
           /\ BundleOf(j).scan = norm[j].scan
           /\ norm[j].failures = <<>> => BundleOf(j).failures = <<>>
<1> DEFINE list == <<[provider_id |-> "semgrep", status |-> norm[j].coverage]>>
<1>1. BundleOf(j).coverage = list
  BY DEF BundleOf
<1>2. LastIndexOf(list, "semgrep") = 1
  BY DEF LastIndexOf
<1>3. CoverageStatusOf(BundleOf(j), "semgrep") = norm[j].coverage
  BY <1>1, <1>2 DEF CoverageStatusOf
<1>4. ASSUME norm[j].failures = <<>>
      PROVE  BundleOf(j).failures = <<>>
  BY <1>4 DEF BundleOf
<1>5. BundleOf(j).version = version[j] /\ BundleOf(j).scan = norm[j].scan
  BY DEF BundleOf
<1> QED
  BY <1>3, <1>4, <1>5

LEMMA InitCoverage == Init => CoverageInv
  BY DEF Init, CoverageInv, VersionIsSettled, NotYetNormalized,
         NormalizationIsEarned, CompleteCoverageIsEarned

(* Steps that neither normalize nor publish.                               *)
LEMMA PlainStepCoverage ==
    ASSUME TypeInv, CoverageInv, NEW j \in Jobs,
           \/ Start(j) \/ Refuse(j) \/ Acquire(j) \/ DetectVersion(j) \/ Launch(j)
           \/ ChildWritesPart(j) \/ ChildWritesAll(j) \/ ChildExits(j)
           \/ ChildTimesOut(j) \/ Assemble(j) \/ PublishRaises(j)
           \/ GateEvaluate(j) \/ Kill(j) \/ ToolChanges \/ UNCHANGED vars
    PROVE  CoverageInv'
<1>1. norm' = norm
  BY DEF Start, Refuse, Acquire, DetectVersion, Launch, ChildWritesPart,
         ChildWritesAll, ChildExits, ChildTimesOut, ChildEnds, Assemble,
         PublishRaises, GateEvaluate, Kill, ToolChanges, vars
<1>2. out' \in {out, Nothing}
  BY DEF Start, Refuse, TakeWorkspace, Acquire, DetectVersion, Launch, ChildWritesPart,
         ChildWritesAll, ChildExits, ChildTimesOut, ChildEnds, Assemble,
         PublishRaises, GateEvaluate, Kill, ToolChanges, vars
<1>3. CompleteCoverageIsEarned'
  BY <1>2 DEF CoverageInv, CompleteCoverageIsEarned
<1>4. NotYetNormalized'
  <2>1. \A k \in Jobs : pc'[k] \in BeforeNormalization => pc[k] \in BeforeNormalization
    BY DEF Start, Refuse, Acquire, DetectVersion, Launch, ChildWritesPart,
           ChildWritesAll, ChildExits, ChildTimesOut, ChildEnds, Assemble, Fails,
           PublishRaises, GateEvaluate, Kill, ToolChanges, vars, MayStart,
           BeforeNormalization, TypeInv, TypeOK
  <2> QED
    BY <1>1, <2>1 DEF CoverageInv, NotYetNormalized
<1>5. VersionIsSettled'
  BY DEF Start, Refuse, Acquire, DetectVersion, Launch, ChildWritesPart,
         ChildWritesAll, ChildExits, ChildTimesOut, ChildEnds, Assemble, Fails,
         PublishRaises, GateEvaluate, Kill, ToolChanges, vars, MayStart,
         CoverageInv, VersionIsSettled, TypeInv, TypeOK
<1>6. \A k \in Jobs : norm[k] # Nothing => version'[k] = version[k]
  BY DEF Start, Refuse, Acquire, DetectVersion, Launch, ChildWritesPart,
         ChildWritesAll, ChildExits, ChildTimesOut, ChildEnds, Assemble,
         PublishRaises, GateEvaluate, Kill, ToolChanges, vars,
         CoverageInv, NotYetNormalized, BeforeNormalization, TypeInv, TypeOK
<1>7. NormalizationIsEarned'
  BY <1>1, <1>6 DEF CoverageInv, NormalizationIsEarned, EarnedByNormalization
<1> QED
  BY <1>3, <1>4, <1>5, <1>7 DEF CoverageInv

(* Steps that may set the normalization.                                   *)
LEMMA NormalizingStepCoverage ==
    ASSUME TypeInv, CoverageInv, NEW j \in Jobs,
           Detect(j) \/ Configure(j) \/ ExecuteRaises(j) \/ Judge(j) \/ Import(j)
    PROVE  CoverageInv'
<1>1. version' = version /\ out' = out
  BY DEF Detect, Configure, ExecuteRaises, Judge, Import
<1>2. CompleteCoverageIsEarned'
  BY <1>1 DEF CoverageInv, CompleteCoverageIsEarned
<1>3. VersionIsSettled'
  BY DEF Detect, Configure, ExecuteRaises, Judge, Import, Fails, EndsWithFailure, Versions,
         CoverageInv, VersionIsSettled, TypeInv, TypeOK
<1>4. /\ \A k \in Jobs : k # j => norm'[k] = norm[k] /\ pc'[k] = pc[k]
      /\ pc'[j] \in BeforeNormalization => norm' = norm
      /\ pc[j] \in BeforeNormalization
  BY DEF Detect, Configure, ExecuteRaises, Judge, Import, Fails, EndsWithFailure,
         BeforeNormalization, TypeInv, TypeOK
<1>5. NotYetNormalized'
  BY <1>4 DEF CoverageInv, NotYetNormalized
<1>6. \/ norm'[j] = Nothing
      \/ norm'[j].coverage = "failed"
      \/ EarnedByNormalization(norm'[j]) /\ version[j] = "supported"
  <2>1. CASE norm' = norm
    BY <1>4, <2>1 DEF CoverageInv, NotYetNormalized
  <2>2. CASE \E t : norm' = [norm EXCEPT ![j] = FailedRun(t)]
    BY <2>2, FailedRunClaimsNothing DEF TypeInv, TypeOK
  <2>3. CASE Import(j) /\ ReportProblem(raw["cwd"]) = <<>>
    <3>1. raw["cwd"] \in Reports
      BY <2>3 DEF ReportProblem, TypeInv, TypeOK, Places
    <3>2. norm'[j] = Normalized(raw["cwd"])
      BY <2>3 DEF Import, TypeInv, TypeOK
    <3>3. version[j] = "supported"
      BY <2>3 DEF Import, CoverageInv, VersionIsSettled
    <3> QED
      BY <3>1, <3>2, <3>3, NormalizedIsEarned
  <2>4. CASE Import(j) /\ ReportProblem(raw["cwd"]) # <<>>
    BY <2>1, <2>2, <2>4 DEF Import, EndsWithFailure
  <2>5. CASE Detect(j) \/ Configure(j) \/ ExecuteRaises(j) \/ Judge(j)
    BY <2>1, <2>2, <2>5 DEF Detect, Configure, ExecuteRaises, Judge, EndsWithFailure
  <2> QED
    BY <2>3, <2>4, <2>5
<1>7. NormalizationIsEarned'
  BY <1>1, <1>4, <1>6 DEF CoverageInv, NormalizationIsEarned, EarnedByNormalization
<1> QED
  BY <1>2, <1>3, <1>5, <1>7 DEF CoverageInv

LEMMA PublishCoverage ==
    ASSUME TypeInv, CoverageInv, NEW j \in Jobs, Publish(j)
    PROVE  CoverageInv'
<1>1. norm[j] # Nothing /\ out' = BundleOf(j) /\ norm' = norm /\ version' = version
  BY DEF Publish, TypeInv, StepHasInputs
<1>2. CompleteCoverageIsEarned'
  BY <1>1, BundleCarriesCoverage
  DEF CoverageInv, NormalizationIsEarned, EarnedByNormalization, CompleteCoverageIsEarned
<1>3. VersionIsSettled' /\ NotYetNormalized'
  BY DEF Publish, CoverageInv, VersionIsSettled, NotYetNormalized,
         BeforeNormalization, TypeInv, TypeOK
<1>4. NormalizationIsEarned'
  BY <1>1 DEF CoverageInv, NormalizationIsEarned, EarnedByNormalization
<1> QED
  BY <1>2, <1>3, <1>4 DEF CoverageInv

(* The stages of the claim, in every behaviour.                            *)
THEOREM CoverageInvariance == Spec => []CoverageInv
<1>1. TypeInv /\ CoverageInv /\ [Next]_vars => CoverageInv'
  <2> SUFFICES ASSUME TypeInv, CoverageInv, [Next]_vars PROVE CoverageInv'
    OBVIOUS
  <2>1. CASE Jobs = {}
    BY <2>1 DEF Next, ToolChanges, vars, CoverageInv, VersionIsSettled,
                NotYetNormalized, NormalizationIsEarned, CompleteCoverageIsEarned
  <2>2. CASE Jobs # {}
    BY <2>2, PlainStepCoverage, NormalizingStepCoverage, PublishCoverage
    DEF Next, Command, Child
  <2> QED
    BY <2>1, <2>2
<1> QED
  BY <1>1, InitCoverage, TypeInvariance, PTL DEF Spec

(***************************************************************************)
(* "A zero-finding report with no verified paths.scanned must not silently *)
(* present as COMPLETE" (comment in normalize), and neither does anything  *)
(* else that went wrong: a published complete coverage is earned.          *)
(***************************************************************************)
THEOREM CoverageCorrectness == Spec => []CompleteCoverageIsEarned
<1>1. CoverageInv => CompleteCoverageIsEarned
  BY DEF CoverageInv
<1> QED
  BY <1>1, CoverageInvariance, PTL

-----------------------------------------------------------------------------
(***************************************************************************)
(* Exit status and output path.  A command has no exit status before its   *)
(* bundle is published, gets "ok" with the publication, and a later kill   *)
(* does not take that back: so the writer of the file always has "ok".     *)
(***************************************************************************)
WriterExitedOk == out # Nothing => exit[out.run] = "ok"

NoStatusBeforeTheEnd ==
    \A j \in Jobs : pc[j] \notin {"gate", "end"} => exit[j] = "none"

StatusInv == WriterExitedOk /\ NoStatusBeforeTheEnd

(* No step takes back an "ok", and only Publish writes the output path.    *)
LEMMA StepKeepsStatus ==
    ASSUME TypeInv, StatusInv, NEW j \in Jobs,
           \/ Start(j) \/ Refuse(j) \/ Acquire(j) \/ DetectVersion(j) \/ Detect(j)
           \/ Configure(j) \/ Launch(j) \/ Judge(j) \/ Import(j) \/ Assemble(j)
           \/ PublishRaises(j) \/ GateEvaluate(j) \/ Kill(j) \/ ChildTimesOut(j)
           \/ ExecuteRaises(j) \/ Child(j)
    PROVE  StatusInv'
<1>1. /\ out' \in {out, Nothing}
      /\ \A k \in Jobs : exit[k] = "ok" => exit'[k] = "ok"
      /\ \A k \in Jobs : pc'[k] \notin {"gate", "end"} => exit'[k] = exit[k]
      /\ \A k \in Jobs : pc'[k] \notin {"gate", "end"} => pc[k] \notin {"gate", "end"}
  BY DEF Start, Refuse, TakeWorkspace, MayStart, Acquire, DetectVersion, Detect,
         Configure, Launch, Judge, Import, Assemble, PublishRaises, GateEvaluate,
         Kill, ChildTimesOut, ExecuteRaises, Child, ChildWritesPart, ChildWritesAll,
         ChildExits, ChildEnds, Fails, EndsWithFailure, StatusInv, NoStatusBeforeTheEnd,
         TypeInv, TypeOK
<1>2. out # Nothing => out.run \in Jobs
  BY DEF TypeInv, TypeOK, Bundles
<1> QED
  BY <1>1, <1>2 DEF StatusInv, WriterExitedOk, NoStatusBeforeTheEnd

LEMMA PublishSetsStatus ==
    ASSUME TypeInv, StatusInv, NEW j \in Jobs, Publish(j)
    PROVE  StatusInv'
<1>1. out' = BundleOf(j) /\ BundleOf(j).run = j
  BY DEF Publish, BundleOf
<1> QED
  BY <1>1 DEF Publish, StatusInv, WriterExitedOk, NoStatusBeforeTheEnd, TypeInv, TypeOK

(***************************************************************************)
(* A command that ends with an error status has published nothing, on any  *)
(* workspace and with any number of overlapping jobs: whatever reads the   *)
(* output path then or later never reads that command's bundle.            *)
(***************************************************************************)
THEOREM ErrorExitCorrectness == Spec => []ErrorExitPublishesNothing
<1>1. Init => StatusInv
  BY DEF Init, StatusInv, WriterExitedOk, NoStatusBeforeTheEnd
<1>2. TypeInv /\ StatusInv /\ [Next]_vars => StatusInv'
  <2> SUFFICES ASSUME TypeInv, StatusInv, [Next]_vars PROVE StatusInv'
    OBVIOUS
  <2>1. CASE ToolChanges \/ UNCHANGED vars
    BY <2>1 DEF ToolChanges, vars, StatusInv, WriterExitedOk, NoStatusBeforeTheEnd
  <2>2. CASE \E j \in Jobs : Publish(j)
    BY <2>2, PublishSetsStatus
  <2> QED
    BY <2>1, <2>2, StepKeepsStatus DEF Next, Command
<1>3. StatusInv => ErrorExitPublishesNothing
  BY DEF StatusInv, WriterExitedOk, ErrorExitPublishesNothing
<1> QED
  BY <1>1, <1>2, <1>3, TypeInvariance, PTL DEF Spec

-----------------------------------------------------------------------------
(***************************************************************************)
(* Strict runs.  A job is judged when it assembles its bundle, and that    *)
(* still holds when it publishes: nothing it was judged by changes.        *)
(***************************************************************************)
Decided(b) ==
    b.strict =>
        /\ ValidBundle(b)
        /\ Unclassified(b) = {}
        /\ FindingsOfMode(b, "unresolved") = {}

PublishIsAccepted == \A j \in Jobs : pc[j] = "publish" => ~Rejected(j)

StrictInv == PublishIsAccepted /\ (out # Nothing => Decided(out))

(* A strict run that is not rejected classified all of its findings, none  *)
(* as unresolved.                                                          *)
LEMMA AcceptedIsDecided ==
    ASSUME TypeInv, NEW j \in Jobs, norm[j] # Nothing, ~Rejected(j)
    PROVE  Decided(BundleOf(j))
<1> DEFINE b == BundleOf(j)
           list == norm[j].findings
<1> SUFFICES ASSUME req[j].strict
             PROVE  /\ ValidBundle(b) /\ Unclassified(b) = {}
                    /\ FindingsOfMode(b, "unresolved") = {}
  BY DEF BundleOf, Decided
<1>1. ValidBundle(b) /\ ~ClassificationFails(j) /\ ~PolicyMissing(j)
  BY DEF Rejected
<1>2. b.findings = [i \in DOMAIN list |-> [finding_id |-> list[i], intact |-> TRUE]]
  BY DEF BundleOf
<1>3. FindingIdsIn(b.findings) = {list[i] : i \in DOMAIN list}
  BY <1>2 DEF FindingIdsIn, Elems
<1>4. CASE req[j].policy
  <2>1. b.classes = [i \in DOMAIN list |->
                       [finding_id |-> list[i], mode |-> PolicyMode[list[i]]]]
    BY <1>4 DEF BundleOf
  <2>2. FindingIdsIn(b.classes) = {list[i] : i \in DOMAIN list}
    BY <2>1 DEF FindingIdsIn, Elems
  <2>3. \A i \in DOMAIN list : PolicyMode[list[i]] # "unresolved"
    BY <1>1, <1>4 DEF ClassificationFails, NormFindings, Elems
  <2>4. \A c \in Elems(b.classes) : c.mode # "unresolved"
    BY <2>1, <2>3 DEF Elems
  <2> QED
    BY <1>1, <1>3, <2>2, <2>4 DEF Unclassified, FindingsOfMode
<1>5. CASE ~req[j].policy
  <2>1. list = <<>> /\ b.classes = <<>>
    BY <1>1, <1>5 DEF PolicyMissing, BundleOf
  <2>2. FindingIdsIn(b.findings) = {} /\ Elems(b.classes) = {}
    BY <1>3, <2>1 DEF Elems
  <2> QED
    BY <1>1, <2>2 DEF Unclassified, FindingsOfMode
<1> QED
  BY <1>4, <1>5

(* What a job is judged by does not change once it is judged.              *)
LEMMA JudgementStands ==
    ASSUME NEW j \in Jobs, ~Rejected(j),
           req'[j] = req[j], norm'[j] = norm[j], version'[j] = version[j]
    PROVE  ~Rejected(j)'
<1>1. BundleOf(j)' = BundleOf(j)
  BY DEF BundleOf
<1> QED
  BY <1>1 DEF Rejected, OverLimit, StrictIdentityFails, ClassificationFails, PolicyMissing,
              RedactionFails, NormFindings

LEMMA StrictStep ==
    ASSUME TypeInv, StrictInv, [Next]_vars
    PROVE  StrictInv'
<1>1. ASSUME NEW j \in Jobs, pc'[j] = "publish"
      PROVE  ~Rejected(j)'
  <2>1. CASE pc[j] = "publish"
    <3>1. /\ req'[j] = req[j] /\ norm'[j] = norm[j] /\ version'[j] = version[j]
      BY <2>1, <1>1
      DEF Next, Command, Child, Start, Refuse, MayStart, TakeWorkspace, Acquire, DetectVersion,
          Detect, Configure, Launch, Judge, Import, Assemble, Publish, PublishRaises,
          GateEvaluate, Kill, ChildTimesOut, ExecuteRaises, ChildWritesPart, ChildWritesAll, ChildExits,
          ChildEnds, Fails, EndsWithFailure, ToolChanges, vars, TypeInv, TypeOK
    <3> QED
      BY <2>1, <3>1, JudgementStands DEF StrictInv, PublishIsAccepted
  <2>2. CASE pc[j] # "publish"
    <3>1. Assemble(j) /\ ~Rejected(j)
      BY <2>2, <1>1
      DEF Next, Command, Child, Start, Refuse, MayStart, TakeWorkspace, Acquire, DetectVersion,
          Detect, Configure, Launch, Judge, Import, Assemble, Publish, PublishRaises,
          GateEvaluate, Kill, ChildTimesOut, ExecuteRaises, ChildWritesPart, ChildWritesAll, ChildExits,
          ChildEnds, Fails, EndsWithFailure, ToolChanges, vars, TypeInv, TypeOK
    <3> QED
      BY <3>1, JudgementStands DEF Assemble
  <2> QED
    BY <2>1, <2>2
<1>2. CASE \E j \in Jobs : Publish(j)
  <2>1. PICK j \in Jobs : Publish(j)
    BY <1>2
  <2>2. norm[j] # Nothing /\ ~Rejected(j) /\ out' = BundleOf(j)
    BY <2>1 DEF Publish, TypeInv, StepHasInputs, StrictInv, PublishIsAccepted
  <2> QED
    BY <1>1, <2>2, AcceptedIsDecided DEF StrictInv, PublishIsAccepted, Decided
<1>3. CASE ~\E j \in Jobs : Publish(j)
  <2>1. out' \in {out, Nothing}
    BY <1>3
    DEF Next, Command, Child, Start, Refuse, TakeWorkspace, Acquire, DetectVersion,
        Detect, Configure, Launch, Judge, Import, Assemble, PublishRaises,
        GateEvaluate, Kill, ChildTimesOut, ExecuteRaises, ChildWritesPart, ChildWritesAll, ChildExits,
        ChildEnds, ToolChanges, vars
  <2> QED
    BY <1>1, <2>1 DEF StrictInv, PublishIsAccepted, Decided
<1> QED
  BY <1>2, <1>3

(***************************************************************************)
(* Strict mode decides at production time what the gate would leave open:  *)
(* on any workspace, the gate never calls the bundle of a strict run       *)
(* invalid, and its verdict does not depend on --strict-unresolved.        *)
(***************************************************************************)
THEOREM StrictCorrectness == Spec => []StrictBundleIsDecided
<1>1. Init => StrictInv
  BY DEF Init, StrictInv, PublishIsAccepted
<1>2. TypeInv /\ StrictInv /\ [Next]_vars => StrictInv'
  BY StrictStep
<1>3. StrictInv => StrictBundleIsDecided
  BY DEF StrictInv, Decided, StrictBundleIsDecided, GateStatus
<1> QED
  BY <1>1, <1>2, <1>3, TypeInvariance, PTL DEF Spec

-----------------------------------------------------------------------------
(***************************************************************************)
(* INV-008 on fresh machines, for any number of jobs and any requests: a   *)
(* gate that passes a job which required semgrep rests on that job's own   *)
(* completed scan, and so does every bundle without a failure record.      *)
(*                                                                         *)
(* A new machine for each job is the assumption that carries the proof.    *)
(* On a reused one the first claim fails: the run pipeline_stale_report    *)
(* passes the gate on the report of an earlier job.                        *)
(***************************************************************************)

Running(j) == pc[j] \notin {"idle", "end"}

Wrote(j) == child[j] # Nothing /\ child[j].progress = "wrote"

EndedWell(j) ==
    result[j] # Nothing /\ ~result[j].timed_out /\ result[j].exit_code \in {0, 1}

(* The machine belongs to one job: its files, and the one live semgrep.    *)
OneRuns == \A j, k \in Jobs : Running(j) /\ Running(k) => j = k

OthersAreDead ==
    \A j, k \in Jobs : Running(j) /\ j # k /\ child[k] # Nothing => ~child[k].alive

ReportIsOwn ==
    \A j \in Jobs, p \in Places : Running(j) /\ raw[p] # Nothing => raw[p].by = j

(* What a job's steps establish, in their order.                           *)
RouteOfRequest ==
    \A j \in Jobs :
        /\ pc[j] \in {"probe", "detect", "configure", "launch", "await", "judge"}
              => req[j].execute
        /\ pc[j] = "acquire" => ~req[j].execute

NoChildYet ==
    \A j \in Jobs :
        \/ pc[j] \in {"idle", "probe", "acquire", "detect", "configure", "launch"}
        \/ ~req[j].execute
        => child[j] = Nothing

(* A report that parses was written to its end.                            *)
ReadableIsWritten ==
    \A j \in Jobs :
        /\ Running(j) /\ req[j].execute
        /\ raw["cwd"] # Nothing
        /\ raw["cwd"].content.body # "unparsable"
        => Wrote(j)

JudgedWell ==
    \A j \in Jobs :
        /\ pc[j] = "judge" => result[j] # Nothing
        /\ pc[j] = "import" /\ req[j].execute => EndedWell(j)

RestsOnOwnScan(j) == req[j].execute => Wrote(j) /\ EndedWell(j)

OwnNormalization(j) ==
    norm[j] # Nothing =>
        /\ norm[j].scan # Nothing => norm[j].scan.by = j /\ RestsOnOwnScan(j)
        /\ norm[j].failures = <<>> =>
              norm[j].scan # Nothing /\ norm[j].scan.content.errors # "fatal"

GateReadsOwn ==
    \A j \in Jobs : pc[j] = "gate" => norm[j] # Nothing /\ out = BundleOf(j)

VerdictIsLast == \A j \in Jobs : verdict[j] # Nothing => pc[j] = "end"

OwnCleanBundle ==
    out # Nothing /\ out.execute /\ out.failures = <<>> =>
        ScannedBy(out.scan, out.run) /\ Wrote(out.run)

OwnPass(j) ==
    Passed(j) /\ req[j].required =>
        LET b == verdict[j].bundle
        IN  /\ b.run = j
            /\ ScannedBy(b.scan, j)
            /\ b.scan.content.scanned
            /\ b.scan.content.errors # "fatal"
            /\ RestsOnOwnScan(j)

MachineInv == OneRuns /\ OthersAreDead /\ ReportIsOwn

RouteInv == RouteOfRequest /\ NoChildYet /\ ReadableIsWritten /\ JudgedWell

ClaimInv ==
    /\ \A j \in Jobs : OwnNormalization(j)
    /\ GateReadsOwn
    /\ VerdictIsLast
    /\ OwnCleanBundle
    /\ \A j \in Jobs : OwnPass(j)

FreshInv == MachineInv /\ RouteInv /\ ClaimInv

Inv == TypeInv /\ CoverageInv /\ FreshInv

-----------------------------------------------------------------------------
LEMMA InitFresh == Init => FreshInv
  BY DEF Init, FreshInv, MachineInv, OneRuns, OthersAreDead, ReportIsOwn, Running,
         RouteInv, RouteOfRequest, NoChildYet, ReadableIsWritten, JudgedWell,
         ClaimInv, OwnNormalization, GateReadsOwn, VerdictIsLast, OwnCleanBundle,
         OwnPass, Passed

(* What was established stays: semgrep does not unwrite its report, and    *)
(* the result of a job that has a normalization or a verdict is final.     *)
Lasting ==
    /\ req' = req
    /\ \A k \in Jobs : Wrote(k) => Wrote(k)'
    /\ \A k \in Jobs : norm[k] # Nothing \/ verdict[k] # Nothing => result'[k] = result[k]

LEMMA ClaimsStand ==
    ASSUME Inv, Lasting
    PROVE  /\ \A k \in Jobs : norm'[k] = norm[k] => OwnNormalization(k)'
           /\ out' \in {out, Nothing} => OwnCleanBundle'
           /\ \A k \in Jobs : verdict'[k] = verdict[k] => OwnPass(k)'
<1>1. ASSUME NEW k \in Jobs, norm'[k] = norm[k]
      PROVE  OwnNormalization(k)'
  BY <1>1 DEF Lasting, Inv, FreshInv, ClaimInv, OwnNormalization,
              RestsOnOwnScan, EndedWell
<1>2. ASSUME out' \in {out, Nothing}
      PROVE  OwnCleanBundle'
  <2>1. out # Nothing => out.run \in Jobs
    BY DEF Inv, TypeInv, TypeOK, Bundles
  <2> QED
    BY <1>2, <2>1 DEF Lasting, Inv, FreshInv, ClaimInv, OwnCleanBundle, ScannedBy
<1>3. ASSUME NEW k \in Jobs, verdict'[k] = verdict[k]
      PROVE  OwnPass(k)'
  BY <1>3 DEF Lasting, Inv, FreshInv, ClaimInv, OwnPass, Passed, ScannedBy,
              RestsOnOwnScan, EndedWell
<1> QED
  BY <1>1, <1>2, <1>3

(* What a changed field leaves of a semgrep process.                       *)
LEMMA ChildFields ==
    ASSUME NEW c \in Children
    PROVE  /\ ~[c EXCEPT !.alive = FALSE].alive
           /\ [c EXCEPT !.alive = FALSE].progress = c.progress
           /\ [c EXCEPT !.progress = "writing"].progress = "writing"
           /\ [c EXCEPT !.progress = "wrote"].progress = "wrote"
<1>1. PICK alive \in BOOLEAN, progress \in {"scanning", "writing", "wrote"} :
        c = [kind |-> "child", alive |-> alive, progress |-> progress]
  BY DEF Children
<1> QED
  BY <1>1

(***************************************************************************)
(* The steps.                                                              *)
(***************************************************************************)
LEMMA TakenMachine ==
    ASSUME Inv, FreshWorkspace, NEW j \in Jobs, TakeWorkspace(j)
    PROVE  /\ raw' = [p \in Places |-> Nothing]
           /\ out' = Nothing
           /\ \A k \in Jobs : /\ child'[k] = Nothing <=> child[k] = Nothing
                              /\ child'[k] # Nothing => ~child'[k].alive
                              /\ Wrote(k) <=> Wrote(k)'
<1>1. ASSUME NEW k \in Jobs
      PROVE  /\ child[k] = Nothing => child'[k] = Nothing
             /\ child[k] # Nothing => child'[k] = [child[k] EXCEPT !.alive = FALSE]
  <2>1. child' = [i \in Jobs |-> IF child[i] = Nothing THEN Nothing
                                 ELSE [child[i] EXCEPT !.alive = FALSE]]
    BY Zenon DEF TakeWorkspace
  <2> QED
    BY <2>1, Zenon
<1>2. ASSUME NEW c \in Children
      PROVE  /\ [c EXCEPT !.alive = FALSE] # Nothing
             /\ ~[c EXCEPT !.alive = FALSE].alive
             /\ [c EXCEPT !.alive = FALSE].progress = c.progress
  BY ChildFields, ChildIsTyped, NothingIsNoRecord, Zenon
<1>3. \A k \in Jobs : child[k] # Nothing => child[k] \in Children
  BY DEF Inv, TypeInv, TypeOK
<1>4. ASSUME NEW k \in Jobs
      PROVE  /\ child'[k] = Nothing <=> child[k] = Nothing
             /\ child'[k] # Nothing => ~child'[k].alive
             /\ Wrote(k) <=> Wrote(k)'
  <2>1. CASE child[k] = Nothing
    BY <1>1, <2>1, Zenon DEF Wrote
  <2>2. CASE child[k] # Nothing
    <3>1. child'[k] = [child[k] EXCEPT !.alive = FALSE]
      BY <1>1, <2>2, Zenon
    <3>2. /\ child'[k] # Nothing
          /\ ~child'[k].alive
          /\ child'[k].progress = child[k].progress
      BY <1>2, <1>3, <2>2, <3>1, Zenon
    <3> QED
      BY <2>2, <3>2, Zenon DEF Wrote
  <2> QED
    BY <2>1, <2>2
<1> QED
  BY <1>4, Zenon DEF TakeWorkspace

LEMMA StartFresh ==
    ASSUME Inv, FreshWorkspace, NEW j \in Jobs, Start(j) \/ Refuse(j)
    PROVE  FreshInv'
<1>1. /\ TakeWorkspace(j) /\ MayStart(j)
      /\ req' = req /\ result' = result /\ norm' = norm /\ verdict' = verdict
  BY DEF Start, Refuse
<1>2. /\ \A k \in Jobs : ~Running(k)
      /\ \A k \in Jobs : k # j => pc'[k] = pc[k]
      /\ pc'[j] \in {IF req[j].execute THEN "probe" ELSE "acquire", "end"}
      /\ pc[j] = "idle"
  BY PipelineAssumption DEF Start, Refuse, MayStart, Fails, Running, Inv, TypeInv, TypeOK
<1>3. MachineInv'
  BY <1>1, <1>2, TakenMachine
  DEF MachineInv, OneRuns, OthersAreDead, ReportIsOwn, Running
<1>4. RouteInv'
  BY <1>1, <1>2, TakenMachine
  DEF Inv, FreshInv, RouteInv, RouteOfRequest, NoChildYet, ReadableIsWritten, JudgedWell,
      EndedWell, Running, Places
<1>5. Lasting
  BY <1>1, TakenMachine DEF Lasting
<1>6. GateReadsOwn' /\ VerdictIsLast'
  BY <1>1, <1>2 DEF Inv, FreshInv, ClaimInv, GateReadsOwn, VerdictIsLast, Running
<1> QED
  BY <1>1, <1>3, <1>4, <1>5, <1>6, TakenMachine, ClaimsStand DEF FreshInv, ClaimInv

(* Steps of a running job that touch no file, process, result or verdict.  *)
QuietStep(j) ==
    /\ Running(j)
    /\ UNCHANGED <<raw, out, req, child, result, verdict>>
    /\ \A k \in Jobs : k # j => pc'[k] = pc[k] /\ norm'[k] = norm[k]
    /\ \/ pc'[j] \in {"assemble", "publish", "end"}
       \/ pc'[j] \in {"detect", "configure", "launch"}
             /\ pc[j] \in {"probe", "detect", "configure"}
       \/ pc'[j] = "import" /\ EndedWell(j)

LEMMA QuietStepFresh ==
    ASSUME Inv, NEW j \in Jobs, QuietStep(j), OwnNormalization(j)'
    PROVE  FreshInv'
<1> USE DEF QuietStep
<1>1. MachineInv'
  BY DEF Inv, FreshInv, MachineInv, OneRuns, OthersAreDead, ReportIsOwn, Running
<1>2. RouteInv'
  BY DEF Inv, FreshInv, RouteInv, RouteOfRequest, NoChildYet, ReadableIsWritten,
         JudgedWell, EndedWell, Wrote, Running
<1>3. Lasting
  BY DEF Lasting, Wrote
<1>4. GateReadsOwn' /\ VerdictIsLast'
  BY DEF Inv, FreshInv, MachineInv, OneRuns, ClaimInv, GateReadsOwn,
         VerdictIsLast, Running
<1>5. \A k \in Jobs : OwnNormalization(k)'
  BY <1>3, ClaimsStand
<1> QED
  BY <1>1, <1>2, <1>3, <1>4, <1>5, ClaimsStand DEF FreshInv, ClaimInv

LEMMA FailureIsOwn ==
    ASSUME Inv, NEW j \in Jobs, NEW t, EndsWithFailure(j, t)
    PROVE  OwnNormalization(j)'
<1>1. /\ norm'[j].scan = Nothing
      /\ norm'[j].failures = <<t>>
  BY DEF EndsWithFailure, FailedRun, Inv, TypeInv, TypeOK
<1>2. <<t>> # <<>>
  OBVIOUS
<1> QED
  BY <1>1, <1>2 DEF OwnNormalization

LEMMA CommandFresh ==
    ASSUME Inv, NEW j \in Jobs,
           \/ DetectVersion(j) \/ Detect(j) \/ Configure(j) \/ Judge(j)
           \/ Import(j) /\ ReportProblem(raw["cwd"]) # <<>>
           \/ Assemble(j) \/ PublishRaises(j) \/ Kill(j)
    PROVE  FreshInv'
<1> USE DEF QuietStep, Running, Fails, EndsWithFailure, Inv, TypeInv, TypeOK
<1>1. CASE \E t : EndsWithFailure(j, t)
  <2>1. QuietStep(j)
    BY <1>1 DEF DetectVersion, Detect, Configure, Judge, Import, Assemble,
                PublishRaises, Kill
  <2> QED
    BY <1>1, <2>1, FailureIsOwn, QuietStepFresh
<1>2. CASE ~\E t : EndsWithFailure(j, t)
  <2>1. norm' = norm
    BY <1>2 DEF DetectVersion, Detect, Configure, Judge, Import, Assemble,
                PublishRaises, Kill
  <2>2. Judge(j) => EndedWell(j)
    <3>1. ASSUME Judge(j)
          PROVE  ExecutionFailure(result[j]) = <<>>
      BY <1>2, <3>1 DEF Judge
    <3>2. ASSUME Judge(j)
          PROVE  result[j] # Nothing
      BY <3>2 DEF Judge, FreshInv, RouteInv, JudgedWell
    <3> QED
      BY <3>1, <3>2 DEF ExecutionFailure, EndedWell
  <2>3. QuietStep(j)
    BY <1>2, <2>1, <2>2 DEF DetectVersion, Detect, Configure, Judge, Import, Assemble,
                            PublishRaises, Kill
  <2>4. Lasting
    BY <2>3 DEF Lasting, Wrote
  <2> QED
    BY <2>1, <2>3, <2>4, ClaimsStand, QuietStepFresh
<1> QED
  BY <1>1, <1>2

LEMMA OutsideFresh ==
    ASSUME Inv, ToolChanges \/ UNCHANGED vars
    PROVE  FreshInv'
<1>1. UNCHANGED <<raw, out, pc, req, version, child, result, norm, verdict>>
  BY DEF ToolChanges, vars
<1>2. MachineInv' /\ RouteInv'
  BY <1>1
  DEF Inv, FreshInv, MachineInv, OneRuns, OthersAreDead, ReportIsOwn, Running,
      RouteInv, RouteOfRequest, NoChildYet, ReadableIsWritten, JudgedWell,
      EndedWell, Wrote
<1>3. Lasting
  BY <1>1 DEF Lasting, Wrote
<1>4. GateReadsOwn' /\ VerdictIsLast'
  BY <1>1 DEF Inv, FreshInv, ClaimInv, GateReadsOwn, VerdictIsLast, BundleOf
<1> QED
  BY <1>1, <1>2, <1>3, <1>4, ClaimsStand DEF FreshInv, ClaimInv

(* Steps that write a report or move the semgrep process.                  *)
LEMMA AcquireFresh ==
    ASSUME Inv, NEW j \in Jobs, Acquire(j)
    PROVE  FreshInv'
<1>1. /\ pc[j] = "acquire" /\ pc' = [pc EXCEPT ![j] = "import"]
      /\ ~req[j].execute
      /\ UNCHANGED <<out, req, child, result, norm, verdict>>
  BY DEF Acquire, Inv, FreshInv, RouteInv, RouteOfRequest
<1>2. \A p \in Places : raw'[p] = raw[p] \/ raw'[p].by = j
  BY DEF Acquire, Inv, TypeInv, TypeOK
<1>3. Running(j) /\ \A k \in Jobs : Running(k) => k = j
  BY <1>1 DEF Running, Inv, FreshInv, MachineInv, OneRuns
<1>4. \A k \in Jobs : Running(k)' => k = j
  BY <1>1, <1>3 DEF Running, Inv, TypeInv, TypeOK
<1>5. MachineInv'
  BY <1>1, <1>2, <1>3, <1>4
  DEF Inv, FreshInv, MachineInv, OneRuns, OthersAreDead, ReportIsOwn
<1>6. RouteInv'
  BY <1>1, <1>4
  DEF Inv, TypeInv, TypeOK, FreshInv, RouteInv, RouteOfRequest, NoChildYet,
      ReadableIsWritten, JudgedWell, EndedWell
<1>7. Lasting
  BY <1>1 DEF Lasting, Wrote
<1>8. GateReadsOwn' /\ VerdictIsLast'
  BY <1>1, <1>3 DEF Inv, TypeInv, TypeOK, FreshInv, ClaimInv, GateReadsOwn,
                    VerdictIsLast, Running
<1> QED
  BY <1>1, <1>5, <1>6, <1>7, <1>8, ClaimsStand DEF FreshInv, ClaimInv

LEMMA LaunchFresh ==
    ASSUME Inv, NEW j \in Jobs, Launch(j)
    PROVE  FreshInv'
<1>1. /\ pc[j] = "launch" /\ req[j].execute
      /\ child[j] = Nothing /\ norm[j] = Nothing /\ verdict[j] = Nothing
      /\ UNCHANGED <<raw, out, req, version, norm, verdict>>
      /\ \A k \in Jobs : k # j => pc'[k] = pc[k] /\ child'[k] = child[k]
                                   /\ result'[k] = result[k]
  BY DEF Launch, Inv, FreshInv, RouteInv, RouteOfRequest, NoChildYet, ClaimInv,
         VerdictIsLast, CoverageInv, NotYetNormalized, BeforeNormalization,
         TypeInv, TypeOK
<1>2. \/ pc'[j] = "await"
      \/ pc'[j] = "judge" /\ result'[j] # Nothing
  <2>1. LaunchFailure.kind = "result" /\ Nothing.kind = "nothing"
    BY DEF LaunchFailure, Nothing
  <2>2. LaunchFailure # Nothing
    BY <2>1
  <2>3. \/ pc' = [pc EXCEPT ![j] = "await"]
        \/ /\ pc' = [pc EXCEPT ![j] = "judge"]
           /\ result' = [result EXCEPT ![j] = LaunchFailure]
    BY DEF Launch
  <2> QED
    BY <2>2, <2>3 DEF Inv, TypeInv, TypeOK
<1>3. Running(j) /\ \A k \in Jobs : Running(k) => k = j
  BY <1>1 DEF Running, Inv, FreshInv, MachineInv, OneRuns
<1>4. \A k \in Jobs : Running(k)' => k = j
  BY <1>1, <1>3 DEF Running
<1>5. MachineInv'
  BY <1>1, <1>3, <1>4
  DEF Inv, FreshInv, MachineInv, OneRuns, OthersAreDead, ReportIsOwn
<1>6. Lasting
  BY <1>1 DEF Lasting, Wrote
<1>7. RouteInv'
  <2>1. RouteOfRequest' /\ NoChildYet' /\ JudgedWell'
    BY <1>1, <1>2
    DEF Inv, FreshInv, RouteInv, RouteOfRequest, NoChildYet, JudgedWell, EndedWell
  <2>2. ReadableIsWritten'
    BY <1>1, <1>3, <1>4, <1>6
    DEF Inv, FreshInv, RouteInv, ReadableIsWritten, Lasting
  <2> QED
    BY <2>1, <2>2 DEF RouteInv
<1>8. GateReadsOwn' /\ VerdictIsLast'
  BY <1>1, <1>2, <1>3 DEF Inv, FreshInv, ClaimInv, GateReadsOwn, VerdictIsLast, Running
<1> QED
  BY <1>1, <1>5, <1>6, <1>7, <1>8, ClaimsStand DEF FreshInv, ClaimInv

LEMMA ChildWritesFresh ==
    ASSUME Inv, NEW j \in Jobs, ChildWritesPart(j) \/ ChildWritesAll(j)
    PROVE  FreshInv'
<1>1. /\ child[j] \in Children /\ child[j].alive /\ child[j].progress # "wrote"
      /\ UNCHANGED <<out, pc, req, version, result, norm, verdict>>
  BY DEF ChildWritesPart, ChildWritesAll, ChildAt, Inv, TypeInv, TypeOK
<1>2. \A k \in Jobs : Running(k) => k = j
  BY <1>1, NothingIsNoRecord DEF Inv, FreshInv, MachineInv, OthersAreDead
<1>3. \A k \in Jobs : k # j => child'[k] = child[k]
  BY DEF ChildWritesPart, ChildWritesAll, Inv, TypeInv, TypeOK
<1>4. /\ child'[j] # Nothing
      /\ ChildWritesAll(j) => child'[j].progress = "wrote"
  <2>1. CASE ChildWritesPart(j)
    <3>1. child' = [child EXCEPT ![j].progress = "writing"] /\ ~ChildWritesAll(j)
      BY <2>1 DEF ChildWritesPart, ChildWritesAll, ChildAt
    <3>2. child'[j] = [child[j] EXCEPT !.progress = "writing"]
      BY <3>1, Zenon DEF Inv, TypeInv, TypeOK
    <3> QED
      BY <1>1, <3>1, <3>2, ChildIsTyped, NothingIsNoRecord, Zenon
  <2>2. CASE ChildWritesAll(j)
    <3>1. child' = [child EXCEPT ![j].progress = "wrote"]
      BY <2>2 DEF ChildWritesAll
    <3>2. child'[j] = [child[j] EXCEPT !.progress = "wrote"]
      BY <3>1, Zenon DEF Inv, TypeInv, TypeOK
    <3>3. child'[j] # Nothing
      BY <1>1, <3>2, ChildIsTyped, NothingIsNoRecord, Zenon
    <3>4. child'[j].progress = "wrote"
      BY <1>1, <3>2, ChildFields, Zenon
    <3> QED
      BY <3>3, <3>4
  <2> QED
    BY <2>1, <2>2
<1>5. /\ \A p \in Places : raw'[p] = raw[p] \/ raw'[p].by = j
      /\ ChildWritesPart(j) =>
            raw'["cwd"] = raw["cwd"] \/ raw'["cwd"].content.body = "unparsable"
  <2>1. PICK c :
          /\ raw' = [raw EXCEPT ![ReportPlace(j)] =
                       [kind |-> "report", by |-> j, content |-> c]]
          /\ ChildWritesPart(j) => c.body = "unparsable"
    <3>1. CASE ChildWritesPart(j)
      <4> DEFINE part == [ body |-> "unparsable", errors |-> "none",
                           scanned |-> FALSE, matches |-> <<>> ]
      <4>1. part.body = "unparsable"
        OBVIOUS
      <4>2. raw' = [raw EXCEPT ![ReportPlace(j)] =
                     [kind |-> "report", by |-> j, content |-> part]]
        BY <3>1, Zenon DEF ChildWritesPart
      <4> QED
        BY <4>1, <4>2, Zenon
    <3>2. CASE ~ChildWritesPart(j)
      BY <3>2, Zenon DEF ChildWritesAll
    <3> QED
      BY <3>1, <3>2
  <2> QED
    BY <2>1 DEF ReportPlace, Places, Inv, TypeInv, TypeOK
<1>6. MachineInv'
  BY <1>1, <1>2, <1>3, <1>5
  DEF Inv, FreshInv, MachineInv, OneRuns, OthersAreDead, ReportIsOwn, Running
<1>7. Lasting
  BY <1>1, <1>3 DEF Lasting, Wrote
<1>8. RouteInv'
  <2>1. RouteOfRequest' /\ NoChildYet' /\ JudgedWell'
    BY <1>1, <1>3, NothingIsNoRecord
    DEF Inv, FreshInv, RouteInv, RouteOfRequest, NoChildYet, JudgedWell, EndedWell
  <2>2. ReadableIsWritten'
    BY <1>1, <1>2, <1>4, <1>5
    DEF Inv, FreshInv, RouteInv, ReadableIsWritten, Wrote, Running
  <2> QED
    BY <2>1, <2>2 DEF RouteInv
<1>9. GateReadsOwn' /\ VerdictIsLast'
  BY <1>1 DEF Inv, FreshInv, ClaimInv, GateReadsOwn, VerdictIsLast, BundleOf
<1> QED
  BY <1>1, <1>6, <1>7, <1>8, <1>9, ClaimsStand DEF FreshInv, ClaimInv

LEMMA ChildEndsFresh ==
    ASSUME Inv, NEW j \in Jobs, ChildExits(j) \/ ChildTimesOut(j)
    PROVE  FreshInv'
<1>1. PICK code \in {-1, 0, 1, 2}, timed_out \in BOOLEAN : ChildEnds(j, code, timed_out)
  BY DEF ChildExits, ChildTimesOut
<1>2. /\ pc[j] = "await" /\ child[j] \in Children
      /\ norm[j] = Nothing /\ verdict[j] = Nothing
  BY DEF ChildExits, ChildTimesOut, Inv, FreshInv, ClaimInv, VerdictIsLast, CoverageInv,
         NotYetNormalized, BeforeNormalization, TypeInv, TypeOK, StepHasInputs
<1>3. /\ UNCHANGED <<raw, out, req, version, norm, verdict>>
      /\ pc'[j] = "judge" /\ result'[j] # Nothing
      /\ child' = [child EXCEPT ![j].alive = FALSE]
      /\ \A k \in Jobs : k # j => pc'[k] = pc[k] /\ result'[k] = result[k]
  <2>1. PICK limit \in BOOLEAN :
          result' = [result EXCEPT ![j] =
                      [ kind |-> "result", exit_code |-> code,
                        timed_out |-> timed_out, output_limit_exceeded |-> limit,
                        report_path |-> raw["cwd"] # Nothing ]]
    BY <1>1 DEF ChildEnds
  <2> DEFINE r == [ kind |-> "result", exit_code |-> code,
                    timed_out |-> timed_out, output_limit_exceeded |-> limit,
                    report_path |-> raw["cwd"] # Nothing ]
  <2>2. r.kind = "result" /\ Nothing.kind = "nothing"
    BY DEF Nothing
  <2>3. r # Nothing
    BY <2>2
  <2>4. result' = [result EXCEPT ![j] = r]
    BY <2>1
  <2> HIDE DEF r
  <2>5. /\ result'[j] # Nothing
        /\ \A k \in Jobs : k # j => result'[k] = result[k]
    BY <2>3, <2>4 DEF Inv, TypeInv, TypeOK
  <2>6. /\ pc' = [pc EXCEPT ![j] = "judge"]
        /\ child' = [child EXCEPT ![j].alive = FALSE]
        /\ UNCHANGED <<raw, out, req, version, norm, verdict>>
    BY <1>1, Zenon DEF ChildEnds
  <2> QED
    BY <2>5, <2>6 DEF Inv, TypeInv, TypeOK
<1>4. /\ \A k \in Jobs : k # j => child'[k] = child[k]
      /\ Wrote(j) => Wrote(j)'
      /\ child'[j] # Nothing
  <2>1. child'[j] = [child[j] EXCEPT !.alive = FALSE]
    BY <1>3, Zenon DEF Inv, TypeInv, TypeOK
  <2>2. child'[j] # Nothing /\ child'[j].progress = child[j].progress
    <3>1. child'[j] # Nothing
      BY <1>2, <2>1, ChildIsTyped, NothingIsNoRecord, Zenon
    <3>2. child'[j].progress = child[j].progress
      BY <1>2, <2>1, ChildFields, Zenon
    <3> QED
      BY <3>1, <3>2
  <2>3. \A k \in Jobs : k # j => child'[k] = child[k]
    BY <1>3, Zenon DEF Inv, TypeInv, TypeOK
  <2> QED
    BY <2>2, <2>3 DEF Wrote
<1>5. Running(j) /\ \A k \in Jobs : Running(k) => k = j
  BY <1>2 DEF Running, Inv, FreshInv, MachineInv, OneRuns
<1>6. \A k \in Jobs : Running(k)' => k = j
  BY <1>3, <1>5 DEF Running
<1>7. MachineInv'
  BY <1>3, <1>4, <1>5, <1>6
  DEF Inv, FreshInv, MachineInv, OneRuns, OthersAreDead, ReportIsOwn
<1>8. Lasting
  BY <1>2, <1>3, <1>4 DEF Lasting, Wrote
<1>9. RouteInv'
  <2>1. RouteOfRequest' /\ NoChildYet' /\ JudgedWell'
    BY <1>2, <1>3, <1>4
    DEF Inv, FreshInv, RouteInv, RouteOfRequest, NoChildYet, JudgedWell, EndedWell
  <2>2. ReadableIsWritten'
    BY <1>3, <1>5, <1>6, <1>8 DEF Inv, FreshInv, RouteInv, ReadableIsWritten, Lasting
  <2> QED
    BY <2>1, <2>2 DEF RouteInv
<1>10. GateReadsOwn' /\ VerdictIsLast'
  BY <1>2, <1>3, <1>5 DEF Inv, FreshInv, ClaimInv, GateReadsOwn, VerdictIsLast, Running
<1> QED
  BY <1>3, <1>7, <1>8, <1>9, <1>10, ClaimsStand DEF FreshInv, ClaimInv

LEMMA RaisesFresh ==
    ASSUME Inv, NEW j \in Jobs, ExecuteRaises(j)
    PROVE  FreshInv'
<1>1. /\ pc[j] \in {"launch", "await"} /\ pc'[j] = "assemble"
      /\ \A k \in Jobs : k # j => pc'[k] = pc[k] /\ norm'[k] = norm[k]
      /\ UNCHANGED <<raw, out, req, result, verdict>>
  BY DEF ExecuteRaises, EndsWithFailure, Inv, TypeInv, TypeOK
<1>2. \A k \in Jobs : /\ k # j => child'[k] = child[k]
                      /\ Wrote(k) <=> Wrote(k)'
  <2>1. CASE child[j] = Nothing
    <3>1. child' = child
      BY <2>1 DEF ExecuteRaises
    <3> QED
      BY <3>1 DEF Wrote
  <2>2. CASE child[j] # Nothing
    <3>1. child[j] \in Children /\ child' = [child EXCEPT ![j].alive = FALSE]
      BY <2>2 DEF ExecuteRaises, Inv, TypeInv, TypeOK
    <3>2. child'[j] = [child[j] EXCEPT !.alive = FALSE]
      BY <3>1, Zenon DEF Inv, TypeInv, TypeOK
    <3>3. child'[j] # Nothing
      BY <3>1, <3>2, ChildIsTyped, NothingIsNoRecord, Zenon
    <3>4. child'[j].progress = child[j].progress
      BY <3>1, <3>2, ChildFields, Zenon
    <3>5. \A k \in Jobs : k # j => child'[k] = child[k]
      BY <3>1, Zenon DEF Inv, TypeInv, TypeOK
    <3> QED
      BY <2>2, <3>3, <3>4, <3>5 DEF Wrote
  <2> QED
    BY <2>1, <2>2
<1>3. Running(j) /\ \A k \in Jobs : Running(k) => k = j
  BY <1>1 DEF Running, Inv, FreshInv, MachineInv, OneRuns
<1>4. \A k \in Jobs : Running(k)' => k = j
  BY <1>1, <1>3 DEF Running
<1>5. MachineInv'
  <2>1. /\ \A k \in Jobs : k # j /\ child[k] # Nothing => ~child[k].alive
        /\ \A p \in Places : raw[p] # Nothing => raw[p].by = j
    BY <1>3 DEF Inv, FreshInv, MachineInv, OthersAreDead, ReportIsOwn
  <2>2. OneRuns'
    BY <1>4 DEF OneRuns
  <2>3. OthersAreDead'
    BY <1>2, <1>4, <2>1, Zenon DEF OthersAreDead
  <2>4. ReportIsOwn'
    BY <1>1, <1>4, <2>1 DEF ReportIsOwn
  <2> QED
    BY <2>2, <2>3, <2>4 DEF MachineInv
<1>6. Lasting
  BY <1>1, <1>2, Zenon DEF Lasting
<1>7. RouteInv'
  <2>1. req[j].execute
    BY <1>1 DEF Inv, FreshInv, RouteInv, RouteOfRequest
  <2>2. RouteOfRequest' /\ JudgedWell'
    BY <1>1 DEF Inv, FreshInv, RouteInv, RouteOfRequest, JudgedWell, EndedWell
  <2>3. ASSUME NEW k \in Jobs,
               \/ pc'[k] \in {"idle", "probe", "acquire", "detect", "configure", "launch"}
               \/ ~req[k].execute
        PROVE  child'[k] = Nothing
    <3>1. k # j
      BY <1>1, <2>1, <2>3
    <3>2. pc'[k] = pc[k] /\ child'[k] = child[k]
      BY <1>1, <1>2, <3>1, Zenon
    <3> QED
      BY <2>3, <3>2 DEF Inv, FreshInv, RouteInv, NoChildYet
  <2>4. NoChildYet'
    BY <1>1, <2>3, Zenon DEF NoChildYet
  <2>5. raw["cwd"] # Nothing /\ raw["cwd"].content.body # "unparsable" => Wrote(j)
    BY <1>3, <2>1 DEF Inv, FreshInv, RouteInv, ReadableIsWritten
  <2>6. ReadableIsWritten'
    BY <1>1, <1>2, <1>4, <2>5, Zenon DEF ReadableIsWritten
  <2> QED
    BY <2>2, <2>4, <2>6 DEF RouteInv
<1>8. GateReadsOwn' /\ VerdictIsLast'
  BY <1>1, <1>3 DEF Inv, FreshInv, ClaimInv, GateReadsOwn, VerdictIsLast, Running
<1>9. \A k \in Jobs : OwnNormalization(k)'
  <2>1. OwnNormalization(j)'
    BY FailureIsOwn DEF ExecuteRaises
  <2> QED
    BY <1>1, <1>6, <2>1, ClaimsStand
<1> QED
  BY <1>1, <1>5, <1>6, <1>7, <1>8, <1>9, ClaimsStand DEF FreshInv, ClaimInv

(* Steps that make a claim.                                                *)
LEMMA ImportFresh ==
    ASSUME Inv, NEW j \in Jobs, Import(j), ReportProblem(raw["cwd"]) = <<>>
    PROVE  FreshInv'
<1> DEFINE report == raw["cwd"]
<1>1. report \in Reports /\ report # Nothing /\ report.content.body # "unparsable"
  BY DEF ReportProblem, Inv, TypeInv, TypeOK, Places
<1>2. Running(j) /\ report.by = j /\ RestsOnOwnScan(j)
  BY <1>1 DEF Import, Running, Inv, FreshInv, MachineInv, ReportIsOwn, Places,
              RouteInv, ReadableIsWritten, JudgedWell, RestsOnOwnScan
<1>3. /\ norm' = [norm EXCEPT ![j] = Normalized(report)]
      /\ pc' = [pc EXCEPT ![j] = "assemble"]
      /\ UNCHANGED <<raw, out, req, child, result, verdict>>
  BY DEF Import
<1>4. QuietStep(j)
  BY <1>2, <1>3 DEF QuietStep, Inv, TypeInv, TypeOK
<1>5. OwnNormalization(j)'
  <2>1. norm'[j] = Normalized(report)
    BY <1>3 DEF Inv, TypeInv, TypeOK
  <2>2. /\ Normalized(report).scan = report
        /\ report.content.errors = "fatal"
              => Normalized(report).failures = <<"execution_error">>
    BY DEF Normalized
  <2>3. <<"execution_error">> # <<>>
    OBVIOUS
  <2>4. RestsOnOwnScan(j)'
    BY <1>2, <1>3 DEF RestsOnOwnScan, Wrote, EndedWell
  <2> QED
    BY <1>1, <1>2, <2>1, <2>2, <2>3, <2>4 DEF OwnNormalization
<1> QED
  BY <1>4, <1>5, QuietStepFresh

LEMMA PublishFresh ==
    ASSUME Inv, NEW j \in Jobs, Publish(j)
    PROVE  FreshInv'
<1>1. /\ pc[j] = "publish" /\ pc' = [pc EXCEPT ![j] = "gate"] /\ out' = BundleOf(j)
      /\ norm[j] # Nothing
      /\ UNCHANGED <<raw, req, version, child, result, norm, verdict>>
  BY DEF Publish, Inv, TypeInv, StepHasInputs
<1>2. Running(j) /\ \A k \in Jobs : Running(k) => k = j
  BY <1>1 DEF Running, Inv, FreshInv, MachineInv, OneRuns
<1>3. \A k \in Jobs : Running(k)' => k = j
  BY <1>1, <1>2 DEF Running, Inv, TypeInv, TypeOK
<1>4. MachineInv'
  BY <1>1, <1>2, <1>3
  DEF Inv, FreshInv, MachineInv, OneRuns, OthersAreDead, ReportIsOwn
<1>5. RouteInv'
  BY <1>1, <1>2, <1>3
  DEF Inv, TypeInv, TypeOK, FreshInv, RouteInv, RouteOfRequest, NoChildYet,
      ReadableIsWritten, JudgedWell, EndedWell, Wrote
<1>6. Lasting
  BY <1>1 DEF Lasting, Wrote
<1>7. GateReadsOwn'
  <2>1. BundleOf(j)' = BundleOf(j)
    BY <1>1 DEF BundleOf
  <2>2. \A k \in Jobs : pc'[k] = "gate" => k = j
    BY <1>3 DEF Running
  <2> QED
    BY <1>1, <2>1, <2>2 DEF GateReadsOwn
<1>8. VerdictIsLast'
  BY <1>1 DEF Inv, TypeInv, TypeOK, FreshInv, ClaimInv, VerdictIsLast
<1>9. OwnCleanBundle'
  <2>1. /\ BundleOf(j).run = j
        /\ BundleOf(j).execute = req[j].execute
        /\ BundleOf(j).scan = norm[j].scan
    BY DEF BundleOf
  <2>2. BundleOf(j).failures = <<>> => norm[j].failures = <<>>
    <3>1. norm[j].failures \in Seq(FailureTypes)
      BY <1>1 DEF Inv, TypeInv, TypeOK, Normalizations
    <3>2. DOMAIN BundleOf(j).failures = DOMAIN norm[j].failures
      BY DEF BundleOf
    <3>3. BundleOf(j).failures = <<>> => DOMAIN norm[j].failures = {}
      BY <3>2
    <3>4. \A s \in Seq(FailureTypes) : DOMAIN s = {} => s = <<>>
      OBVIOUS
    <3> QED
      BY <3>1, <3>3, <3>4
  <2>3. OwnNormalization(j)
    BY DEF Inv, FreshInv, ClaimInv
  <2> QED
    BY <1>1, <2>1, <2>2, <2>3
    DEF OwnNormalization, OwnCleanBundle, ScannedBy, RestsOnOwnScan, Wrote
<1> QED
  BY <1>1, <1>4, <1>5, <1>6, <1>7, <1>8, <1>9, ClaimsStand DEF FreshInv, ClaimInv

(* A pass of a required semgrep needs its complete coverage.               *)
LEMMA PassNeedsCoverage ==
    ASSUME TypeInv, NEW j \in Jobs, norm[j] # Nothing, req[j].required,
           NEW strict, GateStatus(BundleOf(j), strict) = "pass"
    PROVE  norm[j].coverage = "complete"
<1> DEFINE b == BundleOf(j)
<1>1. UncoveredProviders(b) = {}
  BY DEF GateStatus, IncompleteProviders
<1>2. "semgrep" \in RequiredProviders(b)
  <2> DEFINE run == [provider_id |-> "semgrep", required |-> req[j].required]
  <2>1. b.providers = <<run>>
    BY DEF BundleOf
  <2>2. 1 \in DOMAIN b.providers /\ b.providers[1] = run
    BY <2>1
  <2>3. run \in Elems(b.providers)
    BY <2>2 DEF Elems
  <2>4. run.required /\ run.provider_id = "semgrep"
    OBVIOUS
  <2> QED
    BY <2>3, <2>4, Zenon DEF RequiredProviders
<1>3. CoverageStatusOf(b, "semgrep") \notin {"failed", "partial", "skipped", "unsupported"}
  BY <1>1, <1>2 DEF UncoveredProviders
<1>4. CoverageStatusOf(b, "semgrep") = norm[j].coverage
  BY BundleCarriesCoverage
<1>5. norm[j].coverage \in CoverageStatuses
  BY DEF TypeInv, TypeOK, Normalizations
<1> QED
  BY <1>3, <1>4, <1>5 DEF CoverageStatuses

LEMMA GateFresh ==
    ASSUME Inv, NEW j \in Jobs, GateEvaluate(j)
    PROVE  FreshInv'
<1>1. /\ pc[j] = "gate" /\ pc' = [pc EXCEPT ![j] = "end"]
      /\ norm[j] # Nothing /\ out = BundleOf(j)
      /\ UNCHANGED <<raw, out, req, version, child, result, norm>>
      /\ \A k \in Jobs : k # j => verdict'[k] = verdict[k]
  BY DEF GateEvaluate, Inv, TypeInv, TypeOK, FreshInv, ClaimInv, GateReadsOwn
<1>2. Running(j) /\ \A k \in Jobs : Running(k) => k = j
  BY <1>1 DEF Running, Inv, FreshInv, MachineInv, OneRuns
<1>3. \A k \in Jobs : ~Running(k)'
  BY <1>1, <1>2 DEF Running, Inv, TypeInv, TypeOK
<1>4. MachineInv'
  BY <1>3 DEF MachineInv, OneRuns, OthersAreDead, ReportIsOwn
<1>5. RouteInv'
  BY <1>1, <1>3
  DEF Inv, TypeInv, TypeOK, FreshInv, RouteInv, RouteOfRequest, NoChildYet,
      ReadableIsWritten, JudgedWell, EndedWell
<1>6. GateReadsOwn' /\ VerdictIsLast'
  BY <1>1, <1>3 DEF Inv, TypeInv, TypeOK, FreshInv, ClaimInv, GateReadsOwn,
                    VerdictIsLast, Running
<1>7. PICK strict \in BOOLEAN :
        verdict' = [verdict EXCEPT ![j] =
          [ kind |-> "verdict", bundle |-> out,
            status |-> IF out = Nothing THEN "error"
                       ELSE IF ~ValidBundle(out) THEN "error"
                       ELSE GateStatus(out, strict) ]]
  BY DEF GateEvaluate
<1>8. /\ verdict'[j].bundle = BundleOf(j)
      /\ verdict'[j].status = "pass" => GateStatus(BundleOf(j), strict) = "pass"
  BY <1>1, <1>7 DEF Inv, TypeInv, TypeOK
<1>9. Lasting
  <2>1. verdict[j] = Nothing
    BY <1>1 DEF Inv, FreshInv, ClaimInv, VerdictIsLast
  <2> QED
    BY <1>1 DEF Lasting, Wrote
<1>10. OwnPass(j)'
  <2>1. SUFFICES ASSUME verdict'[j].status = "pass", req[j].required
                 PROVE  /\ BundleOf(j).run = j
                        /\ ScannedBy(BundleOf(j).scan, j)
                        /\ BundleOf(j).scan.content.scanned
                        /\ BundleOf(j).scan.content.errors # "fatal"
                        /\ RestsOnOwnScan(j)
    BY <1>1, <1>8 DEF OwnPass, Passed, ScannedBy, RestsOnOwnScan, Wrote, EndedWell
  <2>2. norm[j].coverage = "complete"
    BY <1>1, <1>8, <2>1, PassNeedsCoverage DEF Inv
  <2>3. /\ norm[j].failures = <<>> /\ norm[j].scan # Nothing
        /\ norm[j].scan.content.scanned
    BY <1>1, <2>2 DEF Inv, CoverageInv, NormalizationIsEarned, EarnedByNormalization
  <2>4. OwnNormalization(j)
    BY DEF Inv, FreshInv, ClaimInv
  <2>5. BundleOf(j).run = j /\ BundleOf(j).scan = norm[j].scan
    BY DEF BundleOf
  <2> QED
    BY <1>1, <2>3, <2>4, <2>5 DEF OwnNormalization, ScannedBy
<1> QED
  BY <1>1, <1>4, <1>5, <1>6, <1>9, <1>10, ClaimsStand DEF FreshInv, ClaimInv

-----------------------------------------------------------------------------
LEMMA NextFresh == FreshWorkspace /\ Inv /\ [Next]_vars => FreshInv'
<1> SUFFICES ASSUME FreshWorkspace, Inv, [Next]_vars PROVE FreshInv'
  OBVIOUS
<1> QED
  BY OutsideFresh, StartFresh, CommandFresh, AcquireFresh, LaunchFresh, ChildWritesFresh,
     ChildEndsFresh, RaisesFresh, ImportFresh, PublishFresh, GateFresh
  DEF Next, Command, Child

(* The three parts of the invariant of fresh machines, in every behaviour. *)
THEOREM FreshInvariance == ASSUME FreshWorkspace PROVE Spec => []FreshInv
<1>1. TypeInv /\ CoverageInv /\ FreshInv /\ [Next]_vars => FreshInv'
  BY NextFresh DEF Inv
<1> QED
  BY <1>1, InitFresh, TypeInvariance, CoverageInvariance, PTL DEF Spec

(***************************************************************************)
(* "Required provider failures never become PASS" (INV-008), on fresh      *)
(* machines: the bundle a passing gate judged is the job's own, and its    *)
(* findings come from the report the job's own semgrep wrote to the end.   *)
(***************************************************************************)
THEOREM OwnScanCorrectness == ASSUME FreshWorkspace PROVE Spec => []PassRestsOnOwnScan
<1>1. FreshInv => PassRestsOnOwnScan
  BY DEF FreshInv, ClaimInv, OwnPass, PassRestsOnOwnScan, RestsOnOwnScan, Wrote, EndedWell
<1> QED
  BY <1>1, FreshInvariance, PTL

(***************************************************************************)
(* "Optional provider failures must remain visible in the artifact bundle" *)
(* on fresh machines: a bundle of `semgrep run` without a failure record   *)
(* holds the whole report of the run's own semgrep.                        *)
(***************************************************************************)
THEOREM CleanBundleCorrectness ==
    ASSUME FreshWorkspace PROVE Spec => []CleanBundleIsOwnScan
<1>1. FreshInv => CleanBundleIsOwnScan
  BY DEF FreshInv, ClaimInv, OwnCleanBundle, CleanBundleIsOwnScan, Wrote
<1> QED
  BY <1>1, FreshInvariance, PTL
=============================================================================
