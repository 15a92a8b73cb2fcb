--------------------------- MODULE SemgrepPipeline ---------------------------
(***************************************************************************)
(* `l9-ci semgrep run` / `semgrep normalize` followed by `l9-ci gate       *)
(* evaluate`, as CI jobs execute them on a workspace.                      *)
(*                                                                         *)
(* A job is one invocation of the pipeline (pipeline/semgrep.py) and, when *)
(* that exits 0, one gate evaluation of the bundle at the output path.     *)
(* All jobs name the same output path and the same raw-report path, the    *)
(* CLI's defaults.  Around them the environment moves: the semgrep found   *)
(* on PATH changes, its process takes its time, crashes or hangs, and a    *)
(* job may be killed at any step.                                          *)
(*                                                                         *)
(* The text of a report is abstracted to what the provider adapter tells   *)
(* apart: does it parse, does it have the right shape, does normalization  *)
(* raise, would redaction reject it, does it list errors, does it list     *)
(* scanned paths, and which matches it lists.                              *)
(***************************************************************************)
EXTENDS GateRules, Integers

CONSTANTS
    Jobs,            \* the invocations
    Requests,        \* the requests a job may be started with
    Matches,         \* what semgrep can report: a rule at a location
    Resolvable,      \* the matches whose rule has a canonical identity
    Listed,          \* the matches whose rule the policy file lists
    PolicyMode,      \* the mode the policy (rule or default) gives a match
    Contents,        \* the report contents semgrep may write
    FindingLimit,    \* OperationalLimits.finding_count_limit
    FreshWorkspace,  \* TRUE: each job gets a new machine, FALSE: a reused one
    Overlap,         \* TRUE: jobs may run at the same time on the workspace
    MaxDrift         \* bound: changes of the tool

RequestType ==
    [ execute  : BOOLEAN,    \* semgrep run, or semgrep normalize
      required : BOOLEAN,    \* --required
      strict   : BOOLEAN,    \* --strict
      policy   : BOOLEAN,    \* --policy is given
      atRoot   : BOOLEAN ]   \* the command runs in the repository root

ContentType ==
    [ body    : {"unparsable", "misshapen", "unmappable", "unredacted", "regular"},
      errors  : {"none", "warn", "fatal"},
      scanned : BOOLEAN,
      matches : Seq(Matches) ]

ASSUME PipelineAssumption ==
    /\ Requests \subseteq RequestType
    /\ Contents \subseteq ContentType
    /\ Resolvable \subseteq Matches
    /\ Listed \subseteq Matches
    /\ PolicyMode \in [Matches -> RuleModes]
    /\ FindingLimit \in Nat
    /\ MaxDrift \in Nat
    /\ FreshWorkspace \in BOOLEAN
    /\ Overlap \in BOOLEAN
    /\ FreshWorkspace => ~Overlap

VARIABLES
    tool,      \* environment: the semgrep on PATH
    drift,     \* environment: how often the tool has changed
    raw,       \* file: the raw report, at each place its path can mean
    out,       \* file: the bundle at the output path
    pc,        \* per job: the next step
    req,       \* per job: the request
    version,   \* per job: provider_version of the normalization context
    child,     \* per job: the semgrep process
    result,    \* per job: the ProviderExecutionResult
    norm,      \* per job: the ProviderNormalizationResult
    exit,      \* per job: exit status of the pipeline command
    verdict    \* per job: what gate evaluate said, and of which bundle

vars == <<tool, drift, raw, out, pc, req, version, child, result, norm,
          exit, verdict>>

-----------------------------------------------------------------------------
Nothing == [kind |-> "nothing"]

ToolStates == {"absent", "unlaunchable", "hanging", "unversioned",
               "unsupported", "supported"}

(* A relative report path means a file of the command's own directory to   *)
(* the SDK, and a file of the repository root to the semgrep child.        *)
Places == {"cwd", "root"}

(* A raw report, with the job whose semgrep wrote it.                      *)
Reports == [kind : {"report"}, by : Jobs, content : ContentType]

Children == [kind : {"child"}, alive : BOOLEAN,
             progress : {"scanning", "writing", "wrote"}]

Results == [ kind : {"result"}, exit_code : {-1, 0, 1, 2}, timed_out : BOOLEAN,
             output_limit_exceeded : BOOLEAN, report_path : BOOLEAN ]

FailureTypes == {"not_installed", "configuration_error", "execution_error",
                 "timeout", "output_limit_exceeded", "report_missing",
                 "report_malformed", "normalization_error"}

Normalizations == [ kind : {"normalization"}, findings : Seq(Matches),
                    failures : Seq(FailureTypes), coverage : CoverageStatuses,
                    scan : Reports \cup {Nothing} ]

(***************************************************************************)
(* FindingBundle(...) of run_semgrep_pipeline.  The fields from "run" on   *)
(* are not read by the gate; "run" and "scan" record where the bundle and  *)
(* its findings came from.                                                 *)
(***************************************************************************)
BundleOf(j) ==
    [ kind      |-> "bundle",
      providers |-> <<[provider_id |-> "semgrep", required |-> req[j].required]>>,
      coverage  |-> <<[provider_id |-> "semgrep", status |-> norm[j].coverage]>>,
      failures  |-> [i \in DOMAIN norm[j].failures |->
                       [ provider_id |-> "semgrep", required |-> req[j].required,
                         fatal |-> req[j].required ]],
      findings  |-> [i \in DOMAIN norm[j].findings |->
                       [finding_id |-> norm[j].findings[i], intact |-> TRUE]],
      classes   |-> IF req[j].policy
                    THEN [i \in DOMAIN norm[j].findings |->
                            [ finding_id |-> norm[j].findings[i],
                              mode |-> PolicyMode[norm[j].findings[i]] ]]
                    ELSE <<>>,
      run       |-> j,
      strict    |-> req[j].strict,
      execute   |-> req[j].execute,
      version   |-> version[j],
      scan      |-> norm[j].scan ]

-----------------------------------------------------------------------------
Init ==
    /\ tool \in ToolStates
    /\ drift = 0
    /\ raw = [p \in Places |-> Nothing]
    /\ out = Nothing
    /\ pc = [j \in Jobs |-> "idle"]
    /\ req \in [Jobs -> Requests]
    /\ version = [j \in Jobs |-> "unknown"]
    /\ child = [j \in Jobs |-> Nothing]
    /\ result = [j \in Jobs |-> Nothing]
    /\ norm = [j \in Jobs |-> Nothing]
    /\ exit = [j \in Jobs |-> "none"]
    /\ verdict = [j \in Jobs |-> Nothing]

-----------------------------------------------------------------------------
(* The end of the pipeline command with a non-zero status: an exception    *)
(* that reaches _execute_request.  The bundle of an earlier run stays.     *)
Fails(j) ==
    /\ pc' = [pc EXCEPT ![j] = "end"]
    /\ exit' = [exit EXCEPT ![j] = "error"]

(* _failed of pipeline/runner.py: no findings, FAILED coverage, the failure *)
FailedRun(t) ==
    [ kind |-> "normalization", findings |-> <<>>, failures |-> <<t>>,
      coverage |-> "failed", scan |-> Nothing ]

EndsWithFailure(j, t) ==
    /\ norm' = [norm EXCEPT ![j] = FailedRun(t)]
    /\ pc' = [pc EXCEPT ![j] = "assemble"]

(* Mutant: coverage looks at the scanned paths only.                       *)
NormalizedByPaths(report) ==
    [ kind |-> "normalization",
      findings |-> report.content.matches,
      failures |-> IF report.content.errors = "fatal"
                   THEN <<"execution_error">> ELSE <<>>,
      coverage |-> IF report.content.scanned THEN "complete" ELSE "partial",
      scan |-> report ]

(* normalize of the semgrep provider on a well-formed report: every error  *)
(* entry that is not of level "warn" is a failure (one stands for all).    *)
Normalized(report) ==
    LET failures == IF report.content.errors = "fatal"
                    THEN <<"execution_error">> ELSE <<>>
    IN  [ kind |-> "normalization",
          findings |-> report.content.matches,
          failures |-> failures,
          coverage |-> IF failures # <<>> \/ ~report.content.scanned
                       THEN "partial" ELSE "complete",
          scan |-> report ]

(***************************************************************************)
(* Start: resolve_provider returns the semgrep adapter whether or not      *)
(* selection kept it, so it changes nothing.  An unreadable identity map,  *)
(* no snapshot identity, or an unsupported --provider-version ends the     *)
(* command here.  A new machine has no files and no other process.         *)
(***************************************************************************)
MayStart(j) ==
    /\ pc[j] = "idle"
    /\ Overlap \/ \A k \in Jobs : pc[k] \in {"idle", "end"}

TakeWorkspace(j) ==
    IF FreshWorkspace
    THEN /\ raw' = [p \in Places |-> Nothing]
         /\ out' = Nothing
         /\ child' = [k \in Jobs |-> IF child[k] = Nothing THEN Nothing
                                     ELSE [child[k] EXCEPT !.alive = FALSE]]
    ELSE UNCHANGED <<raw, out, child>>

Start(j) ==
    /\ MayStart(j)
    /\ TakeWorkspace(j)
    /\ pc' = [pc EXCEPT ![j] = IF req[j].execute THEN "probe" ELSE "acquire"]
    /\ UNCHANGED <<tool, drift, req, version, result, norm, exit, verdict>>

Refuse(j) ==
    /\ MayStart(j)
    /\ TakeWorkspace(j)
    /\ Fails(j)
    /\ UNCHANGED <<tool, drift, req, version, result, norm, verdict>>

(* Import: the workflow acquires the report that --input names, or none;   *)
(* the caller has stated a supported version.                              *)
Acquire(j) ==
    /\ pc[j] = "acquire"
    /\ \/ \E c \in Contents :
            raw' = [raw EXCEPT !["cwd"] = [kind |-> "report", by |-> j, content |-> c]]
       \/ UNCHANGED raw
    /\ version' = [version EXCEPT ![j] = "supported"]
    /\ pc' = [pc EXCEPT ![j] = "import"]
    /\ UNCHANGED <<tool, drift, out, req, child, result, norm, exit, verdict>>

(* Execute.  Each step below looks up semgrep on PATH anew.                *)
DetectVersion(j) ==
    /\ pc[j] = "probe"
    /\ IF tool \in {"unsupported", "unlaunchable", "hanging"}
       THEN Fails(j) /\ UNCHANGED version
       ELSE /\ version' = [version EXCEPT ![j] =
                             IF tool = "supported" THEN "supported" ELSE "unknown"]
            /\ pc' = [pc EXCEPT ![j] = "detect"]
            /\ UNCHANGED exit
    /\ UNCHANGED <<tool, drift, raw, out, req, child, result, norm, verdict>>

(* Mutant: a version that could not be detected is no obstacle.            *)
DetectByPresence(j) ==
    /\ pc[j] = "detect"
    /\ IF tool = "absent" THEN EndsWithFailure(j, "not_installed")
       ELSE pc' = [pc EXCEPT ![j] = "configure"] /\ UNCHANGED norm
    /\ UNCHANGED <<tool, drift, raw, out, req, version, child, result, exit, verdict>>

Detect(j) ==
    /\ pc[j] = "detect"
    /\ IF tool = "absent" THEN EndsWithFailure(j, "not_installed")
       ELSE IF version[j] = "unknown" THEN EndsWithFailure(j, "configuration_error")
       ELSE pc' = [pc EXCEPT ![j] = "configure"] /\ UNCHANGED norm
    /\ UNCHANGED <<tool, drift, raw, out, req, version, child, result, exit, verdict>>

(* validate_configuration: an absent version is no error; a probe that     *)
(* cannot be launched or times out raises through the runner.              *)
Configure(j) ==
    /\ pc[j] = "configure"
    /\ IF tool \in {"unlaunchable", "hanging"} THEN Fails(j) /\ UNCHANGED norm
       ELSE /\ IF tool = "unsupported" THEN EndsWithFailure(j, "configuration_error")
               ELSE pc' = [pc EXCEPT ![j] = "launch"] /\ UNCHANGED norm
            /\ UNCHANGED exit
    /\ UNCHANGED <<tool, drift, raw, out, req, version, child, result, verdict>>

LaunchFailure ==
    [ kind |-> "result", exit_code |-> -1, timed_out |-> FALSE,
      output_limit_exceeded |-> FALSE, report_path |-> FALSE ]

Launch(j) ==
    /\ pc[j] = "launch"
    /\ IF tool \in {"absent", "unlaunchable"}
       THEN /\ result' = [result EXCEPT ![j] = LaunchFailure]
            /\ pc' = [pc EXCEPT ![j] = "judge"]
            /\ UNCHANGED child
       ELSE /\ child' = [child EXCEPT ![j] = [ kind |-> "child", alive |-> TRUE,
                                               progress |-> "scanning" ]]
            /\ pc' = [pc EXCEPT ![j] = "await"]
            /\ UNCHANGED result
    /\ UNCHANGED <<tool, drift, raw, out, req, version, norm, exit, verdict>>

(* The semgrep process writes its report: first a part of it, then all.    *)
ChildAt(j, progress) ==
    /\ child[j] # Nothing
    /\ child[j].alive
    /\ child[j].progress = progress

ReportPlace(j) == IF req[j].atRoot THEN "cwd" ELSE "root"

ChildWritesPart(j) ==
    /\ ChildAt(j, "scanning")
    /\ child' = [child EXCEPT ![j].progress = "writing"]
    /\ raw' = [raw EXCEPT ![ReportPlace(j)] =
                 [ kind |-> "report", by |-> j,
                   content |-> [ body |-> "unparsable", errors |-> "none",
                                 scanned |-> FALSE, matches |-> <<>> ]]]
    /\ UNCHANGED <<tool, drift, out, pc, req, version, result, norm, exit, verdict>>

ChildWritesAll(j) ==
    /\ ChildAt(j, "writing")
    /\ child' = [child EXCEPT ![j].progress = "wrote"]
    /\ \E c \in Contents :
         raw' = [raw EXCEPT ![ReportPlace(j)] =
                   [kind |-> "report", by |-> j, content |-> c]]
    /\ UNCHANGED <<tool, drift, out, pc, req, version, result, norm, exit, verdict>>

(* execute returns: the child has exited (0 only after its whole report),  *)
(* or the timeout has killed it.  The report path is set when a file is    *)
(* there, whoever wrote it.                                                *)
ChildEnds(j, code, timed_out) ==
    /\ \E limit \in IF timed_out THEN {FALSE} ELSE BOOLEAN :
         result' = [result EXCEPT ![j] =
                      [ kind |-> "result", exit_code |-> code,
                        timed_out |-> timed_out, output_limit_exceeded |-> limit,
                        report_path |-> raw["cwd"] # Nothing ]]
    /\ child' = [child EXCEPT ![j].alive = FALSE]
    /\ pc' = [pc EXCEPT ![j] = "judge"]
    /\ UNCHANGED <<tool, drift, raw, out, req, version, norm, exit, verdict>>

ChildExits(j) ==
    /\ pc[j] = "await"
    /\ \E code \in {0, 1, 2} :
         /\ code = 0 => child[j].progress = "wrote"
         /\ ChildEnds(j, code, FALSE)

ChildTimesOut(j) ==
    /\ pc[j] = "await"
    /\ ChildEnds(j, -1, TRUE)

(* What execute does not catch, before the child is there (the directory   *)
(* of the report cannot be made) or with it (its output cannot be decoded, *)
(* the report cannot be looked at): the child is gone, the runner records. *)
ExecuteRaises(j) ==
    /\ pc[j] \in {"launch", "await"}
    /\ child' = IF child[j] = Nothing THEN child ELSE [child EXCEPT ![j].alive = FALSE]
    /\ EndsWithFailure(j, "execution_error")
    /\ UNCHANGED <<tool, drift, raw, out, req, version, result, exit, verdict>>

(* Mutant: a report excuses the exit code.                                 *)
ExecutionFailureByReport(r) ==
    IF r.timed_out THEN <<"timeout">>
    ELSE IF r.output_limit_exceeded THEN <<"output_limit_exceeded">>
    ELSE IF ~r.report_path THEN <<"report_missing">>
    ELSE <<>>

(* execution_failure, in the order of its tests.                           *)
ExecutionFailure(r) ==
    IF r.timed_out THEN <<"timeout">>
    ELSE IF r.output_limit_exceeded THEN <<"output_limit_exceeded">>
    ELSE IF ~r.report_path THEN <<"report_missing">>
    ELSE IF r.exit_code \notin {0, 1} THEN <<"execution_error">>
    ELSE <<>>

(* Mutant: a timeout is retried, as often as it happens.                   *)
JudgeWithRetry(j) ==
    /\ pc[j] = "judge"
    /\ LET failure == ExecutionFailure(result[j])
       IN  IF failure = <<>> THEN pc' = [pc EXCEPT ![j] = "import"] /\ UNCHANGED norm
           ELSE IF failure[1] = "timeout"
           THEN pc' = [pc EXCEPT ![j] = "launch"] /\ UNCHANGED norm
           ELSE EndsWithFailure(j, failure[1])
    /\ UNCHANGED <<tool, drift, raw, out, req, version, child, result, exit, verdict>>

Judge(j) ==
    /\ pc[j] = "judge"
    /\ LET failure == ExecutionFailure(result[j])
       IN  IF failure # <<>> THEN EndsWithFailure(j, failure[1])
           ELSE pc' = [pc EXCEPT ![j] = "import"] /\ UNCHANGED norm
    /\ UNCHANGED <<tool, drift, raw, out, req, version, child, result, exit, verdict>>

(***************************************************************************)
(* Reading the report.  Under execute the runner turns what goes wrong     *)
(* into a failure record; under import it ends the command.                *)
(***************************************************************************)
(* Mutant: what does not parse is read as an empty report.                 *)
ReportProblemOfShape(file) ==
    IF file = Nothing THEN <<"report_malformed">>
    ELSE IF file.content.body = "misshapen" THEN <<"report_malformed">>
    ELSE IF file.content.body = "unmappable" THEN <<"normalization_error">>
    ELSE <<>>

ReportProblem(file) ==
    IF file = Nothing THEN <<"report_malformed">>
    ELSE IF file.content.body \in {"unparsable", "misshapen"} THEN <<"report_malformed">>
    ELSE IF file.content.body = "unmappable" THEN <<"normalization_error">>
    ELSE <<>>

Import(j) ==
    /\ pc[j] = "import"
    /\ LET problem == ReportProblem(raw["cwd"])
       IN  IF problem = <<>>
           THEN /\ norm' = [norm EXCEPT ![j] = Normalized(raw["cwd"])]
                /\ pc' = [pc EXCEPT ![j] = "assemble"]
                /\ UNCHANGED exit
           ELSE IF req[j].execute
           THEN EndsWithFailure(j, problem[1]) /\ UNCHANGED exit
           ELSE Fails(j) /\ UNCHANGED norm
    /\ UNCHANGED <<tool, drift, raw, out, req, version, child, result, verdict>>

(***************************************************************************)
(* From the normalization to the bundle file: record limits, strict        *)
(* identity, policy, bundle validation, redaction, in that order.          *)
(***************************************************************************)
NormFindings(j) == Elems(norm[j].findings)

OverLimit(j) == Len(norm[j].findings) > FindingLimit

StrictIdentityFails(j) ==
    req[j].strict /\ NormFindings(j) \ Resolvable # {}

(* An explicit rule of mode "unresolved" loads, and raises when applied.   *)
ClassificationFails(j) ==
    /\ req[j].policy
    /\ \E m \in NormFindings(j) :
         PolicyMode[m] = "unresolved" /\ (m \in Listed \/ req[j].strict)

(* Mutant: the test on the findings is inverted.                           *)
PolicyMissingWhenEmpty(j) ==
    req[j].strict /\ ~req[j].policy /\ norm[j].findings = <<>>

PolicyMissing(j) ==
    req[j].strict /\ ~req[j].policy /\ norm[j].findings # <<>>

RedactionFails(j) ==
    norm[j].scan # Nothing /\ norm[j].scan.content.body = "unredacted"

Rejected(j) ==
    \/ OverLimit(j)
    \/ StrictIdentityFails(j)
    \/ ClassificationFails(j)
    \/ PolicyMissing(j)
    \/ ~ValidBundle(BundleOf(j))
    \/ RedactionFails(j)

(* Mutant: the bundle is written before it is validated.                   *)
AssembleAndWrite(j) ==
    /\ pc[j] = "assemble"
    /\ out' = BundleOf(j)
    /\ IF Rejected(j) THEN Fails(j)
       ELSE pc' = [pc EXCEPT ![j] = "publish"] /\ UNCHANGED exit
    /\ UNCHANGED <<tool, drift, raw, req, version, child, result, norm, verdict>>

Assemble(j) ==
    /\ pc[j] = "assemble"
    /\ IF Rejected(j) THEN Fails(j)
       ELSE pc' = [pc EXCEPT ![j] = "publish"] /\ UNCHANGED exit
    /\ UNCHANGED <<tool, drift, raw, out, req, version, child, result, norm, verdict>>

(* write_bundle_atomic as its readers see it (module AtomicWrite).         *)
Publish(j) ==
    /\ pc[j] = "publish"
    /\ out' = BundleOf(j)
    /\ exit' = [exit EXCEPT ![j] = "ok"]
    /\ pc' = [pc EXCEPT ![j] = "gate"]
    /\ UNCHANGED <<tool, drift, raw, req, version, child, result, norm, verdict>>

(* An I/O error in write_bundle_atomic: the destination is not touched.     *)
PublishRaises(j) ==
    /\ pc[j] = "publish"
    /\ Fails(j)
    /\ UNCHANGED <<tool, drift, raw, out, req, version, child, result, norm, verdict>>

(* handle_evaluate, run by the job after its pipeline command exited 0.    *)
GateEvaluate(j) ==
    /\ pc[j] = "gate"
    /\ \E strict_unresolved \in BOOLEAN :
         verdict' = [verdict EXCEPT ![j] =
           [ kind |-> "verdict", bundle |-> out,
             status |-> IF out = Nothing THEN "error"
                        ELSE IF ~ValidBundle(out) THEN "error"
                        ELSE GateStatus(out, strict_unresolved) ]]
    /\ pc' = [pc EXCEPT ![j] = "end"]
    /\ UNCHANGED <<tool, drift, raw, out, req, version, child, result, norm, exit>>

(* A kill leaves the files, and a running semgrep, as they are.            *)
Kill(j) ==
    /\ pc[j] \notin {"idle", "end"}
    /\ pc' = [pc EXCEPT ![j] = "end"]
    /\ exit' = [exit EXCEPT ![j] = IF @ = "none" THEN "killed" ELSE @]
    /\ UNCHANGED <<tool, drift, raw, out, req, version, child, result, norm, verdict>>

ToolChanges ==
    /\ drift < MaxDrift
    /\ drift' = drift + 1
    /\ tool' \in ToolStates \ {tool}
    /\ UNCHANGED <<raw, out, pc, req, version, child, result, norm, exit, verdict>>

Command(j) ==
    \/ Acquire(j) \/ DetectVersion(j) \/ Detect(j) \/ Configure(j) \/ Launch(j)
    \/ Judge(j) \/ Import(j) \/ Assemble(j) \/ Publish(j) \/ GateEvaluate(j)

Child(j) == ChildWritesPart(j) \/ ChildWritesAll(j) \/ ChildExits(j)

Next ==
    \/ ToolChanges
    \/ \E j \in Jobs :
         \/ Start(j) \/ Refuse(j) \/ PublishRaises(j) \/ Kill(j)
         \/ ChildTimesOut(j) \/ ExecuteRaises(j)
         \/ Command(j) \/ Child(j)

Spec == Init /\ [][Next]_vars

(* The command's own steps are taken while the machine runs, and           *)
(* subprocess.run enforces the timeout; nothing is assumed of semgrep.     *)
Fairness == \A j \in Jobs : WF_vars(Command(j)) /\ WF_vars(ChildTimesOut(j))

FairSpec == Spec /\ Fairness
-----------------------------------------------------------------------------
Steps == {"idle", "probe", "acquire", "detect", "configure", "launch", "await",
          "judge", "import", "assemble", "publish", "gate", "end"}

Versions == {"unknown", "supported"}

Bundles ==
    [ kind      : {"bundle"},
      providers : Seq(ProviderRuns({"semgrep"})),
      coverage  : Seq(Coverages({"semgrep"})),
      failures  : Seq(Failures({"semgrep"})),
      findings  : Seq(Findings(Matches)),
      classes   : Seq(Classifications(Matches)),
      run       : Jobs,
      strict    : BOOLEAN,
      execute   : BOOLEAN,
      version   : Versions,
      scan      : Reports \cup {Nothing} ]

Verdicts ==
    [ kind   : {"verdict"},
      bundle : Bundles \cup {Nothing},
      status : GateStatuses \cup {"error"} ]

TypeOK ==
    /\ tool \in ToolStates
    /\ drift \in 0 .. MaxDrift
    /\ raw \in [Places -> Reports \cup {Nothing}]
    /\ out \in Bundles \cup {Nothing}
    /\ pc \in [Jobs -> Steps]
    /\ req \in [Jobs -> Requests]
    /\ version \in [Jobs -> Versions]
    /\ child \in [Jobs -> Children \cup {Nothing}]
    /\ result \in [Jobs -> Results \cup {Nothing}]
    /\ norm \in [Jobs -> Normalizations \cup {Nothing}]
    /\ exit \in [Jobs -> {"none", "ok", "error", "killed"}]
    /\ verdict \in [Jobs -> Verdicts \cup {Nothing}]

-----------------------------------------------------------------------------
Passed(j) == verdict[j] # Nothing /\ verdict[j].status = "pass"

ScannedBy(report, j) == report # Nothing /\ report.by = j

(***************************************************************************)
(* INV-008 on a fresh machine: when the gate passes a job that required    *)
(* semgrep, the bundle it judged is that job's, and its findings come from *)
(* a report that the job's own semgrep wrote to the end, with scanned      *)
(* paths and without a fatal error, in a run that did not time out.        *)
(***************************************************************************)
PassRestsOnOwnScan ==
    \A j \in Jobs : Passed(j) /\ req[j].required =>
        LET b == verdict[j].bundle
        IN  /\ b.run = j
            /\ ScannedBy(b.scan, j)
            /\ b.scan.content.scanned
            /\ b.scan.content.errors # "fatal"
            /\ (req[j].execute =>
                  /\ child[j].progress = "wrote"
                  /\ ~result[j].timed_out
                  /\ result[j].exit_code \in {0, 1})

(***************************************************************************)
(* "Optional provider failures must remain visible in the artifact bundle" *)
(* (docs/architecture/provider-spi.md): whatever the requiredness, a       *)
(* bundle that `semgrep run` publishes without a failure record holds the  *)
(* whole report of that run's own semgrep.                                 *)
(***************************************************************************)
CleanBundleIsOwnScan ==
    out # Nothing =>
        (out.execute /\ out.failures = <<>> =>
            /\ ScannedBy(out.scan, out.run)
            /\ child[out.run].progress = "wrote")

(***************************************************************************)
(* Complete coverage is earned: a bundle that claims it records no failure *)
(* (required or not), knows a supported semgrep version, and its report    *)
(* listed the scanned paths.                                               *)
(***************************************************************************)
CompleteCoverageIsEarned ==
    out # Nothing =>
        (CoverageStatusOf(out, "semgrep") = "complete" =>
            /\ out.failures = <<>>
            /\ out.version = "supported"
            /\ out.scan # Nothing
            /\ out.scan.content.scanned)

(***************************************************************************)
(* Strict mode decides at production time what the gate would leave open:  *)
(* the gate never rejects the bundle of a strict run nor calls it invalid, *)
(* and gives it the same verdict with and without --strict-unresolved.     *)
(***************************************************************************)
StrictBundleIsDecided ==
    out # Nothing =>
        (out.strict =>
            /\ ValidBundle(out)
            /\ GateStatus(out, TRUE) # "invalid"
            /\ GateStatus(out, TRUE) = GateStatus(out, FALSE))

(***************************************************************************)
(* A command that ends with an error status has published nothing: what is *)
(* at the output path, then and later, is never its bundle.                *)
(***************************************************************************)
ErrorExitPublishesNothing ==
    \A j \in Jobs : exit[j] = "error" /\ out # Nothing => out.run # j

(***************************************************************************)
(* The pipeline is bounded: a job that has started comes to an end,        *)
(* although semgrep may hang for ever (subprocess.run's timeout).          *)
(***************************************************************************)
StartedJobEnds ==
    \A j \in Jobs : pc[j] \notin {"idle", "end"} ~> pc[j] = "end"

(***************************************************************************)
(* INV-008 as INVARIANTS.md states it: "Required provider failures never   *)
(* become PASS".  If the gate passes a job that ran semgrep as required,   *)
(* that semgrep wrote its report.                                          *)
(***************************************************************************)
RequiredFailureNeverPasses ==
    \A j \in Jobs : Passed(j) /\ req[j].required /\ req[j].execute =>
        child[j] # Nothing /\ child[j].progress = "wrote"
=============================================================================
