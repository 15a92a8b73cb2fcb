# Verification of l9-ci-sdk

TLA+ models of the SDK and of the CI scripts beside it, the TLC runs that check
them on small instances, and TLAPS proofs of what matters most. Paths below are
relative to the repository. `PROJECT.json` lists the runs, the mutants each
property was tried against, the source lines behind every definition, the
hazards and the findings.

To repeat a run: `tlc -config Verdicts.cfg MCVerdicts` (module and cfg
of every run are in the table of runs). To repeat the proofs: `tlapm` on
`GateProofs.tla`, `PipelineProofs.tla`, `AtomicWriteProofs.tla`,
`WorkingTreeProofs.tla`, `ConsumersProofs.tla`, `BaselineProofs.tla`,
`PullRequestProofs.tla` and `GovernedNodeProofs.tla`.

## 1. The system

l9-ci-sdk is a Python library and command line (`l9-ci`) that CI jobs run. It
turns the report of a scanner (semgrep) into a canonical *finding bundle*,
judges the bundle with a *gate*, derives other artifacts from it, keeps accepted
debt in a *ledger* that may only shrink, and answers questions of governance.
There is no server: every command is a process of its own, the state is in
files, and the commands of several jobs may meet on one workspace.

| Component | State it keeps | Operations | Correct when | In the model |
|---|---|---|---|---|
| Semgrep pipeline (`l9_ci/pipeline`, `commands/semgrep.py`) | raw report, bundle file, semgrep child process | `semgrep run`, `semgrep normalize` | a bundle holds the run's own results or says what failed; an error exit publishes nothing; a run ends | `SemgrepPipeline` |
| Semgrep adapter (`providers/semgrep`) | none; looks semgrep up on PATH at every step | detect, detect_version, validate_configuration, execute, execution_failure, import, normalize | every failure becomes a record; complete coverage is never claimed unproven | `SemgrepPipeline` |
| Gate (`gates`) | gate-result file | `gate evaluate` | fails closed: no defect of a required provider is lost | `GateRules`, `GateEvaluation`, `BundleConsumers` |
| Artifact validation (`artifacts/validator.py`) | none | `bundle validate` | identifiers unique, references resolve, one coverage per provider | `GateRules`, `BundleConsumers` |
| Artifact serialization (`artifacts/serializer.py`) | bundle file, temporary file | write_bundle_atomic | readers see whole artifacts, always | `AtomicWrite`, `ArtifactRegister` |
| Identity, policy, limits, redaction | configuration files | resolve, classify, check | strict mode leaves nothing open | guards of `SemgrepPipeline` |
| Projections (`integration/projection.py`, `sarif.py`) | output files | `project agent`, `project sarif` | they tell of a bundle what the gate tells | `BundleConsumers` |
| Observations (`integration/observation.py`, `commands/observations.py`) | output file | build, sdk, mandatory-findings, metadata, validate | "passed" names what was checked, "failed" what failed | `BundleConsumers`, `WorkingTree` |
| Repository state (`repository/git.py`, `snapshot.py`, `enumerator.py`) | none | inspect, snapshot, enumerate | one consistent state of the repository | `WorkingTree` |
| Repository manifest (`repository/manifest.py`) | MANIFEST.md, fixed temporary name | `manifest generate`, `manifest check` | atomic, idempotent | `WorkingTree` |
| Baseline ratchet (`baseline`) | ledger, report log, findings document | `compare-tests`, `scan-packet-envelope`, `compare-scan` | a new failure is never excused, a removed one never kept | `BaselineRules`, `BaselineComparison`, `QuarantineRatchet`, `EnvelopeRatchet` |
| Governance (`governance`) | none; its callers keep constitution, attestation and policy mode | compare authority, compare attestation, evaluate promotion | no authority gained unseen; a pass conforms; more good evidence never takes eligibility away | `GovernanceRules`, `GovernedNode` |
| CI self-gate (`.github/scripts`, `l9-self-ci.yml`) | job results, the marker comment | classify, scan, gate, summarise, comment | every head is judged; what was scanned and found blocks; one comment, of the latest run | `SelfCIRules`, `PullRequest` |
| Reconciliation of manifest and lock (`l9-manifest-reconcile.yml`) | the pull request's branch | generate, commit, push or export | manifest and lock agree with the head, or a patch is exported; no commit is lost | `PullRequest` |
| Selection, registry, capabilities, profiles | none | select providers | | partly: what the pipeline uses |
| Packaged rulesets, schemas | data | | | not modelled |

Interaction: the pipeline calls the adapter through the provider SPI in the
order detect, version, configure, execute, judge, import, normalize; it checks
the outcome (limits, identity, policy, validation, redaction), writes the bundle
through the serializer, and ends. Gate, projections and observations, in later
processes, read the bundle file, validate it and write an answer of their own,
which others take for evidence. The manifest commands and the snapshot ask git
about a checkout that developers and other commands change meanwhile. The
ratchets read what another process left (a report log, a findings document) and
a ledger that humans edit. Between commands, and between jobs, there are only
files, except on GitHub, where the workflows share a branch, a list of comments
and the concurrency groups.

What is hard: a tool that changes between two looks at it; a child that hangs,
dies half way through its report or outlives the SDK; a file at a shared path
that another run, or an earlier one, wrote, or that is replaced between two
reads; three git commands for what should be one state; kills and crashes
between two steps of a write; verdicts computed from sets and maps in which one
record can hide another; verdicts on evidence that has moved since; and
workflow runs that are cancelled and replaced while their work goes on.

## 2. The modules

A rules module (`GateRules`, `BaselineRules`, `GovernanceRules`, `SelfCIRules`)
has no state: it holds the pure functions of the code as operators. The state
machines extend them. MC modules hold the values of the constants. Each module
has a `TypeOK` (`BundleOK` in the gate, `QuarantineTypeOK` and `EnvelopeTypeOK`
in the ratchets), which documents the shape of its state; it is proved for
`GateEvaluation`, `SemgrepPipeline` and `AtomicWrite` and is not part of the
routine runs.

### GateRules, GateEvaluation

`GateRules` has no state. `ValidBundle` is `validate_bundle_semantics`;
`GateStatus` is `evaluate_gate`, with one operator for each set the function
builds (`FatalProviders`, `NonfatalProviders`, `UncoveredProviders`, ...). A
bundle is a record of lists, as in `contracts/bundle.py`. A finding's evidence,
provider and snapshot references are one flag, `intact`: the validator tells
no more apart, and the gate does not read them.

`GateEvaluation` lets any producer append any record the contracts admit; the
verdict is a state function. Its steps are therefore exactly "one more record",
which is what the action property `OnlyClaimsRedeem` is about. `WorstDefect` is
the reference: it looks at records one by one and uses none of the code's sets.
`MCVerdicts` checks it together with `BaselineComparison`: a behaviour is of one
of the two, which share nothing.

### SemgrepPipeline, MCSemgrepPipeline

A job is one `semgrep run` or `semgrep normalize` followed, when that exits 0,
by `gate evaluate`. The program counter `pc` follows the calls:

| step | code | actions |
|---|---|---|
| `idle` | arguments, identity map, snapshot identity, `--provider-version` | `Start`, `Refuse` |
| `acquire` | (import) the workflow puts a report at `--input`, or none | `Acquire` |
| `probe` | `detect_version` in `run_semgrep_pipeline` | `DetectVersion` |
| `detect`, `configure` | `execute_and_normalize`, first half | `Detect`, `Configure` |
| `launch`, `await` | `SemgrepProvider.execute`, `subprocess.run` with its timeout, or an exception that `execute_and_normalize` turns into a failure | `Launch`, `ChildExits`, `ChildTimesOut`, `ExecuteRaises` |
| `judge` | `execution_failure` | `Judge` |
| `import` | import, shape check, normalize | `Import` |
| `assemble` | limits, strict identity, policy, validation, redaction | `Assemble` |
| `publish` | `write_bundle_atomic`, as its readers see it | `Publish`, `PublishRaises` |
| `gate` | `handle_evaluate` | `GateEvaluate` |

Around the jobs: `ChildWritesPart` and `ChildWritesAll` are the semgrep process
writing its report, also as an orphan; `ToolChanges` changes the semgrep on PATH
between any two steps; `Kill` ends a job and leaves files and child as they are.
The environment is bounded by two facts only: semgrep exits 0 only after it
wrote its whole report, and a timeout kills it.

Data is abstracted to what the adapter tells apart. A report either does not
parse, has the wrong shape, makes `normalize` raise, would fail redaction, or is
regular; it lists no error, a warning or a fatal error; it lists scanned paths
or not; and it lists matches, which may repeat (equal matches get equal finding
identifiers, which the validator rejects). Which matches have a canonical
identity, which the policy lists, and what mode it gives them are parameters.
`raw` has two places because a relative report path means a file of the
repository root to semgrep and a file of the current directory to the SDK. The
SDK's three steps between a report and the bundle that only compute are one
action each. Not modelled: the size limit of an imported report, an unreadable
policy file (both end the command like `Refuse`), the JSON schema, and the
snapshot identity, which the caller may state.

`FreshWorkspace` and `Overlap` choose the machine: a new one for each job, as on
hosted runners, or a reused one, with jobs one after another or at once.

### AtomicWrite, ArtifactRegister

`AtomicWrite` is `write_bundle_atomic` one system call at a time, for several
writers of one destination. `Raise` is an I/O error, `UnlinkFails` one of the
cleanup itself, whose exception takes the place of the first, `Interrupt` a
KeyboardInterrupt (before, in and after the try block), `Kill` a SIGKILL. The
page cache is explicit: `cached` and `dest` are what processes see, `synced` and
`destSynced` what is on disk, `WriteBackData` and `WriteBackEntry` the operating
system's own schedule, and `MachineCrash` forgets what is not on disk (the name
of a temporary file may come or go). `ArtifactRegister` is what readers are
promised: a register that holds nothing or one writer's whole artifact, and that
may fall back to an earlier one in a crash. `AtomicWrite` implements it under
the mapping that shows a partly written destination as `Torn`, which no state of
the register is.

### BaselineRules, BaselineComparison

`BaselineRules` is the ratchet as operators: `LoadedLedger` is
`load_ledger` with its flaws per entry, `Compare` is `compare` with its indices
in which the first of two entries wins, `ParsedLog` is the pytest adapter (a
later failed phase of a node overwrites an earlier one), and `Judge` is what
the commands make of them. `BaselineComparison` chooses a ledger, findings and
a date and compares once; its properties are the reference: what a pass means,
stated without any index. `ExpiredEntryBlocks` is line 12 of the decision table
of `comparator.py`, which the code does not keep (section 4).

### QuarantineRatchet, EnvelopeRatchet

The ratchet over time. In `QuarantineRatchet` developers change what tests do,
humans edit the ledger or break it, days pass, and a CI job checks out, runs
pytest with a report log and runs `compare-tests`. pytest may die (`Aborts`): no
log, an earlier job's log, or a torn one. In `EnvelopeRatchet` the finding is a
use of the deprecated `PacketEnvelope`; the job is `scan-packet-envelope`
followed by `compare-scan`, with files that do not parse or cannot be read,
scans that fail or are killed and documents of earlier jobs (`Mishaps`). Test
outcomes are sequences of phase records; failure texts are signatures, and a
test may have several entries in the ledger, of one signature each.
The ledger is `ledger` in the one and `debtLedger` in the other, and their
specifications are `QuarantineSpec` and `EnvelopeSpec`: names differ so that one
proof module can extend both and `BaselineComparison`.

### WorkingTree, MCWorkingTree

One checkout. `generate`, `check`, `snapshot` and `metadata` each ask git for
HEAD, the status and the tracked files in separate steps (`ReadHead`,
`ReadStatus`, `ReadFiles`), the metadata observation inspects a second time
(`ReadStatus`, `ReadFilesAgain`), and developers edit and commit in between.
`is_git_repository` takes every failure of git for "no repository": for the
processes in `Denied` it may (`TakeForPlain`), and the manifest and the snapshot
then list the files of the directory as if there were no git. The
writer of `manifest.py` is `Compare`, `Open`, `Write`, `Replace` on one temporary
name: a command that still has the file open after another one moved it writes
into the manifest (`at`), as the file system has it. Contents are "absent",
"empty", "mixed" or the list of some paths. Two histories: `disturbed`, of a
command, is set when the repository changes while it runs, and when a manifest
command finds a temporary file that it will list or takes a repository for a
plain directory; `overlapped` says that two commands had the temporary file open
at once. Fault steps: `GitFails`, `WriteFails`, `Kill`. The machine does not
crash in this model: the code renames the manifest without an fsync, and after a
crash nothing is promised of it.

### BundleConsumers, MCBundleConsumers

The commands that read a bundle: validation, agent payload, SARIF, gate, and the
build, sdk and mandatory-findings observations. `input` is the document at the
bundle's path, which `ReplaceInput` may replace at any moment. A document is
missing, unreadable, no JSON, JSON of another shape, or a bundle. A command
reads (`Project`, `Build`, `ValidateLoaded`, `ValidateUnloadable`), some read
again (`Digest`), then open and write their output, which an I/O error or a kill
may leave torn. `classify_exception` reads the text of a ValueError, which may
quote the document: `ErrorExits` is the set of exits an exception may have.
`Alter` changes an observation after it was written, which the content address
of `validate_observation` is there to detect.

### GovernanceRules, GovernedNode

`CompareAuthority`, `CompareAttestation` and `EvaluatePromotion` are the three
functions of `governance/`, with the ranks of the fields, the order in which
invalid, fail and incomplete are decided, and the days of a window counted down
to whole ones. `GovernedNode` puts them between the actors that call them: a
constitution that is amended again and again, a node that is deployed, loads
plugins, loses dependencies and attests while that changes, and promotions asked
for on runs that are reported out of order. A constitution may declare no
version, which is then not compared. The digest of a contract is of its files'
hashes (`digest.py`), not of its version. What becomes of an eligible result is
the caller's: the model makes the transition at once (`Promote`).

### SelfCIRules, PullRequest

`SelfCIRules` has the classifier, the rule modes, the verdict of
`evaluate_ci_gate.py` and the result `render_ci_summary.py` prints. A path is
the set of classes the taxonomy gives it. `PullRequest` composes the two
workflows on one pull request, of a fork or not: developers push, reopen and
label; the bot makes the two derived files, MANIFEST.md and uv.lock, anew
(`BotGenerate`) and, if either differs, commits and pushes them (`BotPush`) or,
on a fork, exports them as a patch (`BotExport`); the self CI's jobs run
(`Jobs`), its comment step lists the comments and creates or updates one
(`List`, `Send`), and its gate reports on the head (`Gate`). Every step of the
gate's job may fail, which skips the later ones and leaves the head a failed
check without a verdict (`JobFails`): the comment script catches HTTPError and
URLError only. Each workflow has a concurrency group with a
running and a pending run; a new run replaces the pending one and cancels the
running one, whose `always()` jobs still run. A run dispatched by hand is in a
group of its own.

## 3. The runs

| run | module, cfg | what it shows |
|---|---|---|
| `verdicts` | MCVerdicts, Verdicts | The comparator: all ledgers of up to two entries, flawed ones and repeated ids included, against up to three findings: what a pass means, that order decides nothing, that the suggested removals are safe. The gate: up to two runs, coverage records and failures of two providers, or two findings with classifications, in any order and with repetitions: the verdict equals the reference and turns into PASS only through a claim. |
| `pipeline_fresh` | MCSemgrepPipeline, PipelineFresh | One job with each of the 32 requests against 13 report contents, every initial tool, and two changes of the tool at any point: a pass, and a bundle without failures, rest on the job's own completed scan; complete coverage is earned; a strict run leaves the gate nothing to decide; a started job ends. |
| `pipeline_shared` | MCSemgrepPipeline, PipelineShared | Two jobs at once on one reused workspace, with kills, and orphans that go on writing. What holds without isolation: coverage is earned, and an error exit publishes nothing. |
| `pipeline_stale_report` | MCSemgrepPipeline, PipelineStaleReport | Violation; section 4. |
| `atomic_write` | AtomicWrite, AtomicWrite | Two writers, artifacts of two pieces, failing unlinks, one crash: no leftovers, honest outcomes, and the refinement of `ArtifactRegister`. |
| `baseline_expiry` | MCBaselineComparison, BaselineExpiry | Violation; section 4. |
| `ratchets` | MCRatchets, Ratchets | One test, whose file may fail too, with up to two ledger entries over three days: a pass rests on whole lines of ledgered failures, no test joins or leaves the accepted failures without an edit, an exception nobody touches blocks in the end. A file and the declaration's file: a pass leaves no readable debt unledgered and no entry without debt. |
| `working_tree` | MCWorkingTree, WorkingTree | A bot that generates and a job that checks, snapshots or observes, one source file, one commit: whole manifests, idempotence, and that what is observed clean is the commit. |
| `bundle_consumers` | MCBundleConsumers, BundleConsumers | One consumer with every request, 15 documents, replaced and altered at any moment: passed means validated, failed names what failed, and gate, agent payload and SARIF agree. |
| `governance` | MCGovernedNode, GovernedNode | Three amendments over the constitutions of the MC module, one of them without a version, deployments, attestations, promotions. |
| `pull_request` | MCPullRequest, PullRequest | Three commits, one further event, one foreign comment, forks, failing steps: a fresh manifest and lock, no lost commit, one current comment, that every head is judged, and what a pass says of it. |
| `comment_breaks_ci` | MCPullRequest, CommentBreaksCI | Violation; section 4. |

Deadlock is not checked where a model stops when its bounds are used up or all
commands have ended, as the commands do. The two ratchets go on for ever and are
checked for it.

Bounds. Two jobs, or two commands on a checkout, suffice for every interference
between an earlier or concurrent run and this one: they meet on two shared
files. Two records of each kind are the least that can hide one another. Three
matches cover the combinations of identity and policy, and a report of three
exceeds the record limit of two. One consumer is enough because a consumer
writes a path of its own and the bundle is replaced by the environment. In the
ratchets three days let an entry be added, expire and be left over; `MaxEntries`
is two so that two entries of one file compete. A page holds one comment, so a
marker can be beyond the first page (100 in the code). `PartsPerDay` is two, so
that a window may be just short of a day. `MaxDrift` is two, which can take a
tool away and bring another.

Constraints. The instances of the gate, the governed node and the pull request
would multiply variety that no property relates: `OneSideIsRich` and `OneStory`
(in the MC modules) keep behaviours with much of one kind and a little of the
others. They cut no action and no disjunct, and the theorems on these modules
need none of them. Job symmetry is used in one safety run only; jobs are
interchangeable in its properties.

Fairness. In the pipeline (`FairSpec`): weak fairness of a job's own steps, as a
running process is scheduled, and of `ChildTimesOut`, as
`subprocess.run(timeout=...)` ends the wait whatever the child does. Nothing is
assumed of semgrep, of the tool on PATH, or of the start of a job. In the
quarantine: days pass, and CI keeps running the job; nothing is assumed of
developers, humans or pytest. No other run needs fairness.

Each property was tried against a mutant of the code it is about, which TLC
finds to violate it under the run's own cfg (`PROJECT.json`, "mutants"; the
mutated forms stand in the modules, marked "Mutant").

## 4. Findings

`execute` accepts whatever file is at the report path, and exit code 1 with a
report is no failure. On a reused workspace a required semgrep that exits 1
before it writes is given the earlier run's report and passes. `INVARIANTS.md`
(INV-008) says that required provider failures never become PASS. The run
`pipeline_stale_report` shows it; on a fresh machine INV-008 holds
(`PassRestsOnOwnScan`, proved).

The table of `comparator.py` (line 12) says "ledger entry past expiry: FAIL
expired-exception". An entry whose finding is not there is passed over if some
finding has its identity (line 206), as "already reported as CHANGED_SIGNATURE"
(line 208). That is not so when the finding is ledgered by another entry: with two
entries of one test the observed one lets the other pass, although it has expired
or its failure is gone. The run `baseline_expiry` shows it. `PassIsCovered`,
`PassIsWhatTheLogSays` and `DebtMovesOnlyByEdits` say what remains true: of each
test one unexpired entry is observed, and what is accepted of a test may turn into
another of its ledgered failures without an edit.

`update_marker_comment.py` (line 15) says "Fails soft: a comment problem must never
break CI". `_request` (line 41) catches HTTPError and URLError: a read timeout, or
an answer that is no JSON, fails the step, also after GitHub took the comment, and
"Evaluate gate" (`l9-self-ci.yml:622`) is skipped. The required check then fails
beside a comment that may say PASS. The run `comment_breaks_ci` shows it.

Other places where the code and what is said of it, or what one would expect,
differ. The models do what the code does; no run is spent on these.

- The gate selects failures by the record's own `required` flag: a provider
  registered as required with a failure marked optional passes, against the
  comment in `gates/evaluator.py`. The SDK's own pipeline sets both from one
  value.
- With `--root` elsewhere and a relative `--raw-output` outside the root,
  semgrep and the SDK look at different files: a completed scan is recorded as
  `report_missing`. It fails closed.
- `semgrep normalize` of a malformed report ends with an error and no bundle;
  `docs/architecture/semgrep-provider.md` says `report_malformed`.
- A gate, projection or observation that ends with an error leaves an earlier
  output where it was; a gate whose write fails ends with 1, the code of a
  failed gate. `ExitTellsFile` speaks of exit 0 only. The exit
  of a strict refusal is also that of an error whose text has the word "strict".
- A probe that hangs in `validate_configuration` ends the command without the
  failure record there is for it (`pipeline/runner.py:91`). It fails closed.
- Neither gate nor mandatory observation checks redaction. A bundle with
  provider failures never yields a mandatory observation: the failures are
  counted as errors but not as findings, so the sum check refuses it, and the
  status "error" is never written.
- A JSON document whose root is no object ends the sdk observation with an
  internal error instead of a "failed" observation.
- A git failure in the second inspection of the metadata observation is reported
  as a manifest that has drifted. `manifest check` writes the manifest and fails;
  run again, it passes. A git that fails at once makes a directory of
  the repository: the manifest then lists what git ignores. A temporary file that a
  killed command left is listed by the next manifest. The manifest is renamed
  without an fsync.
- In the ratchet, a teardown failure replaces the call's failure of the same
  test; a log that was cut at a line, or an earlier job's, is judged as it is; a
  quarantined test that is skipped leaves a stale entry; equal usages of
  `PacketEnvelope` in one file are one finding, and none is ever "changed".
  Waivers are looked at by no comparison.
- In governance, a demotion needs the evidence of a promotion; evidence is not
  bound to the mode it was collected in; an explicit null in a ranked field ends
  `compare_authority` with a KeyError; without the digest or the hashes,
  attestation compares names of actions only, and no age is checked; two tracked
  hash paths that normalise to one are one, the last.
- In the self CI, a classifier that fails leaves `diff_unknown` false, so the
  scan is skipped and the gate passes; a cancelled run's gate passes; gitleaks
  that dies counts no finding; a run by hand looks at the last commit only; the
  summary's result for secrets ignores the modes; the marker is looked for on
  the first page of comments only; on a fork the bot succeeds and leaves the head
  as it was, with a patch beside it; and a push with the workflow's token starts
  no run, against the comment at `l9-manifest-reconcile.yml:122`. The properties
  of `PullRequest` state these limits.

## 5. The proofs

| module | theorems |
|---|---|
| `GateProofs` | `VerdictCorrectness`, `FailClosed`, `TypeCorrectness` |
| `PipelineProofs` | `TypeCorrectness`, `CoverageCorrectness`, `ErrorExitCorrectness`, `StrictCorrectness`; on fresh machines `OwnScanCorrectness`, `CleanBundleCorrectness` |
| `AtomicWriteProofs` | `TypeCorrectness`, `WholeDestination`, `NoTempLeft`, `HonestOutcome`, `Refinement` |
| `WorkingTreeProofs` | `WholeManifest`, `PassedCorrectness`, `SnapshotCorrectness`, `IdempotenceCorrectness` |
| `ConsumersProofs` | `PassedCorrectness`, `FailedCorrectness`, `MandatoryCorrectness`, `AgreementOfReaders`, `ExitCorrectness` |
| `BaselineProofs` | `PassCorrectness`, `OrderCorrectness`, `RemovalCorrectness`; of the ratchets `DebtCorrectness`, `LogCorrectness`, `RatchetCorrectness` |
| `PullRequestProofs` | `FreshnessCorrectness`, `NoCommitLostCorrectness`, `EveryHeadIsJudged`, `ScanCorrectness`, `ClassCorrectness`, `AgreementCorrectness`, `CommentCorrectness` |
| `GovernedNodeProofs` | `PassCorrectness`, `NoFalseAlarmCorrectness`, `AuthorityCorrectness`, `EligibilityCorrectness` |

Every invariant and every action property that a passing run checks is stated by
one of these theorems. They hold for every value of the constants that the named
assumptions admit: `BoundsAssumption`, `PipelineAssumption`, `WriterAssumption`,
`TreeAssumption`, `ConsumersAssumption`, `ComparisonAssumption`,
`QuarantineAssumption`, `LogAssumption`, `EnvelopeAssumption`,
`PullRequestAssumption`, `TaxonomyAssumption`, `ConstitutionAssumption`,
`PolicyAssumption`, `PartsAssumption`. TLC evaluates each of them in a run.

*Gate.* Each set `evaluate_gate` builds is empty exactly when no single record
has the defect it stands for (`UnclassifiedMeans`, `FailuresMean`,
`UncoveredMeans`, `ModesMean`). Only the third needs the validator: the coverage
map holds the last record of a provider, and uniqueness makes it the only one
(`CoverageIsFound`). The case analysis of `GateStatus` then equals the
reference's. `FailClosed` follows because these sets only grow with the records
(`MoreRecordsDoNotHelp`) and an append only adds one (`AppendsGrow`).

*Pipeline.* `TypeInv` adds to the type that a step finds its inputs
(`StepHasInputs`): without it, publishing a bundle from no normalization would
have no type. `CompleteCoverageIsEarned` is about the file, but what it says was
established several steps earlier and by different calls. `CoverageInv` carries
it along: past `Detect` the version is settled (`VersionIsSettled`), nothing is
normalized before `Import` or a failure (`NotYetNormalized`), and a
normalization claims completeness only with a report behind it
(`NormalizationIsEarned`). No assumption on the workspace is needed.
`ErrorExitPublishesNothing` does not say that publication comes with status `ok`
and that nothing takes that back; `StatusInv` does, and is inductive.
`StrictBundleIsDecided` is about the bundle, and `Assemble` decided before it
was written: `StrictInv` says that what a job is about to publish is still what
it accepted, for nothing it was judged by changes.

*Fresh machines.* INV-008 ("Required provider failures never become PASS") and
its counterpart for optional runs are false on a reused workspace (section 4)
and proved under the assumption `FreshWorkspace`. `FreshInv` has three parts.
`MachineInv`: one job runs at a time, every report file is its own, and no other
semgrep is alive, although a killed job leaves its semgrep running. `RouteInv`:
a report that parses was written to its end, and `Import` is reached under
execution only after a good exit. `ClaimInv`: what a normalization, a bundle and
a verdict say rests on these facts, and they last (`ClaimsStand`). Most steps
change no file and no process and are one lemma (`QuietStepFresh`). The gate's
step uses `PassNeedsCoverage`, a lemma on `GateStatus`, and then the coverage
invariant of `PipelineProofs`.

*Atomic write.* `DestinationIsWhole` alone is not inductive. `IInv` adds that
`os.replace` comes after the fsync (`ReplacesSynced`), that whatever the
destination may refer to, now or after a crash, has been published
(`DestinationIsPublished`), and that published files are on disk
(`PublishedIsSynced`). A cleanup that fails still had its name, and who has its
name has not replaced anything (`StepKnowsPublication`, `TempKnown`). The
refinement uses it to show that the mapped value is the destination itself; then
`Replace` is the register's `Publish`, a crash is its `Lose`, and every other
step is a stutter.

*Working tree.* `TornOnlyByOverlap` is about the manifest, but what a reader
finds was decided by the command that wrote the temporary file. The invariant
`AloneInv` says that without overlap at most one command has that file open,
that nobody has the manifest open, that the file is empty while it is about to
be written and whole once it is about to be moved; `WritersHold`, that who
writes has it open. Reading steps, and the endings by error or kill, are one
lemma (`CalmKeeps`). Nothing is assumed of the developers except that they leave
the two files alone.

*Inspections.* Three to six answers of git, one after another, are no snapshot.
`SeenInv` says what each answer is still worth to a command that nothing
disturbed: HEAD is what it was told, the dirty flag is right, and, past the
cleanliness check, the tree is the commit and the list of the second inspection
exactly the tracked files. A step that changes the repository disturbs every
other running command (`OthersAreDisturbed`); a step that changes nothing keeps
what they know. Two theorems then read the conclusion off the last step. The
third, `GenerationIsIdempotent`, is about a command that changes the tree itself:
`KnowsInv` says that until a writer opens the temporary file its list is the one a
second command would make, that from then on it is so but for that file, and that
the file holds that list when it is moved. The move takes the temporary file out
of the tree again, so the second list is the first but for the manifest, which
no manifest lists.

*Consumers.* What an answer says is true of the document that was read, which
may be gone. `ReadInv` has a part for the commands and one for the files.
`CommandOK` carries what a command found in its document from the read to its
end; `FileOK` says that an observation whose address is still that of its content
is what a command wrote, for an alteration changes the content and not the
address. `Honest` is what holds of an observation wherever it is found, `Rejects`
of a failed one whose document was not replaced meanwhile. Addresses of two kinds
never meet, and each determines what it is of (`AddressesDiffer`).
`PassIsHarmless` is the lemma on `GateStatus` behind `ReadersAgree`;
`MandatoryCounts` adds up the groups of a mandatory observation, which is why
the model counts findings as the cardinality of their occurrences.

*Baseline.* Every set that `compare` builds goes through the index of the first
entry of a fingerprint. In a ledger without repeated ids and fingerprints the
index is the ledger (`IndexIsLedger`). A pass then means `CoveredAndNeeded`
(`PassMeans`): a ledger that loads without a flaw (`LoadingIsSound`) and repeats
no fingerprint; every finding occurs once and has an unexpired entry; every entry
still has a finding, of its fingerprint or its identity. That does not mention
the order, so a permutation of ledger or findings keeps it (`PermutedIsCovered`).
Without the entries suggested for removal, every other violation is reported as
before and nothing is left over (`RemovalMeans`).

*Ratchets.* Both jobs compare what an earlier step left on the machine, which
may be another job's, so both invariants say what any such file looks like.
`EnvelopeInv` says that a findings document, whoever wrote it, is one a scan can
write; the comparison reads it, and the ledger, as a list of a finite set in
some order (`SetToSeqMeans`), which loses and repeats nothing. `FindingsMean`
says what the scan of the files at hand finds. The proof needed that the rule
name of the declaration is no path and that a readable file is among the forms a
file may take; `EnvelopeAssumption` now says so. `QuarantineInv` says the same
of the report log (a part of a log is a log, `PartOfALog`) and that the ledger
is a finite set of entries; `FailuresMean` says which failures a log reports.
`PassingRunMeans` then reads a pass off `CoveredAndNeeded`: an entry whose
failure is not in the log has a failure of its test there. For
`DebtMovesOnlyByEdits`, `AcceptedInv` adds that the tests of what the last
passing run accepted are those of the ledger until a human edits it.

*Pull request.* `IdleBotLeavesFresh` is not inductive: `IInv` adds that the
latest event a running bot was told of is of the head unless the head is fresh
(`LatestIsTip`), and that
only a run with a successor is cancelled, so that a cancelled run is never the
last word. `NoCommitLost` needs only that the push is not forced and that the
branch is a sequence. What a check says is true of its head because what a run
collected is true (`Earned`), and stays so while the branch grows: `JudgeInv`,
from which `ScannedSecretsBlock`, `ClassIsEarned` and `SummaryAgreesWithGate`
are read off. That a head is judged at all is `JudgedOrDue`: either it was, or
the last run to come is of it. `OneCurrentComment` needs the order between runs
(`CommentInv`): only a run of the pull request writes, it is of a head no older
than any that was judged, the comment it found is still there when it writes,
and it has written when it comes to its gate. The least element of a set of
naturals (`LeastNatural`) stands for the first match of the classifier's and the
comment script's loops. The proof also found two overlapping guards in the
translation of the classifier, which is now an IF/ELSE, as in the code.

*Governed node.* A verdict is reached from an attestation, and the attestation
from what the node ran; both may be old. `NodeInv` ties the attestation to the
runtime, and the verdict to both, until something moved; then
`CompareAttestation` is taken apart one outcome at a time (`PassConforms` and
its counterpart for a failure). `AuthorityIsTraced` holds over any number of
amendments: `TraceInv` says of every action that it was reported as added, or
that each field of it is no stronger than at the origin unless that was reported
and each collection lost nothing unreported; it is kept because the ranks are
ordered (`NotStrongerIsTransitive`). An eligible node stays
eligible because a window that is whole has a run in it, so that one that is
restarted has fewer (`WindowOK`), and because its days are a quotient that grows
with it (`QuotientIsMonotonic`); `PolicyAssumption` says that the thresholds of a
complete policy are natural numbers, as `evaluate_promotion` demands.

Only model-checked. Liveness (`StartedJobEnds`, `UntouchedExceptionBlocks`) is
out of the prover's reach, and so is induction over data: that the log of a
suite is a sequence in which only `CollectReport` and `TestReport` records fail, a
fact about the recursive `FlattenSeq`, is `LogAssumption`, which TLC
evaluates for the suites of the run.

## 6. Not modelled, and what is left

- The JSON schemas, version compatibility and summary counts of artifacts, the
  canonical JSON form, texts, paths and digests: formatting and data, assumed to
  accept what the SDK wrote. Digests are the content they name.
- Packaged rulesets and the lookup of their paths: data.
- The order in which the identity resolver tries its maps, remediation classes,
  provider selection, execution profiles and the capability report: pure
  functions of configuration whose results no modelled command distinguishes.
- The governance report validator and the redaction patterns: scans of strings.
- The advisory jobs, the package workflows and the lint scripts: straight-line
  shell or stateless checks.
- The output file of a comparison, the size limit of an imported report, and an
  unreadable policy file, which end a command like the errors that are modelled.
- On GitHub: movements of the base branch, forced pushes of the developer, a change
  of the token's rights, and a bot commit from a run dispatched by hand.
- In the checkout: files that git ignores, a crash of the machine, and a failure of
  git that differs from command to command within one look at HEAD.
- In governance: the identity of a node (one node is followed), and what a caller
  does with an eligible result.
- The snapshot identity of a bundle (`pipeline/semgrep.py:94`) is derived before
  the scan and nothing ties the two: the hazard is listed without a property, as
  is the collapsing of equal usages (`packet_envelope.py:208`).

Left to prove: `TypeOK` of the modules whose invariants carry only the parts of it
their proofs need.
