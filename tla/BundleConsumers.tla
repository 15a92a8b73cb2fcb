--------------------------- MODULE BundleConsumers ---------------------------
(***************************************************************************)
(* The commands that read a finding bundle and say something of it: `bundle *)
(* validate`, the agent payload, SARIF, the gate, and the observations for  *)
(* Assurance.  A pipeline may replace the bundle at any moment (whole, as   *)
(* in AtomicWrite); a command reads it once, or twice when it did not load; *)
(* the outputs are written in place, and a reused workspace keeps them.     *)
(* External: the pipeline, Assurance, and what happens to a file in storage. *)
(***************************************************************************)
EXTENDS GateRules, FiniteSets

CONSTANTS
    Commands,    \* processes
    Uses,        \* per process: the commands it may run
    Documents,   \* what may be at the bundle's path
    Revisions    \* full commit identifiers

Kinds == {"validate", "agent", "sarif", "gate", "mandatory", "sdk", "build"}

Severities == {"critical", "high", "medium", "low", "informational", "unknown", "none"}

(* A missing or unreadable file, one that is not JSON, one of another JSON *)
(* type than the readers expect, or a bundle.  "leak" says what redaction  *)
(* would find: in a finding, or in a part of the bundle nobody projects.   *)
DocumentType ==
    [ form : {"missing", "unreadable", "garbage", "misshapen", "bundle"},
      revision : Revisions \cup {"none"},
      leak : {"none", "finding", "elsewhere"},
      providers : Seq(ProviderRuns({"semgrep"})),
      coverage  : Seq(Coverages({"semgrep"})),
      failures  : Seq(Failures({"semgrep"})),
      findings  : Seq([finding_id : STRING, intact : BOOLEAN, severity : Severities,
                       canonical : BOOLEAN]),
      classes   : Seq(Classifications(STRING)) ]

ASSUME ConsumersAssumption ==
    /\ Uses \in [Commands -> SUBSET Kinds]
    /\ Documents \subseteq DocumentType

VARIABLES
    input,     \* file: the document at the bundle's path
    output,    \* per process: the file at its output path
    cmd        \* per process: the state of its command

vars == <<input, output, cmd>>

-----------------------------------------------------------------------------
(* load_and_validate_bundle, and what it raises otherwise.                 *)
Loads(d) == d.form = "bundle" /\ ValidBundle(d)

Raises(d) ==
    CASE d.form = "missing" -> "FileNotFoundError"
      [] d.form = "unreadable" -> "OSError"
      [] d.form = "misshapen" -> "TypeError"
      [] OTHER -> "ValueError"

(* classify_exception: the exits an exception may have.  Those of a        *)
(* ValueError depend on whether its text, which may quote the document,    *)
(* has the words "strict" or "unresolved"; texts are not modelled.         *)
ErrorExits(exception) ==
    CASE exception = "FileNotFoundError" -> {"ARTIFACT_VALIDATION_FAILURE"}
      [] exception = "ValueError" -> {"ARTIFACT_VALIDATION_FAILURE", "UNRESOLVED_STRICT_CONTRACT"}
      [] OTHER -> {"INTERNAL_ERROR"}

(* Content addresses: of the content, with the lists as sets (the time of  *)
(* generation, which is left out of both, is not modelled), or of the bytes. *)
Canonical(d) ==
    <<"canonical", d.revision, d.leak, Elems(d.providers), Elems(d.coverage),
      Elems(d.failures), Elems(d.findings), Elems(d.classes)>>

Raw(d) == <<"raw", d>>

NoDigest == <<"none">>

-----------------------------------------------------------------------------
(* project_agent_review_payload: the buckets, by the mode of a finding.     *)
(* Mutant: a finding nobody classified is an advisory one.                 *)
AdvisoryUnlessClassified(b, f) ==
    IF \E c \in Elems(b.classes) : c.finding_id = f
    THEN (CHOOSE c \in Elems(b.classes) : c.finding_id = f).mode
    ELSE "advisory"

ModeOf(b, f) ==
    IF \E c \in Elems(b.classes) : c.finding_id = f
    THEN (CHOOSE c \in Elems(b.classes) : c.finding_id = f).mode
    ELSE "unresolved"

Bucket(b, mode) == {f \in FindingIdsIn(b.findings) : ModeOf(b, f) = mode}

AgentPayload(b) ==
    [kind |-> "agent",
     buckets |-> [mode \in RuleModes |-> Bucket(b, mode)],
     failures |-> Elems(b.failures)]

(* project_sarif_log: the level of every result.                           *)
Level(severity) ==
    CASE severity \in {"critical", "high"} -> "error"
      [] severity \in {"low", "informational"} -> "note"
      [] OTHER -> "warning"

AtLevel(b, level) == {f.finding_id : f \in {g \in Elems(b.findings) : Level(g.severity) = level}}

SarifLog(b) ==
    [kind |-> "sarif",
     results |-> [level \in {"error", "warning", "note"} |-> AtLevel(b, level)]]

(* What the strict projections, and redaction after them, refuse.          *)
StrictRefusal(kind, b) ==
    \/ kind = "agent" /\ Bucket(b, "unresolved") # {}
    \/ kind = "sarif" /\ \E f \in Elems(b.findings) : ~f.canonical

-----------------------------------------------------------------------------
(* build_observation: a check, the revision it is about, a status, the     *)
(* counts of the summary, and the artifact that was looked at.             *)
Observation(check, revision, status, counts, artifact) ==
    [kind |-> check, revision |-> revision, status |-> status, counts |-> counts,
     artifact |-> artifact]

NoCounts == [findings |-> 0, error |-> 0, warning |-> 0, informational |-> 0]

Buildable(o) ==
    /\ o.revision \in Revisions
    /\ o.counts.findings = o.counts.error + o.counts.warning + o.counts.informational

Occurrences(b, severities) ==
    Cardinality({i \in DOMAIN b.findings : b.findings[i].severity \in severities})

(* Mutant: the failures of the providers are not counted.                  *)
CountsOfFindings(b) ==
    [findings |-> Len(b.findings),
     error |-> Occurrences(b, {"critical", "high"}),
     warning |-> Occurrences(b, {"medium", "low"}),
     informational |-> Occurrences(b, {"informational"})]

(* project_mandatory_findings_observation: a failure counts as an error,   *)
(* but is no finding.                                                      *)
Counts(b) ==
    [findings |-> Len(b.findings),
     error |-> Len(b.failures) + Occurrences(b, {"critical", "high"}),
     warning |-> Occurrences(b, {"medium", "low"}),
     informational |-> Occurrences(b, {"informational"})]

Mandatory(b) ==
    Observation("mandatory", b.revision, IF b.failures = <<>> THEN "passed" ELSE "error",
                Counts(b), Canonical(b))

MandatoryRefused(b, revision) ==
    \/ revision # "none" /\ revision # b.revision
    \/ b.revision = "none"
    \/ \E f \in Elems(b.findings) : f.severity \in {"unknown", "none"}
    \/ ~Buildable(Mandatory(b))

Sdk(revision, passed, artifact) ==
    Observation("sdk", revision, IF passed THEN "passed" ELSE "failed", NoCounts, artifact)

-----------------------------------------------------------------------------
(* handle_evaluate.                                                        *)
GateResult(b, strict) == [kind |-> "gate", status |-> GateStatus(b, strict)]

GateExit(status) ==
    CASE status = "pass" -> "SUCCESS"
      [] status = "fail" -> "GATE_FAILURE"
      [] status = "incomplete" -> "UNRESOLVED_STRICT_CONTRACT"
      [] OTHER -> "ARTIFACT_VALIDATION_FAILURE"

Exits == {"none", "SUCCESS", "GATE_FAILURE", "ARTIFACT_VALIDATION_FAILURE",
          "UNRESOLVED_STRICT_CONTRACT", "INTERNAL_ERROR"}

(* What is at an output path: nothing, a file that is not whole, or an     *)
(* answer.  The identity of an observation is the address of its content.  *)
File(form, answer) == [form |-> form, answer |-> answer, id |-> answer]

NoAnswer == [kind |-> "none"]

Requests ==
    [kind : Kinds, strict : BOOLEAN, revision : Revisions \cup {"none", "short"},
     status : {"none", "passed", "failed"}]

NoRequest == [kind |-> "validate", strict |-> FALSE, revision |-> "none", status |-> "none"]

(* "read" is what a command has loaded: nothing yet, or one document;      *)
(* "replaced" says that the document changed before its second read.       *)
Command(pc, request) ==
    [pc |-> pc, request |-> request, read |-> <<>>, answer |-> NoAnswer, exit |-> "none",
     replaced |-> FALSE]

Init ==
    /\ input \in Documents
    /\ output = [c \in Commands |-> File("absent", NoAnswer)]
    /\ cmd = [c \in Commands |-> Command("idle", NoRequest)]

(* The pipeline, or a clean-up, puts another document at the path.         *)
ReplaceInput ==
    /\ input' \in Documents \ {input}
    /\ cmd' = [c \in Commands |->
                [cmd[c] EXCEPT !.replaced = @ \/ cmd[c].pc = "digest"]]
    /\ UNCHANGED output

(* The arguments a kind of command has; those that are not well-formed end *)
(* a command before it reads anything and are left out.                    *)
Arguments(r) ==
    /\ r.strict => r.kind \in {"agent", "sarif", "gate"}
    /\ r.revision # "none" => r.kind \in {"mandatory", "sdk", "build"}
    /\ r.status # "none" <=> r.kind = "build"

Start(c) ==
    /\ cmd[c].pc = "idle"
    /\ \E r \in Requests :
        /\ r.kind \in Uses[c]
        /\ Arguments(r)
        /\ cmd' = [cmd EXCEPT ![c] = Command("load", r)]
    /\ UNCHANGED <<input, output>>

Ends(c, read, exit) ==
    cmd' = [cmd EXCEPT ![c].pc = "idle", ![c].read = read, ![c].exit = exit,
                       ![c].replaced = FALSE]

Answers(c, read, answer) ==
    cmd' = [cmd EXCEPT ![c].pc = "open", ![c].read = read, ![c].answer = answer]

Reads(c, pc) == cmd[c].pc = pc /\ UNCHANGED <<input, output>>

(* observation build: the caller's status, no findings, no artifact.       *)
Build(c) ==
    /\ Reads(c, "load")
    /\ cmd[c].request.kind = "build"
    /\ \E check \in {"sdk", "tests"} :
         LET o == Observation(check, cmd[c].request.revision, cmd[c].request.status,
                              NoCounts, NoDigest)
         IN  IF Buildable(o) THEN Answers(c, <<>>, o)
             ELSE Ends(c, <<>>, "ARTIFACT_VALIDATION_FAILURE")

(* The projections and the gate: one read, then memory only.               *)
Project(c) ==
    LET r == cmd[c].request
        d == input
    IN  /\ Reads(c, "load")
        /\ r.kind \in {"validate", "agent", "sarif", "gate", "mandatory"}
        /\ CASE ~Loads(d) -> \E exit \in ErrorExits(Raises(d)) : Ends(c, <<d>>, exit)
             [] Loads(d) /\ r.kind = "validate" ->
                  Ends(c, <<d>>, IF d.leak = "none" THEN "SUCCESS"
                                 ELSE "ARTIFACT_VALIDATION_FAILURE")
             [] Loads(d) /\ r.kind \in {"agent", "sarif"} ->
                  IF r.strict /\ StrictRefusal(r.kind, d)
                  THEN Ends(c, <<d>>, "UNRESOLVED_STRICT_CONTRACT")
                  ELSE IF d.leak = "finding"
                  THEN Ends(c, <<d>>, "ARTIFACT_VALIDATION_FAILURE")
                  ELSE Answers(c, <<d>>, IF r.kind = "agent" THEN AgentPayload(d)
                                         ELSE SarifLog(d))
             [] Loads(d) /\ r.kind = "gate" -> Answers(c, <<d>>, GateResult(d, r.strict))
             [] Loads(d) /\ r.kind = "mandatory" ->
                  IF MandatoryRefused(d, r.revision)
                  THEN Ends(c, <<d>>, "ARTIFACT_VALIDATION_FAILURE")
                  ELSE Answers(c, <<d>>, Mandatory(d))

(* An sdk observation is built, or refused for its revision.               *)
Records(c, read, passed, artifact) ==
    LET o == Sdk(cmd[c].request.revision, passed, artifact)
    IN  IF Buildable(o) THEN Answers(c, read, o)
        ELSE Ends(c, read, "ARTIFACT_VALIDATION_FAILURE")

(* Mutant: a bundle of another revision is a failed one.                   *)
ValidateMismatchFails(c) ==
    /\ Reads(c, "load")
    /\ cmd[c].request.kind = "sdk"
    /\ cmd[c].request.revision # "none"
    /\ Loads(input)
    /\ Records(c, <<input>>,
               input.leak = "none" /\ input.revision = cmd[c].request.revision,
               Canonical(input))

(* project_sdk_validation_observation: a bundle that loads is judged, and  *)
(* its address taken, in memory.  One of another revision is an error.     *)
ValidateLoaded(c) ==
    /\ Reads(c, "load")
    /\ cmd[c].request.kind = "sdk"
    /\ cmd[c].request.revision # "none"
    /\ Loads(input)
    /\ IF input.revision # cmd[c].request.revision
       THEN Ends(c, <<input>>, "ARTIFACT_VALIDATION_FAILURE")
       ELSE Records(c, <<input>>, input.leak = "none", Canonical(input))

(* A missing --revision is an error; so is what only a defect would raise; *)
(* any other file that does not load fails validation.                     *)
ValidateUnloadable(c) ==
    /\ Reads(c, "load")
    /\ cmd[c].request.kind = "sdk"
    /\ \/ /\ cmd[c].request.revision = "none"
          /\ Ends(c, <<>>, "ARTIFACT_VALIDATION_FAILURE")
       \/ /\ cmd[c].request.revision # "none"
          /\ ~Loads(input)
          /\ IF Raises(input) = "TypeError" THEN Ends(c, <<input>>, "INTERNAL_ERROR")
             ELSE cmd' = [cmd EXCEPT ![c].pc = "digest", ![c].read = <<input>>]

(* _validated_input_digest of what did not load reads the path again.      *)
Digest(c) ==
    /\ Reads(c, "digest")
    /\ Records(c, cmd[c].read, FALSE,
               IF input.form \in {"missing", "unreadable"} THEN NoDigest ELSE Raw(input))

-----------------------------------------------------------------------------
(* The writers: parents made, the file opened, its content written.        *)

Success(c) ==
    IF cmd[c].request.kind = "gate" THEN GateExit(cmd[c].answer.status) ELSE "SUCCESS"

Open(c) ==
    /\ cmd[c].pc = "open"
    /\ output' = [output EXCEPT ![c] = File("torn", NoAnswer)]
    /\ cmd' = [cmd EXCEPT ![c].pc = "write"]
    /\ UNCHANGED input

(* Mutant: the answer that is there already is kept.                       *)
WriteOnce(c) ==
    /\ cmd[c].pc = "write"
    /\ output' = IF output[c].form = "torn" THEN output
                 ELSE [output EXCEPT ![c] = File("whole", cmd[c].answer)]
    /\ Ends(c, cmd[c].read, Success(c))
    /\ UNCHANGED input

Write(c) ==
    /\ cmd[c].pc = "write"
    /\ output' = [output EXCEPT ![c] = File("whole", cmd[c].answer)]
    /\ Ends(c, cmd[c].read, Success(c))
    /\ UNCHANGED input

(* An I/O error.  The gate writes outside its try: Python ends with 1.     *)
WriteFails(c) ==
    /\ \E pc \in {"open", "write"} : Reads(c, pc)
    /\ Ends(c, cmd[c].read,
            IF cmd[c].request.kind = "gate" THEN "GATE_FAILURE" ELSE "INTERNAL_ERROR")

Kill(c) ==
    /\ cmd[c].pc # "idle"
    /\ Ends(c, <<>>, "none")
    /\ UNCHANGED <<input, output>>

-----------------------------------------------------------------------------
IsObservation(answer) == answer.kind \in {"sdk", "mandatory", "tests"}

(* In storage, or in transit, the status of an observation changes.        *)
Alter(c) ==
    /\ output[c].form = "whole"
    /\ IsObservation(output[c].answer)
    /\ output[c].answer.status # "passed"
    /\ output' = [output EXCEPT ![c].answer.status = "passed"]
    /\ UNCHANGED <<input, cmd>>

(* Mutant: the schema is all that is validated.                            *)
ConformsToSchema(file) == file.form = "whole" /\ IsObservation(file.answer)

(* validate_observation.                                                   *)
ValidObservation(file) ==
    file.form = "whole" /\ IsObservation(file.answer) /\ file.id = file.answer

Step(c) ==
    \/ Build(c) \/ Project(c) \/ ValidateLoaded(c) \/ ValidateUnloadable(c) \/ Digest(c)
    \/ Open(c) \/ Write(c) \/ WriteFails(c) \/ Kill(c)

Next ==
    \/ ReplaceInput
    \/ \E c \in Commands : Start(c) \/ Step(c) \/ Alter(c)

Spec == Init /\ [][Next]_vars

-----------------------------------------------------------------------------
AnswerKinds == {"none", "agent", "sarif", "gate", "sdk", "mandatory", "tests"}

TypeOK ==
    /\ input \in Documents
    /\ \A c \in Commands :
        /\ output[c].form \in {"absent", "torn", "whole"}
        /\ output[c].answer.kind \in AnswerKinds
        /\ cmd[c].pc \in {"idle", "load", "digest", "open", "write"}
        /\ cmd[c].request \in Requests
        /\ cmd[c].read = <<>> \/ \E d \in Documents : cmd[c].read = <<d>>
        /\ cmd[c].answer.kind \in AnswerKinds
        /\ cmd[c].exit \in Exits
        /\ cmd[c].replaced \in BOOLEAN

(* What Assurance may take for evidence: files that validate as            *)
(* observations and name the artifact they are about.                      *)
Evidence(kind) ==
    {output[c].answer : c \in {e \in Commands :
        /\ ValidObservation(output[e])
        /\ output[e].answer.kind = kind
        /\ output[e].answer.artifact # NoDigest}}

(* "something actually checked" (observations.py:229): an sdk-validation   *)
(* that says "passed" of an artifact is about a bundle of that revision    *)
(* that loads and is redacted, although the bundle may be replaced while   *)
(* the command runs, and the observation altered after it.                 *)
PassedIsValidated ==
    \A o \in Evidence("sdk") :
        o.status = "passed" =>
            \E d \in Documents :
                /\ o.artifact \in {Canonical(d), Raw(d)}
                /\ Loads(d)
                /\ d.leak = "none"
                /\ d.revision = o.revision

(* "the observation still says exactly which file was rejected"            *)
(* (observations.py:338), with its limit: the file a failed observation    *)
(* names is one that fails, of its revision if it has any, unless it was   *)
(* replaced between the two reads.                                        *)
FailedNamesWhatFailed ==
    \A c \in Commands :
        /\ cmd[c].pc \in {"open", "write"}
        /\ cmd[c].answer.kind = "sdk"
        /\ cmd[c].answer.status = "failed"
        /\ cmd[c].answer.artifact # NoDigest
        /\ ~cmd[c].replaced
        => \A d \in Documents :
              cmd[c].answer.artifact \in {Canonical(d), Raw(d)} =>
                  /\ ~Loads(d) \/ d.leak # "none"
                  /\ Loads(d) => d.revision = cmd[c].answer.revision

(* Evidence of mandatory findings is complete: it is about a bundle of its *)
(* revision in which no provider failed, and it counts every finding once, *)
(* the errors being those that SARIF calls errors.                         *)
MandatoryIsComplete ==
    \A o \in Evidence("mandatory") :
        \E d \in Documents :
            /\ o.artifact = Canonical(d)
            /\ d.revision = o.revision
            /\ o.status = "passed"
            /\ d.failures = <<>>
            /\ o.counts.error = Cardinality(AtLevel(d, "error"))
            /\ o.counts.error + o.counts.warning + o.counts.informational
                 = Cardinality(FindingIdsIn(d.findings))

(* The readers of one bundle tell no different stories: what the gate      *)
(* passes under --strict-unresolved has nothing blocking or unresolved for *)
(* the agents, and the strict agent payload refuses exactly what the gate  *)
(* calls invalid or finds unresolved.  (Of a bundle that loads: the exit   *)
(* of a strict refusal may also be that of an error, see ErrorExits.)      *)
ReadersAgree ==
    \A c \in Commands : \A d \in Documents :
        cmd[c].pc = "idle" /\ cmd[c].read = <<d>> =>
            /\ cmd[c].answer = [kind |-> "gate", status |-> "pass"] /\ cmd[c].request.strict =>
                  /\ AgentPayload(d).buckets["blocking"] = {}
                  /\ ~StrictRefusal("agent", d)
                  /\ \A f \in AgentPayload(d).failures : ~f.required
            /\ cmd[c].request.kind = "agent" /\ cmd[c].exit = "UNRESOLVED_STRICT_CONTRACT"
               /\ Loads(d) =>
                  GateStatus(d, TRUE) # "pass"
            /\ cmd[c].request.kind = "agent" /\ cmd[c].request.strict
               /\ cmd[c].exit = "SUCCESS" =>
                  /\ GateStatus(d, TRUE) # "invalid"
                  /\ GateStatus(d, TRUE) = GateStatus(d, FALSE)

(* An exit code speaks of the file: a command that ends with 0 leaves a    *)
(* whole file, and a gate that ends with 0 leaves one that says pass of    *)
(* the bundle it read.  After any other code the file may be an old one.   *)
ExitTellsFile ==
    [][\A c \in Commands :
        /\ cmd[c].pc \notin {"idle", "load"}
        /\ cmd'[c].pc = "idle"
        /\ cmd'[c].exit = "SUCCESS"
        => /\ output'[c].form = "whole"
           /\ output'[c].answer = cmd[c].answer
           /\ cmd[c].request.kind = "gate" =>
                GateStatus(cmd[c].read[1], cmd[c].request.strict)
                    = output'[c].answer.status]_vars
=============================================================================
