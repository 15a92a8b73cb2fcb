--------------------------- MODULE ConsumersProofs ---------------------------
(***************************************************************************)
(* Proofs about BundleConsumers, for any number of commands and any        *)
(* documents that come and go at the path of the bundle: what an answer,   *)
(* an observation or an exit code says is true of the document that was    *)
(* read.  The invariant carries what a command found in its document from  *)
(* its read to its end (CommandOK), and from there to the file (FileOK).   *)
(***************************************************************************)
EXTENDS BundleConsumers, FiniteSetTheorems, TLAPS

IsCommand(s) ==
    s = [pc |-> s.pc, request |-> s.request, read |-> s.read, answer |-> s.answer,
         exit |-> s.exit, replaced |-> s.replaced]

(* What is true of an observation wherever it is found.                    *)
Honest(a) ==
    /\ IsObservation(a) => "status" \in DOMAIN a
    /\ a.kind = "sdk" /\ a.status = "passed" /\ a.artifact # NoDigest =>
         \E d \in Documents :
            /\ a.artifact = Canonical(d)
            /\ Loads(d) /\ d.leak = "none" /\ d.revision = a.revision
    /\ a.kind = "mandatory" =>
         \E d \in Documents :
            Loads(d) /\ a = Mandatory(d) /\ ~MandatoryRefused(d, "none")

(* A failed observation of a document that did not change in between.      *)
Rejects(a) ==
    a.kind = "sdk" /\ a.status = "failed" /\ a.artifact # NoDigest =>
        \E d \in Documents :
            \/ a.artifact = Raw(d) /\ ~Loads(d)
            \/ /\ a.artifact = Canonical(d)
               /\ d.leak # "none" /\ d.revision = a.revision

(* What a gate or an agent payload was made of.                            *)
GateOf(s, d) ==
    Loads(d) /\ s.request.kind = "gate" /\ s.answer = GateResult(d, s.request.strict)

AgentOf(s, d) ==
    /\ Loads(d)
    /\ s.request.strict => Bucket(d, "unresolved") = {}

Writing == {"open", "write"}

CommandOK(s) ==
    /\ Honest(s.answer)
    /\ s.pc = "load" => s.answer = NoAnswer
    /\ s.pc = "digest" => s.answer = NoAnswer
    /\ s.pc = "digest" => s.request.kind = "sdk"
    /\ s.pc = "digest" /\ ~s.replaced => ~Loads(input)
    /\ s.pc \in Writing /\ ~s.replaced => Rejects(s.answer)
    /\ s.answer.kind = "gate" => \A d : s.read = <<d>> => GateOf(s, d)
    /\ s.pc \in Writing /\ s.request.kind = "gate" =>
         \E d : s.read = <<d>> /\ GateOf(s, d)
    /\ s.pc \in Writing /\ s.request.kind = "agent" => \E d : s.read = <<d>> /\ AgentOf(s, d)
    /\ s.pc = "idle" /\ s.request.kind = "agent" /\ s.exit = "SUCCESS" =>
         \A d : s.read = <<d>> => AgentOf(s, d)
    /\ s.pc = "idle" /\ s.request.kind = "agent" /\ s.exit = "UNRESOLVED_STRICT_CONTRACT" =>
         \A d : s.read = <<d>> /\ Loads(d) => StrictRefusal("agent", d)

(* An altered observation is not valid: only a status that is not "passed" *)
(* is altered, so that what was altered once is not altered back.          *)
FileOK(f) ==
    f.form = "whole" =>
        /\ IsObservation(f.answer) => f.id = f.answer \/ f.answer.status = "passed"
        /\ f.id = f.answer => Honest(f.answer)

CommandsInv ==
    /\ input \in Documents
    /\ cmd = [c \in Commands |-> cmd[c]]
    /\ \A c \in Commands :
         IsCommand(cmd[c]) /\ cmd[c].request \in Requests /\ CommandOK(cmd[c])

FilesInv ==
    /\ output = [c \in Commands |-> output[c]]
    /\ \A c \in Commands :
        /\ output[c] = [form |-> output[c].form, answer |-> output[c].answer,
                        id |-> output[c].id]
        /\ FileOK(output[c])

ReadInv == CommandsInv /\ FilesInv

-----------------------------------------------------------------------------
(* Addresses of two kinds never meet, and each determines what it is of.   *)
LEMMA AddressesDiffer ==
    /\ \A d, e : Canonical(d) # Raw(e)
    /\ \A d : Canonical(d) # NoDigest /\ Raw(d) # NoDigest
    /\ \A d, e : Raw(d) = Raw(e) => d = e
    /\ \A d, e : Canonical(d) = Canonical(e) => d.leak = e.leak /\ d.revision = e.revision
<1>1. \A d, e : Canonical(d)[1] = "canonical" /\ Raw(e)[1] = "raw" /\ NoDigest[1] = "none"
  BY DEF Canonical, Raw, NoDigest
<1>2. \A d : Canonical(d)[2] = d.revision /\ Canonical(d)[3] = d.leak /\ Raw(d)[2] = d
  BY DEF Canonical, Raw
<1> QED
  BY ONLY <1>1, <1>2

(* What the gate passes strictly has nothing left for the agents.          *)
LEMMA PassIsHarmless ==
    ASSUME NEW d, GateStatus(d, TRUE) = "pass"
    PROVE  /\ Bucket(d, "blocking") = {}
           /\ Bucket(d, "unresolved") = {}
           /\ \A f \in Elems(d.failures) : ~f.required
<1>1. /\ Unclassified(d) = {}
      /\ FatalProviders(d) \cup IncompleteProviders(d) = {}
      /\ FindingsOfMode(d, "blocking") = {}
      /\ FindingsOfMode(d, "unresolved") = {}
  BY DEF GateStatus
<1>2. ASSUME NEW f \in FindingIdsIn(d.findings), NEW mode \in RuleModes, ModeOf(d, f) = mode
      PROVE  f \in FindingsOfMode(d, mode)
  <2>1. \E c \in Elems(d.classes) : c.finding_id = f
    BY <1>1 DEF Unclassified, FindingIdsIn
  <2>2. PICK c : c \in Elems(d.classes) /\ c.finding_id = f /\ c.mode = mode
    BY <1>2, <2>1 DEF ModeOf
  <2> QED
    BY <2>2 DEF FindingsOfMode
<1>3. Bucket(d, "blocking") = {} /\ Bucket(d, "unresolved") = {}
  BY <1>1, <1>2 DEF Bucket, RuleModes
<1>4. \A f \in Elems(d.failures) : ~f.required
  BY <1>1 DEF IncompleteProviders, FatalProviders, NonfatalProviders
<1> QED
  BY <1>3, <1>4

(* What the agents are told is resolved, the gate finds resolved.          *)
LEMMA ResolvedForBoth ==
    ASSUME NEW d, Loads(d), Bucket(d, "unresolved") = {}
    PROVE  /\ GateStatus(d, TRUE) # "invalid"
           /\ GateStatus(d, TRUE) = GateStatus(d, FALSE)
<1>1. /\ \A c, e \in Elems(d.classes) : c.finding_id = e.finding_id => c = e
      /\ FindingIdsIn(d.classes) \subseteq FindingIdsIn(d.findings)
  BY DEF Loads, ValidBundle, UniqueByFinding, Elems
<1>2. Unclassified(d) = {}
  BY DEF Bucket, ModeOf, Unclassified, FindingIdsIn
<1>3. ASSUME NEW c \in Elems(d.classes), c.mode = "unresolved"
      PROVE  FALSE
  <2>1. ModeOf(d, c.finding_id) = "unresolved"
    <3>1. (CHOOSE e \in Elems(d.classes) : e.finding_id = c.finding_id) = c
      BY <1>1
    <3> QED
      BY <1>3, <3>1 DEF ModeOf
  <2>2. c.finding_id \in FindingIdsIn(d.findings)
    BY <1>1 DEF FindingIdsIn
  <2> QED
    BY <2>1, <2>2 DEF Bucket
<1>4. FindingsOfMode(d, "unresolved") = {}
  BY <1>3 DEF FindingsOfMode
<1> QED
  BY <1>2, <1>4 DEF GateStatus

-----------------------------------------------------------------------------
(* Counting records that have an identity of their own is counting them.   *)
LEMMA DistinctAreCounted ==
    ASSUME NEW b, NEW positions \in SUBSET DOMAIN b.findings,
           IsFiniteSet(positions), UniqueByFinding(b.findings)
    PROVE  Cardinality({b.findings[i].finding_id : i \in positions}) = Cardinality(positions)
<1> DEFINE ids == {b.findings[i].finding_id : i \in positions}
           f == [i \in positions |-> b.findings[i].finding_id]
<1>1. f \in Bijection(positions, ids)
  BY DEF Bijection, Injection, Surjection, IsInjective, UniqueByFinding
<1> QED
  BY <1>1, FS_Bijection DEF ExistsBijection

LEMMA DisjointAddUp ==
    ASSUME NEW S, NEW T, IsFiniteSet(S), IsFiniteSet(T), S \cap T = {}
    PROVE  IsFiniteSet(S \cup T) /\ Cardinality(S \cup T) = Cardinality(S) + Cardinality(T)
<1>1. Cardinality(S \cap T) = 0
  BY FS_EmptySet, Zenon
<1> QED
  BY <1>1, FS_Union, FS_CardinalityType

(* What is not refused has a severity, no failure, and adds up.            *)
LEMMA MandatoryCounts ==
    ASSUME NEW d \in Documents, Loads(d), ~MandatoryRefused(d, "none")
    PROVE  /\ d.failures = <<>>
           /\ Counts(d).error = Cardinality(AtLevel(d, "error"))
           /\ Counts(d).error + Counts(d).warning + Counts(d).informational
                = Cardinality(FindingIdsIn(d.findings))
<1> DEFINE Having(severities) == {i \in DOMAIN d.findings : d.findings[i].severity \in severities}
           E == Having({"critical", "high"})
           W == Having({"medium", "low"})
           I == Having({"informational"})
<1>1. /\ d.findings \in Seq([finding_id : STRING, intact : BOOLEAN, severity : Severities,
                             canonical : BOOLEAN])
      /\ d.failures \in Seq(Failures({"semgrep"}))
  BY ConsumersAssumption DEF DocumentType
<1>2. UniqueByFinding(d.findings)
  BY DEF Loads, ValidBundle
<1>3. \A i \in DOMAIN d.findings :
         /\ d.findings[i].severity \in Severities
         /\ d.findings[i].severity \notin {"unknown", "none"}
  <2>1. \A f \in Elems(d.findings) : f.severity \notin {"unknown", "none"}
    BY DEF MandatoryRefused
  <2>2. \A i \in DOMAIN d.findings : d.findings[i] \in Elems(d.findings)
    BY DEF Elems
  <2>3. \A i \in DOMAIN d.findings : d.findings[i].severity \in Severities
    <3> DEFINE F == [finding_id : STRING, intact : BOOLEAN, severity : Severities,
                     canonical : BOOLEAN]
    <3>1. \A i \in DOMAIN d.findings : d.findings[i] \in F
      <4>1. d.findings \in Seq(F)
        BY <1>1
      <4> HIDE DEF F
      <4> QED
        BY <4>1
    <3>2. \A f \in F : f.severity \in Severities
      OBVIOUS
    <3> QED
      BY <3>1, <3>2
  <2> QED
    BY <2>1, <2>2, <2>3
<1>4. /\ DOMAIN d.findings = E \cup W \cup I
      /\ E \cap W = {} /\ (E \cup W) \cap I = {}
  BY <1>3 DEF Severities
<1>5. IsFiniteSet(DOMAIN d.findings) /\ Cardinality(DOMAIN d.findings) = Len(d.findings)
  <2>1. DOMAIN d.findings = 1 .. Len(d.findings) /\ Len(d.findings) \in Nat
    BY <1>1
  <2>2. \A n \in Nat : IsFiniteSet(1 .. n) /\ Cardinality(1 .. n) = n
    BY FS_Interval
  <2> QED
    BY <2>1, <2>2
<1>6. /\ IsFiniteSet(E) /\ IsFiniteSet(W) /\ IsFiniteSet(I)
      /\ Cardinality(E) \in Nat /\ Cardinality(W) \in Nat /\ Cardinality(I) \in Nat
  BY <1>5, FS_Subset, FS_CardinalityType
<1>7. Cardinality(E) + Cardinality(W) + Cardinality(I) = Len(d.findings)
  <2>1. IsFiniteSet(E \cup W) /\ Cardinality(E \cup W) = Cardinality(E) + Cardinality(W)
    BY <1>4, <1>6, DisjointAddUp
  <2>2. Cardinality((E \cup W) \cup I) = Cardinality(E \cup W) + Cardinality(I)
    BY <1>4, <1>6, <2>1, DisjointAddUp
  <2>3. Cardinality((E \cup W) \cup I) = Len(d.findings)
    BY <1>4, <1>5
  <2> HIDE DEF E, W, I
  <2> QED
    BY <1>6, <2>1, <2>2, <2>3
<1>8. /\ Counts(d).error = Len(d.failures) + Cardinality(E)
      /\ Counts(d).warning = Cardinality(W)
      /\ Counts(d).informational = Cardinality(I)
      /\ Counts(d).findings = Len(d.findings)
  BY DEF Counts, Occurrences
<1>9. Counts(d).findings = Counts(d).error + Counts(d).warning + Counts(d).informational
  BY DEF MandatoryRefused, Buildable, Mandatory, Observation
<1>10. Len(d.failures) = 0 /\ d.failures = <<>>
  <2>1. Len(d.failures) \in Nat
    BY <1>1
  <2>2. Len(d.failures) = 0
    <3> HIDE DEF E, W, I
    <3> QED
      BY <1>6, <1>7, <1>8, <1>9, <2>1
  <2> QED
    BY <1>1, <2>2
<1>11. AtLevel(d, "error") = {d.findings[i].finding_id : i \in E}
  <2>1. ASSUME NEW severity
        PROVE  Level(severity) = "error" <=> severity \in {"critical", "high"}
    BY Zenon DEF Level
  <2> QED
    BY <2>1 DEF AtLevel, Elems
<1>12. FindingIdsIn(d.findings) = {d.findings[i].finding_id : i \in DOMAIN d.findings}
  BY DEF FindingIdsIn, Elems
<1>13. Cardinality(AtLevel(d, "error")) = Cardinality(E)
  <2>1. Cardinality({d.findings[i].finding_id : i \in E}) = Cardinality(E)
    BY <1>2, <1>6, DistinctAreCounted
  <2> QED
    BY <1>11, <2>1
<1>14. Cardinality(FindingIdsIn(d.findings)) = Len(d.findings)
  <2>1. Cardinality({d.findings[i].finding_id : i \in DOMAIN d.findings}) = Len(d.findings)
    BY <1>2, <1>5, DistinctAreCounted
  <2> QED
    BY <1>12, <2>1
<1> QED
  <2> HIDE DEF E, W, I
  <2> QED
    BY <1>6, <1>7, <1>8, <1>10, <1>13, <1>14

-----------------------------------------------------------------------------
(* A command that moves leaves the others where they are.                  *)
OnlyMoves(c) ==
    /\ cmd' = [e \in Commands |-> cmd'[e]]
    /\ \A e \in Commands : e # c => cmd'[e] = cmd[e]

LEMMA OthersStay ==
    ASSUME CommandsInv, NEW c \in Commands, UNCHANGED input, OnlyMoves(c),
           IsCommand(cmd'[c]), cmd'[c].request \in Requests, CommandOK(cmd'[c])
    PROVE  CommandsInv'
<1>1. \A e \in Commands :
        IsCommand(cmd'[e]) /\ cmd'[e].request \in Requests /\ CommandOK(cmd'[e])
  BY DEF CommandsInv, OnlyMoves
<1>2. \A e \in Commands : CommandOK(cmd[e])'
  BY <1>1 DEF CommandOK
<1>3. \A e \in Commands : IsCommand(cmd[e])' /\ cmd'[e].request \in Requests
  BY <1>1 DEF IsCommand
<1> QED
  BY <1>2, <1>3 DEF CommandsInv, OnlyMoves

LEMMA EndsMeans ==
    ASSUME CommandsInv, NEW c \in Commands, NEW read, NEW exit, Ends(c, read, exit)
    PROVE  /\ OnlyMoves(c)
           /\ cmd'[c] = [pc |-> "idle", request |-> cmd[c].request, read |-> read,
                         answer |-> cmd[c].answer, exit |-> exit, replaced |-> FALSE]
           /\ cmd'[c].pc = "idle" /\ cmd'[c].exit = exit
<1> DEFINE s == [pc |-> "idle", request |-> cmd[c].request, read |-> read,
                 answer |-> cmd[c].answer, exit |-> exit, replaced |-> FALSE]
<1>1. IsCommand(cmd[c])
  BY DEF CommandsInv
<1>2. OnlyMoves(c)
  BY <1>1 DEF Ends, CommandsInv, OnlyMoves
<1>3. cmd'[c] = s
  BY <1>1 DEF Ends, IsCommand, CommandsInv
<1>4. s.pc = "idle" /\ s.exit = exit
  OBVIOUS
<1>5. cmd'[c].pc = "idle" /\ cmd'[c].exit = exit
  <2> HIDE DEF s
  <2> QED
    BY <1>3, <1>4
<1> QED
  BY <1>2, <1>3, <1>5

LEMMA AnswersMeans ==
    ASSUME CommandsInv, NEW c \in Commands, NEW read, NEW answer, Answers(c, read, answer)
    PROVE  /\ OnlyMoves(c)
           /\ cmd'[c] = [pc |-> "open", request |-> cmd[c].request, read |-> read,
                         answer |-> answer, exit |-> cmd[c].exit,
                         replaced |-> cmd[c].replaced]
           /\ cmd'[c].pc = "open"
<1> DEFINE s == [pc |-> "open", request |-> cmd[c].request, read |-> read, answer |-> answer,
                 exit |-> cmd[c].exit, replaced |-> cmd[c].replaced]
<1>1. IsCommand(cmd[c])
  BY DEF CommandsInv
<1>2. OnlyMoves(c)
  BY <1>1 DEF Answers, CommandsInv, OnlyMoves
<1>3. cmd'[c] = s
  BY <1>1 DEF Answers, IsCommand, CommandsInv
<1>4. s.pc = "open"
  OBVIOUS
<1>5. cmd'[c].pc = "open"
  <2> HIDE DEF s
  <2> QED
    BY <1>3, <1>4
<1> QED
  BY <1>2, <1>3, <1>5

(* A command that ends keeps its answer, which is of the document it read. *)
LEMMA EndingIsOK ==
    ASSUME CommandsInv, NEW c \in Commands, NEW read, NEW exit, UNCHANGED input,
           Ends(c, read, exit),
           cmd[c].answer = NoAnswer \/ read = cmd[c].read \/ read = <<>>,
           cmd[c].request.kind = "agent" =>
             \A d : read = <<d>> =>
                /\ exit = "SUCCESS" => AgentOf(cmd[c], d)
                /\ exit = "UNRESOLVED_STRICT_CONTRACT" /\ Loads(d) => StrictRefusal("agent", d)
    PROVE  CommandsInv'
<1> DEFINE s == [pc |-> "idle", request |-> cmd[c].request, read |-> read,
                 answer |-> cmd[c].answer, exit |-> exit, replaced |-> FALSE]
<1>1. IsCommand(cmd[c]) /\ cmd[c].request \in Requests /\ CommandOK(cmd[c])
  BY DEF CommandsInv
<1>2. OnlyMoves(c) /\ cmd'[c] = s
  BY EndsMeans
<1>3. IsCommand(s) /\ s.request \in Requests
  BY <1>1 DEF IsCommand
<1>4. CommandOK(s)
  <2>1. s.answer.kind = "gate" => \A d : s.read = <<d>> => GateOf(s, d)
    <3>1. cmd[c].answer.kind = "gate" => \A d : cmd[c].read = <<d>> => GateOf(cmd[c], d)
      BY <1>1 DEF CommandOK
    <3>2. cmd[c].answer.kind = "gate" => cmd[c].answer # NoAnswer
      BY DEF NoAnswer
    <3>3. \A d : GateOf(cmd[c], d) => GateOf(s, d)
      BY DEF GateOf
    <3>4. \A d : <<d>> # <<>>
      OBVIOUS
    <3> QED
      BY <3>1, <3>2, <3>3, <3>4
  <2>2. \A d : AgentOf(cmd[c], d) => AgentOf(s, d)
    BY DEF AgentOf
  <2>3. ASSUME s.request.kind = "agent", s.exit = "UNRESOLVED_STRICT_CONTRACT"
        PROVE  \A d : s.read = <<d>> /\ Loads(d) => StrictRefusal("agent", d)
    BY <2>3
  <2>4. ASSUME s.request.kind = "agent", s.exit = "SUCCESS"
        PROVE  \A d : s.read = <<d>> => AgentOf(s, d)
    BY <2>2, <2>4
  <2> QED
    BY <1>1, <2>1, <2>3, <2>4 DEF CommandOK, Writing
<1> HIDE DEF s
<1> QED
  BY <1>2, <1>3, <1>4, OthersStay

(* A command that answers has what the answer says from what it read.      *)
LEMMA AnsweringIsOK ==
    ASSUME CommandsInv, NEW c \in Commands, NEW read, NEW answer, UNCHANGED input,
           Answers(c, read, answer),
           Honest(answer),
           ~cmd[c].replaced => Rejects(answer),
           answer.kind = "gate" => cmd[c].request.kind = "gate",
           cmd[c].request.kind = "gate" =>
             \E d : read = <<d>> /\ Loads(d) /\ answer = GateResult(d, cmd[c].request.strict),
           cmd[c].request.kind = "agent" => \E d : read = <<d>> /\ AgentOf(cmd[c], d)
    PROVE  CommandsInv'
<1> DEFINE s == [pc |-> "open", request |-> cmd[c].request, read |-> read,
                 answer |-> answer, exit |-> cmd[c].exit, replaced |-> cmd[c].replaced]
<1>1. IsCommand(cmd[c]) /\ cmd[c].request \in Requests /\ CommandOK(cmd[c])
  BY DEF CommandsInv
<1>2. OnlyMoves(c) /\ cmd'[c] = s
  BY AnswersMeans
<1>3. IsCommand(s) /\ s.request \in Requests
  BY <1>1 DEF IsCommand
<1>4. CommandOK(s)
  <2>1. \A d : AgentOf(cmd[c], d) => AgentOf(s, d)
    BY DEF AgentOf
  <2>2. cmd[c].request.kind = "gate" => \E d : s.read = <<d>> /\ GateOf(s, d)
    BY DEF GateOf
  <2>3. \A d, e : <<d>> = <<e>> => d = e
    OBVIOUS
  <2>4. answer.kind = "gate" => \A d : s.read = <<d>> => GateOf(s, d)
    BY <2>2, <2>3
  <2> QED
    BY <1>1, <2>1, <2>2, <2>4 DEF CommandOK, Writing
<1> HIDE DEF s
<1> QED
  BY <1>2, <1>3, <1>4, OthersStay

-----------------------------------------------------------------------------
(* The answers the commands build are honest.                              *)
LEMMA OthersAreHonest ==
    ASSUME NEW a, a.kind \in {"none", "agent", "sarif", "gate"}
    PROVE  Honest(a) /\ Rejects(a)
BY DEF Honest, Rejects, IsObservation

LEMMA MandatoryIsHonest ==
    ASSUME NEW d \in Documents, Loads(d), NEW revision, ~MandatoryRefused(d, revision)
    PROVE  Honest(Mandatory(d)) /\ Rejects(Mandatory(d)) /\ Mandatory(d).kind = "mandatory"
<1>1. ~MandatoryRefused(d, "none")
  BY DEF MandatoryRefused
<1>2. Mandatory(d).kind = "mandatory" /\ "status" \in DOMAIN Mandatory(d)
  BY DEF Mandatory, Observation
<1> QED
  BY <1>1, <1>2 DEF Honest, Rejects

LEMMA BuiltIsHonest ==
    ASSUME NEW check \in {"sdk", "tests"}, NEW revision, NEW status
    PROVE  LET o == Observation(check, revision, status, NoCounts, NoDigest)
           IN  Honest(o) /\ Rejects(o) /\ o.kind = check
BY DEF Observation, Honest, Rejects

(* An sdk observation of what was read.                                    *)
LEMMA SdkIsHonest ==
    ASSUME NEW d \in Documents, NEW revision, NEW passed \in BOOLEAN, NEW artifact,
           \/ /\ artifact = Canonical(d) /\ Loads(d) /\ d.revision = revision
              /\ passed <=> d.leak = "none"
           \/ ~passed
    PROVE  /\ Honest(Sdk(revision, passed, artifact))
           /\ Sdk(revision, passed, artifact).kind = "sdk"
           /\ \/ artifact = Canonical(d) /\ Loads(d) /\ d.revision = revision
                 /\ (passed <=> d.leak = "none")
              \/ artifact = Raw(d) /\ ~Loads(d)
              \/ artifact = NoDigest
              => Rejects(Sdk(revision, passed, artifact))
<1> DEFINE o == Sdk(revision, passed, artifact)
<1>1. /\ o.kind = "sdk" /\ o.artifact = artifact /\ o.revision = revision
      /\ "status" \in DOMAIN o
      /\ o.status = IF passed THEN "passed" ELSE "failed"
  BY DEF Sdk, Observation
<1> HIDE DEF o
<1>2. Honest(o)
  BY <1>1 DEF Honest
<1>3. \/ artifact = Canonical(d) /\ Loads(d) /\ d.revision = revision
         /\ (passed <=> d.leak = "none")
      \/ artifact = Raw(d) /\ ~Loads(d)
      \/ artifact = NoDigest
      => Rejects(o)
  BY <1>1 DEF Rejects
<1> QED
  BY <1>1, <1>2, <1>3 DEF o

(* Project, case by case.                                                  *)
LEMMA ProjectIsOK ==
    ASSUME CommandsInv, NEW c \in Commands, Project(c)
    PROVE  CommandsInv'
<1> DEFINE r == cmd[c].request
           d == input
           Refuses(exit) == Ends(c, <<d>>, exit)
<1>1. /\ cmd[c].pc = "load" /\ cmd[c].answer = NoAnswer
      /\ r \in Requests /\ d \in Documents
      /\ UNCHANGED input
  BY DEF Project, Reads, CommandsInv, CommandOK
<1>2. ASSUME NEW exit, Refuses(exit),
             r.kind = "agent" =>
               /\ exit # "SUCCESS"
               /\ exit = "UNRESOLVED_STRICT_CONTRACT" /\ Loads(d) => StrictRefusal("agent", d)
      PROVE  CommandsInv'
  <2>1. \A e : <<d>> = <<e>> => d = e
    OBVIOUS
  <2> QED
    BY <1>1, <1>2, <2>1, EndingIsOK
<1>3. CASE ~Loads(d)
  <2>1. PICK exit \in ErrorExits(Raises(d)) : Refuses(exit)
    BY <1>3 DEF Project
  <2>2. exit # "SUCCESS"
    BY DEF ErrorExits
  <2> QED
    BY <1>2, <1>3, <2>1, <2>2
<1>4. CASE Loads(d) /\ r.kind = "validate"
  <2>1. \E exit : Refuses(exit)
    BY <1>4 DEF Project
  <2> QED
    BY <1>2, <1>4, <2>1
<1>5. CASE Loads(d) /\ r.kind \in {"agent", "sarif"}
  <2>1. CASE r.strict /\ StrictRefusal(r.kind, d)
    <3>1. Refuses("UNRESOLVED_STRICT_CONTRACT")
      BY <1>5, <2>1 DEF Project
    <3> QED
      BY <1>2, <2>1, <3>1
  <2>2. CASE ~(r.strict /\ StrictRefusal(r.kind, d)) /\ d.leak = "finding"
    <3>1. Refuses("ARTIFACT_VALIDATION_FAILURE")
      BY <1>5, <2>2 DEF Project
    <3> QED
      BY <1>2, <3>1
  <2>3. CASE ~(r.strict /\ StrictRefusal(r.kind, d)) /\ d.leak # "finding"
    <3> DEFINE a == IF r.kind = "agent" THEN AgentPayload(d) ELSE SarifLog(d)
    <3>1. Answers(c, <<d>>, a)
      BY <1>5, <2>3 DEF Project
    <3>2. a.kind \in {"agent", "sarif"}
      BY DEF AgentPayload, SarifLog
    <3>3. r.kind = "agent" => AgentOf(cmd[c], d)
      BY <1>5, <2>3 DEF AgentOf, StrictRefusal
    <3> HIDE DEF a
    <3>4. Honest(a) /\ Rejects(a)
      BY <3>2, OthersAreHonest
    <3> QED
      BY <1>1, <1>5, <3>1, <3>2, <3>3, <3>4, AnsweringIsOK
  <2> QED
    BY <2>1, <2>2, <2>3
<1>6. CASE Loads(d) /\ r.kind = "gate"
  <2>1. Answers(c, <<d>>, GateResult(d, r.strict))
    BY <1>6 DEF Project
  <2>2. GateResult(d, r.strict).kind = "gate"
    BY DEF GateResult
  <2>3. Honest(GateResult(d, r.strict)) /\ Rejects(GateResult(d, r.strict))
    BY <2>2, OthersAreHonest
  <2> QED
    BY <1>1, <1>6, <2>1, <2>2, <2>3, AnsweringIsOK
<1>7. CASE Loads(d) /\ r.kind = "mandatory"
  <2>1. CASE MandatoryRefused(d, r.revision)
    <3>1. Refuses("ARTIFACT_VALIDATION_FAILURE")
      BY <1>7, <2>1 DEF Project
    <3> QED
      BY <1>2, <3>1
  <2>2. CASE ~MandatoryRefused(d, r.revision)
    <3>1. Answers(c, <<d>>, Mandatory(d))
      BY <1>7, <2>2 DEF Project
    <3>2. Honest(Mandatory(d)) /\ Rejects(Mandatory(d)) /\ Mandatory(d).kind = "mandatory"
      BY <1>1, <1>7, <2>2, MandatoryIsHonest
    <3> QED
      BY <1>1, <1>7, <3>1, <3>2, AnsweringIsOK
  <2> QED
    BY <2>1, <2>2
<1> QED
  BY <1>3, <1>4, <1>5, <1>6, <1>7 DEF Project

(* The observations of sdk validation, and those that are built.           *)
LEMMA RecordsIsOK ==
    ASSUME CommandsInv, NEW c \in Commands, NEW read, NEW passed \in BOOLEAN, NEW artifact,
           UNCHANGED input, cmd[c].answer = NoAnswer, cmd[c].request.kind = "sdk",
           Records(c, read, passed, artifact),
           Honest(Sdk(cmd[c].request.revision, passed, artifact)),
           ~cmd[c].replaced => Rejects(Sdk(cmd[c].request.revision, passed, artifact))
    PROVE  CommandsInv'
<1> DEFINE o == Sdk(cmd[c].request.revision, passed, artifact)
<1>1. o.kind = "sdk"
  BY DEF Sdk, Observation
<1>2. CASE Buildable(o)
  <2>1. Answers(c, read, o)
    BY <1>2 DEF Records
  <2> QED
    BY <1>1, <2>1, AnsweringIsOK
<1>3. CASE ~Buildable(o)
  <2>1. Ends(c, read, "ARTIFACT_VALIDATION_FAILURE")
    BY <1>3 DEF Records
  <2> QED
    BY <2>1, EndingIsOK
<1> QED
  BY <1>2, <1>3

LEMMA ValidateLoadedIsOK ==
    ASSUME CommandsInv, NEW c \in Commands, ValidateLoaded(c)
    PROVE  CommandsInv'
<1> DEFINE revision == cmd[c].request.revision
           passed == input.leak = "none"
<1>1. /\ cmd[c].answer = NoAnswer /\ cmd[c].request.kind = "sdk"
      /\ input \in Documents /\ Loads(input)
      /\ UNCHANGED input
  BY DEF ValidateLoaded, Reads, CommandsInv, CommandOK
<1>2. CASE input.revision # revision
  <2>1. Ends(c, <<input>>, "ARTIFACT_VALIDATION_FAILURE")
    BY <1>2 DEF ValidateLoaded
  <2> QED
    BY <1>1, <2>1, EndingIsOK
<1>3. CASE input.revision = revision
  <2>1. Records(c, <<input>>, passed, Canonical(input))
    BY <1>3 DEF ValidateLoaded
  <2>2. passed \in BOOLEAN
    OBVIOUS
  <2>3. /\ Honest(Sdk(revision, passed, Canonical(input)))
        /\ Rejects(Sdk(revision, passed, Canonical(input)))
    BY <1>1, <1>3, <2>2, SdkIsHonest
  <2> QED
    BY <1>1, <2>1, <2>2, <2>3, RecordsIsOK
<1> QED
  BY <1>2, <1>3

LEMMA ValidateUnloadableIsOK ==
    ASSUME CommandsInv, NEW c \in Commands, ValidateUnloadable(c)
    PROVE  CommandsInv'
<1>1. /\ cmd[c].answer = NoAnswer /\ cmd[c].request.kind = "sdk"
      /\ UNCHANGED input
  BY DEF ValidateUnloadable, Reads, CommandsInv, CommandOK
<1>2. CASE \E read \in {<<>>, <<input>>} :
             \E exit \in {"ARTIFACT_VALIDATION_FAILURE", "INTERNAL_ERROR"} : Ends(c, read, exit)
  BY <1>1, <1>2, EndingIsOK
<1>3. CASE ~Loads(input) /\ cmd' = [cmd EXCEPT ![c].pc = "digest", ![c].read = <<input>>]
  <2> DEFINE s == [pc |-> "digest", request |-> cmd[c].request, read |-> <<input>>,
                   answer |-> cmd[c].answer, exit |-> cmd[c].exit,
                   replaced |-> cmd[c].replaced]
  <2>1. IsCommand(cmd[c]) /\ cmd[c].request \in Requests /\ CommandOK(cmd[c])
    BY DEF CommandsInv
  <2>2. OnlyMoves(c) /\ cmd'[c] = s
    BY <1>3, <2>1 DEF IsCommand, CommandsInv, OnlyMoves
  <2>3. IsCommand(s) /\ s.request \in Requests
    BY <2>1 DEF IsCommand
  <2>4. CommandOK(s)
    BY <1>1, <1>3, <2>1 DEF CommandOK, Writing, NoAnswer
  <2> HIDE DEF s
  <2> QED
    BY <1>1, <2>2, <2>3, <2>4, OthersStay
<1> QED
  BY <1>2, <1>3 DEF ValidateUnloadable

LEMMA DigestIsOK ==
    ASSUME CommandsInv, NEW c \in Commands, Digest(c)
    PROVE  CommandsInv'
<1> DEFINE artifact == IF input.form \in {"missing", "unreadable"} THEN NoDigest ELSE Raw(input)
           revision == cmd[c].request.revision
<1>1. /\ cmd[c].answer = NoAnswer /\ cmd[c].request.kind = "sdk"
      /\ ~cmd[c].replaced => ~Loads(input)
      /\ input \in Documents
      /\ UNCHANGED input
  BY DEF Digest, Reads, CommandsInv, CommandOK
<1>2. Records(c, cmd[c].read, FALSE, artifact)
  BY DEF Digest
<1>3. artifact = NoDigest \/ artifact = Raw(input)
  OBVIOUS
<1> HIDE DEF artifact
<1>4. /\ Honest(Sdk(revision, FALSE, artifact))
      /\ ~cmd[c].replaced => Rejects(Sdk(revision, FALSE, artifact))
  BY <1>1, <1>3, SdkIsHonest
<1> QED
  BY <1>1, <1>2, <1>4, RecordsIsOK

LEMMA BuildIsOK ==
    ASSUME CommandsInv, NEW c \in Commands, Build(c)
    PROVE  CommandsInv'
<1>1. cmd[c].answer = NoAnswer /\ cmd[c].request.kind = "build" /\ UNCHANGED input
  BY DEF Build, Reads, CommandsInv, CommandOK
<1>2. PICK check \in {"sdk", "tests"} :
        LET o == Observation(check, cmd[c].request.revision, cmd[c].request.status,
                             NoCounts, NoDigest)
        IN  IF Buildable(o) THEN Answers(c, <<>>, o)
            ELSE Ends(c, <<>>, "ARTIFACT_VALIDATION_FAILURE")
  BY DEF Build
<1> DEFINE o == Observation(check, cmd[c].request.revision, cmd[c].request.status,
                            NoCounts, NoDigest)
<1>3. CASE Answers(c, <<>>, o)
  <2>1. Honest(o) /\ Rejects(o) /\ o.kind = check
    BY BuiltIsHonest
  <2> QED
    BY <1>1, <1>3, <2>1, AnsweringIsOK
<1>4. CASE Ends(c, <<>>, "ARTIFACT_VALIDATION_FAILURE")
  BY <1>1, <1>4, EndingIsOK
<1> QED
  BY <1>2, <1>3, <1>4

-----------------------------------------------------------------------------
(* A start, a write and its failure, and a kill.                           *)
LEMMA StartIsOK ==
    ASSUME CommandsInv, NEW c \in Commands, Start(c)
    PROVE  CommandsInv'
<1>1. PICK r \in Requests : cmd' = [cmd EXCEPT ![c] = Command("load", r)]
  BY DEF Start
<1>2. OnlyMoves(c) /\ cmd'[c] = Command("load", r) /\ UNCHANGED input
  BY <1>1 DEF Start, CommandsInv, OnlyMoves
<1>3. IsCommand(Command("load", r)) /\ Command("load", r).request \in Requests
  BY DEF Command, IsCommand
<1>4. CommandOK(Command("load", r))
  BY DEF CommandOK, Command, NoAnswer, Writing, Honest, IsObservation
<1> QED
  BY <1>2, <1>3, <1>4, OthersStay

LEMMA OpenMeans ==
    ASSUME CommandsInv, NEW c \in Commands, Open(c)
    PROVE  /\ OnlyMoves(c)
           /\ cmd'[c] = [pc |-> "write", request |-> cmd[c].request, read |-> cmd[c].read,
                         answer |-> cmd[c].answer, exit |-> cmd[c].exit,
                         replaced |-> cmd[c].replaced]
           /\ cmd'[c].pc = "write"
<1> DEFINE s == [pc |-> "write", request |-> cmd[c].request, read |-> cmd[c].read,
                 answer |-> cmd[c].answer, exit |-> cmd[c].exit,
                 replaced |-> cmd[c].replaced]
<1>1. IsCommand(cmd[c])
  BY DEF CommandsInv
<1>2. OnlyMoves(c)
  BY <1>1 DEF Open, CommandsInv, OnlyMoves
<1>3. cmd'[c] = s
  BY <1>1 DEF Open, IsCommand, CommandsInv
<1>4. s.pc = "write"
  OBVIOUS
<1>5. cmd'[c].pc = "write"
  <2> HIDE DEF s
  <2> QED
    BY <1>3, <1>4
<1> QED
  BY <1>2, <1>3, <1>5

LEMMA OpenIsOK ==
    ASSUME CommandsInv, NEW c \in Commands, Open(c)
    PROVE  CommandsInv'
<1> DEFINE s == [pc |-> "write", request |-> cmd[c].request, read |-> cmd[c].read,
                 answer |-> cmd[c].answer, exit |-> cmd[c].exit,
                 replaced |-> cmd[c].replaced]
<1>1. IsCommand(cmd[c]) /\ cmd[c].request \in Requests /\ CommandOK(cmd[c])
  BY DEF CommandsInv
<1>2. OnlyMoves(c) /\ cmd'[c] = s /\ UNCHANGED input
  BY OpenMeans DEF Open
<1>3. IsCommand(s) /\ s.request \in Requests
  BY <1>1 DEF IsCommand
<1>4. CommandOK(s)
  <2>1. \A d : /\ GateOf(cmd[c], d) => GateOf(s, d)
               /\ AgentOf(cmd[c], d) => AgentOf(s, d)
    BY DEF GateOf, AgentOf
  <2> QED
    BY <1>1, <2>1 DEF Open, CommandOK, Writing
<1> HIDE DEF s
<1> QED
  BY <1>2, <1>3, <1>4, OthersStay

LEMMA WriteIsOK ==
    ASSUME CommandsInv, NEW c \in Commands, Write(c) \/ WriteFails(c) \/ Kill(c)
    PROVE  CommandsInv'
<1>1. UNCHANGED input
  BY DEF Write, WriteFails, Reads, Kill
<1>2. \A d, e : <<d>> = <<e>> => d = e
  OBVIOUS
<1>3. ASSUME cmd[c].pc \in Writing, cmd[c].request.kind = "agent",
             NEW d, cmd[c].read = <<d>>
      PROVE  AgentOf(cmd[c], d)
  BY <1>2, <1>3 DEF CommandsInv, CommandOK
<1>4. CASE Write(c)
  <2>1. Ends(c, cmd[c].read, Success(c))
    BY <1>4 DEF Write
  <2>2. cmd[c].pc \in Writing
    BY <1>4 DEF Write, Writing
  <2>3. cmd[c].request.kind = "agent" => Success(c) # "UNRESOLVED_STRICT_CONTRACT"
    BY DEF Success
  <2> QED
    BY <1>1, <1>3, <2>1, <2>2, <2>3, EndingIsOK
<1>5. CASE WriteFails(c)
  <2>1. \E exit \in {"GATE_FAILURE", "INTERNAL_ERROR"} : Ends(c, cmd[c].read, exit)
    BY <1>5 DEF WriteFails
  <2> QED
    BY <1>1, <2>1, EndingIsOK
<1>6. CASE Kill(c)
  <2>1. Ends(c, <<>>, "none")
    BY <1>6 DEF Kill
  <2> QED
    BY <1>1, <2>1, EndingIsOK
<1> QED
  BY <1>4, <1>5, <1>6

LEMMA ReplacedAlone ==
    ASSUME NEW s, IsCommand(s), NEW v
    PROVE  [s EXCEPT !.replaced = v]
             = [pc |-> s.pc, request |-> s.request, read |-> s.read, answer |-> s.answer,
                exit |-> s.exit, replaced |-> v]
BY DEF IsCommand

(* Another document at the path is only of interest before a second read.  *)
LEMMA ReplaceInputIsOK ==
    ASSUME CommandsInv, ReplaceInput
    PROVE  CommandsInv'
<1> DEFINE late(c) == cmd[c].replaced \/ cmd[c].pc = "digest"
           s(c) == [pc |-> cmd[c].pc, request |-> cmd[c].request, read |-> cmd[c].read,
                    answer |-> cmd[c].answer, exit |-> cmd[c].exit, replaced |-> late(c)]
<1>1. \A c \in Commands : IsCommand(cmd[c]) /\ cmd[c].request \in Requests /\ CommandOK(cmd[c])
  BY DEF CommandsInv
<1>2. /\ input' \in Documents
      /\ cmd' = [c \in Commands |-> [cmd[c] EXCEPT !.replaced = late(c)]]
  BY DEF ReplaceInput
<1>3. \A c \in Commands :
        /\ cmd[c].pc = "digest" => late(c)
        /\ ~late(c) => ~cmd[c].replaced
  OBVIOUS
<1> HIDE DEF late
<1>4. \A c \in Commands : cmd'[c] = s(c)
  <2>1. \A c \in Commands : cmd'[c] = [cmd[c] EXCEPT !.replaced = late(c)]
    BY <1>2, Zenon
  <2> QED
    BY <1>1, <2>1, ReplacedAlone, Zenon
<1>5. ASSUME NEW c \in Commands, NEW t, t = cmd'[c]
      PROVE  IsCommand(cmd[c])' /\ cmd'[c].request \in Requests /\ CommandOK(cmd[c])'
  <2>1. PICK v : t = [pc |-> cmd[c].pc, request |-> cmd[c].request, read |-> cmd[c].read,
                      answer |-> cmd[c].answer, exit |-> cmd[c].exit, replaced |-> v]
                 /\ v = late(c)
    BY <1>4, <1>5, Zenon DEF s
  <2>2. /\ cmd[c].pc = "digest" => t.replaced
        /\ ~t.replaced => ~cmd[c].replaced
    <3>1. t.replaced = late(c)
      BY <2>1
    <3> QED
      BY <1>3, <3>1, Zenon
  <2>3. \A d : /\ GateOf(cmd[c], d) <=> GateOf(t, d)
               /\ AgentOf(cmd[c], d) <=> AgentOf(t, d)
    BY <2>1 DEF GateOf, AgentOf
  <2>4. IsCommand(t) /\ t.request \in Requests
    BY <1>1, <2>1 DEF IsCommand
  <2>5. CommandOK(t)'
    BY <1>1, <2>1, <2>2, <2>3 DEF CommandOK, Writing
  <2> QED
    BY <1>5, <2>4, <2>5, Zenon
<1> QED
  BY <1>2, <1>5 DEF CommandsInv

(* Every step keeps what the commands know.                                *)
LEMMA CommandsStep ==
    ASSUME CommandsInv, [Next]_vars
    PROVE  CommandsInv'
<1>1. CASE ReplaceInput
  BY <1>1, ReplaceInputIsOK
<1>2. ASSUME NEW c \in Commands, Start(c) \/ Step(c)
      PROVE  CommandsInv'
  BY <1>2, StartIsOK, BuildIsOK, ProjectIsOK, ValidateLoadedIsOK, ValidateUnloadableIsOK,
     DigestIsOK, OpenIsOK, WriteIsOK DEF Step
<1>3. CASE \E c \in Commands : Alter(c)
  <2>1. UNCHANGED <<input, cmd>>
    BY <1>3 DEF Alter
  <2> QED
    BY <2>1 DEF CommandsInv, CommandOK, IsCommand
<1>4. CASE UNCHANGED vars
  BY <1>4 DEF vars, CommandsInv, CommandOK, IsCommand
<1> QED
  BY <1>1, <1>2, <1>3, <1>4 DEF Next

(* A file is replaced by an honest answer, or altered.                     *)
LEMMA FilesStep ==
    ASSUME ReadInv, [Next]_vars
    PROVE  FilesInv'
<1> DEFINE IsFile(f) == f = [form |-> f.form, answer |-> f.answer, id |-> f.id]
           OnlyChanges(c) == /\ output' = [e \in Commands |-> output'[e]]
                             /\ \A e \in Commands : e # c => output'[e] = output[e]
<1>1. /\ output = [c \in Commands |-> output[c]]
      /\ \A c \in Commands : IsFile(output[c]) /\ FileOK(output[c]) /\ Honest(cmd[c].answer)
  BY DEF ReadInv, FilesInv, CommandsInv, CommandOK
<1>2. ASSUME NEW c \in Commands, OnlyChanges(c), IsFile(output'[c]), FileOK(output'[c])
      PROVE  FilesInv'
  <2>1. \A e \in Commands : IsFile(output'[e]) /\ FileOK(output'[e])
    BY <1>1, <1>2
  <2>2. \A e \in Commands : FileOK(output[e])'
    BY <2>1 DEF FileOK
  <2> QED
    BY <1>2, <2>1, <2>2 DEF FilesInv
<1>3. ASSUME NEW c \in Commands, Open(c)
      PROVE  FilesInv'
  <2>1. OnlyChanges(c) /\ output'[c] = File("torn", NoAnswer)
    BY <1>1, <1>3 DEF Open
  <2>2. IsFile(File("torn", NoAnswer)) /\ FileOK(File("torn", NoAnswer))
    BY DEF File, FileOK
  <2> QED
    BY <1>2, <2>1, <2>2
<1>4. ASSUME NEW c \in Commands, Write(c)
      PROVE  FilesInv'
  <2>1. OnlyChanges(c) /\ output'[c] = File("whole", cmd[c].answer)
    BY <1>1, <1>4 DEF Write
  <2>2. IsFile(File("whole", cmd[c].answer)) /\ FileOK(File("whole", cmd[c].answer))
    BY <1>1 DEF File, FileOK
  <2> QED
    BY <1>2, <2>1, <2>2
<1>5. ASSUME NEW c \in Commands, Alter(c)
      PROVE  FilesInv'
  <2> DEFINE a == output[c].answer
             altered == [a EXCEPT !.status = "passed"]
             f == [form |-> output[c].form, answer |-> altered, id |-> output[c].id]
  <2>1. OnlyChanges(c)
    BY <1>1, <1>5 DEF Alter
  <2>2. output'[c] = f
    <3>1. output'[c] = [output[c] EXCEPT !.answer = altered]
      BY <1>1, <1>5 DEF Alter
    <3> HIDE DEF altered
    <3> QED
      BY <1>1, <3>1
  <2>3. output[c].id = a /\ "status" \in DOMAIN a /\ a.status # "passed"
    BY <1>1, <1>5 DEF Alter, FileOK, Honest
  <2>4. altered.status = "passed" /\ altered # a
    BY <2>3
  <2>5. IsFile(f)
    OBVIOUS
  <2>6. FileOK(f)
    <3> HIDE DEF altered
    <3> QED
      BY <2>3, <2>4 DEF FileOK
  <2> HIDE DEF f
  <2> QED
    BY <1>2, <2>1, <2>2, <2>5, <2>6
<1>6. CASE UNCHANGED output
  <2>1. \A e \in Commands : FileOK(output[e])'
    BY <1>1, <1>6 DEF FileOK
  <2> QED
    BY <1>1, <1>6, <2>1 DEF FilesInv
<1>7. UNCHANGED output \/ \E c \in Commands : Open(c) \/ Write(c) \/ Alter(c)
  BY DEF Next, vars, ReplaceInput, Start, Step, Build, Project, ValidateLoaded,
         ValidateUnloadable, Digest, Reads, WriteFails, Kill
<1> QED
  BY <1>3, <1>4, <1>5, <1>6, <1>7

LEMMA ReadInvHolds == Spec => []ReadInv
<1>1. Init => ReadInv
  <2> SUFFICES ASSUME Init
               PROVE  ReadInv
    OBVIOUS
  <2>1. /\ cmd = [c \in Commands |-> Command("idle", NoRequest)]
        /\ output = [c \in Commands |-> File("absent", NoAnswer)]
        /\ input \in Documents
    BY DEF Init
  <2>2. /\ IsCommand(Command("idle", NoRequest)) /\ NoRequest \in Requests
        /\ Command("idle", NoRequest).request = NoRequest
    BY DEF Command, IsCommand, NoRequest, Requests, Kinds
  <2>3. CommandOK(Command("idle", NoRequest))
    BY DEF CommandOK, Command, NoAnswer, NoRequest, Writing, Honest, IsObservation
  <2>4. FilesInv
    BY <2>1 DEF FilesInv, File, FileOK
  <2>5. \A c \in Commands : cmd[c] = Command("idle", NoRequest)
    BY <2>1
  <2> QED
    BY <2>1, <2>2, <2>3, <2>4, <2>5, Zenon DEF ReadInv, CommandsInv
<1>2. ReadInv /\ [Next]_vars => ReadInv'
  BY CommandsStep, FilesStep DEF ReadInv
<1> QED
  BY <1>1, <1>2, PTL DEF Spec

-----------------------------------------------------------------------------
(* An observation that validates and says "passed" of an artifact is about *)
(* a bundle that loads, is redacted and has that revision: of evidence for *)
(* sdk validation (project_sdk_validation_observation).                    *)
THEOREM PassedCorrectness == Spec => []PassedIsValidated
<1>1. ReadInv => PassedIsValidated
  <2> SUFFICES ASSUME ReadInv, NEW c \in Commands, ValidObservation(output[c]),
                      output[c].answer.kind = "sdk", output[c].answer.artifact # NoDigest,
                      output[c].answer.status = "passed"
               PROVE  \E d \in Documents :
                        /\ output[c].answer.artifact \in {Canonical(d), Raw(d)}
                        /\ Loads(d)
                        /\ d.leak = "none"
                        /\ d.revision = output[c].answer.revision
    BY DEF PassedIsValidated, Evidence
  <2>1. Honest(output[c].answer)
    BY DEF ReadInv, FilesInv, FileOK, ValidObservation
  <2> QED
    BY <2>1 DEF Honest
<1> QED
  BY <1>1, ReadInvHolds, PTL

(* The document a failed observation names failed, unless it was replaced  *)
(* between the two reads (_validated_input_digest).                        *)
THEOREM FailedCorrectness == Spec => []FailedNamesWhatFailed
<1>1. ReadInv => FailedNamesWhatFailed
  <2> SUFFICES ASSUME ReadInv, NEW c \in Commands, cmd[c].pc \in Writing,
                      cmd[c].answer.kind = "sdk", cmd[c].answer.status = "failed",
                      cmd[c].answer.artifact # NoDigest, ~cmd[c].replaced,
                      NEW d \in Documents,
                      cmd[c].answer.artifact \in {Canonical(d), Raw(d)}
               PROVE  /\ ~Loads(d) \/ d.leak # "none"
                      /\ Loads(d) => d.revision = cmd[c].answer.revision
    BY DEF FailedNamesWhatFailed, Writing
  <2>1. Rejects(cmd[c].answer)
    BY DEF ReadInv, CommandsInv, CommandOK
  <2>2. PICK e \in Documents :
           \/ cmd[c].answer.artifact = Raw(e) /\ ~Loads(e)
           \/ /\ cmd[c].answer.artifact = Canonical(e)
              /\ e.leak # "none" /\ e.revision = cmd[c].answer.revision
    BY <2>1 DEF Rejects
  <2>3. CASE cmd[c].answer.artifact = Raw(e) /\ ~Loads(e)
    <3>1. d = e
      BY <2>3, AddressesDiffer
    <3> QED
      BY <2>3, <3>1
  <2>4. CASE /\ cmd[c].answer.artifact = Canonical(e)
             /\ e.leak # "none" /\ e.revision = cmd[c].answer.revision
    <3>1. d.leak = e.leak /\ d.revision = e.revision
      BY <2>4, AddressesDiffer
    <3> QED
      BY <2>4, <3>1
  <2> QED
    BY <2>2, <2>3, <2>4
<1> QED
  BY <1>1, ReadInvHolds, PTL

(* Evidence of mandatory findings is of a bundle in which no provider      *)
(* failed, and counts each finding once (project_mandatory_findings_       *)
(* observation, and the checks of build_observation).                      *)
THEOREM MandatoryCorrectness == Spec => []MandatoryIsComplete
<1>1. ReadInv => MandatoryIsComplete
  <2> SUFFICES ASSUME ReadInv, NEW c \in Commands, ValidObservation(output[c]),
                      output[c].answer.kind = "mandatory",
                      NEW o, o = output[c].answer
               PROVE  \E d \in Documents :
                        /\ o.artifact = Canonical(d)
                        /\ d.revision = o.revision
                        /\ o.status = "passed"
                        /\ d.failures = <<>>
                        /\ o.counts.error = Cardinality(AtLevel(d, "error"))
                        /\ o.counts.error + o.counts.warning + o.counts.informational
                             = Cardinality(FindingIdsIn(d.findings))
    BY DEF MandatoryIsComplete, Evidence
  <2>1. Honest(o)
    BY DEF ReadInv, FilesInv, FileOK, ValidObservation
  <2>2. PICK d \in Documents :
           Loads(d) /\ o = Mandatory(d) /\ ~MandatoryRefused(d, "none")
    BY <2>1 DEF Honest
  <2>3. /\ d.failures = <<>>
        /\ Counts(d).error = Cardinality(AtLevel(d, "error"))
        /\ Counts(d).error + Counts(d).warning + Counts(d).informational
             = Cardinality(FindingIdsIn(d.findings))
    BY <2>2, MandatoryCounts
  <2>4. /\ o.artifact = Canonical(d) /\ o.revision = d.revision
        /\ o.counts = Counts(d)
        /\ d.failures = <<>> => o.status = "passed"
    BY <2>2 DEF Mandatory, Observation
  <2> QED
    BY <2>3, <2>4
<1> QED
  BY <1>1, ReadInvHolds, PTL

(* The gate, the agent payload and its strict refusal agree on what they   *)
(* read (evaluate_gate, project_agent_review_payload).                     *)
THEOREM AgreementOfReaders == Spec => []ReadersAgree
<1>1. ReadInv => ReadersAgree
  <2> SUFFICES ASSUME ReadInv, NEW c \in Commands, NEW d \in Documents,
                      cmd[c].pc = "idle", cmd[c].read = <<d>>
               PROVE
            /\ cmd[c].answer = [kind |-> "gate", status |-> "pass"] /\ cmd[c].request.strict =>
                  /\ AgentPayload(d).buckets["blocking"] = {}
                  /\ ~StrictRefusal("agent", d)
                  /\ \A f \in AgentPayload(d).failures : ~f.required
            /\ cmd[c].request.kind = "agent" /\ cmd[c].exit = "UNRESOLVED_STRICT_CONTRACT"
               /\ Loads(d) =>
                  GateStatus(d, TRUE) # "pass"
            /\ cmd[c].request.kind = "agent" /\ cmd[c].request.strict
               /\ cmd[c].exit = "SUCCESS" =>
                  /\ GateStatus(d, TRUE) # "invalid"
                  /\ GateStatus(d, TRUE) = GateStatus(d, FALSE)
    BY DEF ReadersAgree
  <2>1. CommandOK(cmd[c]) /\ cmd[c].request.strict \in BOOLEAN
    BY DEF ReadInv, CommandsInv, Requests
  <2>2. StrictRefusal("agent", d) <=> Bucket(d, "unresolved") # {}
    BY DEF StrictRefusal
  <2>3. ASSUME cmd[c].answer = [kind |-> "gate", status |-> "pass"], cmd[c].request.strict
        PROVE  /\ AgentPayload(d).buckets["blocking"] = {}
               /\ ~StrictRefusal("agent", d)
               /\ \A f \in AgentPayload(d).failures : ~f.required
    <3>1. cmd[c].answer.kind = "gate" /\ cmd[c].answer.status = "pass"
      <4>1. \A a : a = [kind |-> "gate", status |-> "pass"] =>
                     a.kind = "gate" /\ a.status = "pass"
        OBVIOUS
      <4> QED
        BY <2>3, <4>1, Zenon
    <3>2. cmd[c].answer = GateResult(d, TRUE)
      BY <2>1, <2>3, <3>1 DEF CommandOK, GateOf
    <3>3. GateStatus(d, TRUE) = "pass"
      <4>1. GateResult(d, TRUE).status = GateStatus(d, TRUE)
        BY DEF GateResult
      <4> QED
        BY <3>1, <3>2, <4>1
    <3>4. /\ AgentPayload(d).buckets["blocking"] = Bucket(d, "blocking")
          /\ AgentPayload(d).failures = Elems(d.failures)
      BY DEF AgentPayload, RuleModes
    <3> QED
      BY <2>2, <3>3, <3>4, PassIsHarmless
  <2>4. ASSUME cmd[c].request.kind = "agent", cmd[c].exit = "UNRESOLVED_STRICT_CONTRACT",
               Loads(d)
        PROVE  GateStatus(d, TRUE) # "pass"
    <3>1. StrictRefusal("agent", d)
      BY <2>1, <2>4 DEF CommandOK
    <3> QED
      BY <2>2, <3>1, PassIsHarmless
  <2>5. ASSUME cmd[c].request.kind = "agent", cmd[c].request.strict, cmd[c].exit = "SUCCESS"
        PROVE  /\ GateStatus(d, TRUE) # "invalid"
               /\ GateStatus(d, TRUE) = GateStatus(d, FALSE)
    <3>1. AgentOf(cmd[c], d)
      BY <2>1, <2>5 DEF CommandOK
    <3> QED
      BY <2>5, <3>1, ResolvedForBoth DEF AgentOf
  <2> QED
    BY <2>3, <2>4, <2>5
<1> QED
  BY <1>1, ReadInvHolds, PTL

(* A command that ends with 0 leaves a whole file that holds its answer,   *)
(* and a gate one that says of its bundle what evaluate_gate says of it    *)
(* (handle_evaluate, _write_output).                                       *)
THEOREM ExitCorrectness == Spec => ExitTellsFile
<1> DEFINE Told(c) ==
             /\ cmd[c].pc \notin {"idle", "load"}
             /\ cmd'[c].pc = "idle"
             /\ cmd'[c].exit = "SUCCESS"
             => /\ output'[c].form = "whole"
                /\ output'[c].answer = cmd[c].answer
                /\ cmd[c].request.kind = "gate" =>
                     GateStatus(cmd[c].read[1], cmd[c].request.strict)
                         = output'[c].answer.status
<1>1. ReadInv /\ [Next]_vars => [\A c \in Commands : Told(c)]_vars
  <2> SUFFICES ASSUME ReadInv, Next, NEW c \in Commands,
                      cmd[c].pc \notin {"idle", "load"},
                      cmd'[c].pc = "idle", cmd'[c].exit = "SUCCESS"
               PROVE  /\ output'[c].form = "whole"
                      /\ output'[c].answer = cmd[c].answer
                      /\ cmd[c].request.kind = "gate" =>
                           GateStatus(cmd[c].read[1], cmd[c].request.strict)
                               = output'[c].answer.status
    BY DEF vars
  <2>1. Write(c)
    <3>1. IsCommand(cmd[c]) /\ cmd = [e \in Commands |-> cmd[e]]
      BY DEF ReadInv, CommandsInv
    <3>2. ASSUME ReplaceInput
          PROVE  FALSE
      <4>1. PICK v : cmd'[c] = [cmd[c] EXCEPT !.replaced = v]
        BY <3>2, Zenon DEF ReplaceInput
      <4> DEFINE s == [pc |-> cmd[c].pc, request |-> cmd[c].request, read |-> cmd[c].read,
                       answer |-> cmd[c].answer, exit |-> cmd[c].exit, replaced |-> v]
      <4>2. cmd'[c] = s /\ s.pc = cmd[c].pc
        BY <3>1, <4>1, ReplacedAlone
      <4> HIDE DEF s
      <4>3. cmd'[c].pc = cmd[c].pc
        BY <4>2
      <4> QED
        BY <4>3
    <3>3. ASSUME NEW e \in Commands, e # c, Start(e) \/ Step(e)
          PROVE  FALSE
      <4>1. cmd'[c] = cmd[c]
        BY <3>1, <3>3 DEF Start, Step, Build, Project, ValidateLoaded, ValidateUnloadable,
              Digest, Records, Open, Write, WriteFails, Kill, Ends, Answers
      <4> QED
        BY <4>1
    <3>4. ASSUME NEW e \in Commands, Alter(e)
          PROVE  FALSE
      BY <3>4 DEF Alter
    <3>5. ASSUME Start(c) \/ Build(c) \/ Project(c) \/ ValidateLoaded(c) \/ ValidateUnloadable(c)
          PROVE  FALSE
      BY <3>5 DEF Start, Build, Project, ValidateLoaded, ValidateUnloadable, Reads
    <3>6. ASSUME Digest(c) \/ Open(c) \/ WriteFails(c) \/ Kill(c)
          PROVE  FALSE
      <4>1. CommandsInv /\ \A read, exit : Ends(c, read, exit) => exit = "SUCCESS"
        BY EndsMeans, Zenon DEF ReadInv
      <4>2. CASE Digest(c)
        <5>1. \A read, answer : ~Answers(c, read, answer)
          BY <4>1, AnswersMeans, Zenon
        <5> QED
          BY <4>1, <4>2, <5>1 DEF Digest, Records
      <4>3. CASE Open(c)
        <5>1. cmd'[c].pc = "write"
          BY <3>1, <4>3, OpenMeans DEF ReadInv
        <5> QED
          BY <5>1
      <4>4. CASE WriteFails(c) \/ Kill(c)
        BY <4>1, <4>4 DEF WriteFails, Kill
      <4> QED
        BY <3>6, <4>2, <4>3, <4>4
    <3> QED
      BY <3>2, <3>3, <3>4, <3>5, <3>6 DEF Next, Step
  <2>2. output'[c] = File("whole", cmd[c].answer)
    BY <2>1 DEF Write, ReadInv, FilesInv
  <2>3. ASSUME cmd[c].request.kind = "gate"
        PROVE  GateStatus(cmd[c].read[1], cmd[c].request.strict) = cmd[c].answer.status
    <3>1. PICK d : cmd[c].read = <<d>> /\ cmd[c].answer = GateResult(d, cmd[c].request.strict)
      BY <2>1, <2>3 DEF Write, Writing, ReadInv, CommandsInv, CommandOK, GateOf
    <3> QED
      BY <3>1 DEF GateResult
  <2> QED
    BY <2>2, <2>3 DEF File
<1> QED
  BY <1>1, ReadInvHolds, PTL DEF Spec, ExitTellsFile
=============================================================================
