------------------------- MODULE GovernedNodeProofs -------------------------
(***************************************************************************)
(* Proofs about GovernedNode, for any constitutions, policies and modes,   *)
(* and any number of amendments, runs and days: what the verdict of        *)
(* compare_attestation means, and what an amendment and a promotion rest   *)
(* on.                                                                     *)
(*                                                                         *)
(* A verdict is reached from an attestation, and the attestation from what *)
(* the node ran: both may be old.  The invariant ties the attestation to   *)
(* the runtime while neither "moved" (AttestationOK).  An amendment that    *)
(* was answered keeps the trace of every one before (TraceInv); an         *)
(* eligible node stays so because a window is of some run (WindowOK).      *)
(***************************************************************************)
EXTENDS GovernedNode, TLAPS

RuntimeOK ==
    /\ runtime.doc \in Constitutions
    /\ runtime.doc.actions_mapped
    /\ runtime.unready \subseteq DOMAIN runtime.doc.dependencies
    /\ runtime = [doc |-> runtime.doc, extra |-> runtime.extra,
                  unready |-> runtime.unready, mode |-> runtime.mode]

AttestationOK ==
    /\ "moved" \in DOMAIN attestation
    /\ ~attestation.moved =>
         \E whole \in BOOLEAN, contradictory \in {{}, DOMAIN runtime.doc.dependencies} :
            attestation = AttestationOf(runtime, whole, contradictory)

(* What holds of a verdict that was not overtaken.                         *)
Justified(v) ==
    ~v.moved =>
        /\ v.status \in {"pass", "incomplete"} =>
            /\ DOMAIN runtime.doc.actions \cup runtime.extra = DOMAIN v.doc.actions
            /\ v.doc.version # NoField => runtime.doc.version = v.doc.version
            /\ v.expected \cap {"digest", "hashes"} # {} =>
                 ContractHashes(runtime.doc) = ContractHashes(v.doc)
            /\ "mode" \in v.expected => runtime.mode = v.mode
            /\ v.status = "pass" =>
                 RequiredIn(v.doc) \subseteq DOMAIN runtime.doc.dependencies \ runtime.unready
        /\ v.status = "fail" =>
            \/ runtime.doc # v.doc
            \/ runtime.extra # {}
            \/ "mode" \in v.expected /\ runtime.mode # v.mode

VerdictOK == "moved" \in DOMAIN verdict /\ Justified(verdict)

NodeInv == constitution \in Constitutions /\ RuntimeOK /\ AttestationOK /\ VerdictOK

-----------------------------------------------------------------------------
(* compare_attestation, of an attestation that is about what the node runs *)
(* now: the fields of the verdict, one at a time.                          *)
LEMMA PassConforms ==
    ASSUME RuntimeOK, NEW doc \in Constitutions, NEW expected, NEW m,
           NEW whole, NEW contradictory, NEW a, a = AttestationOf(runtime, whole, contradictory),
           CompareAttestation(doc, a, expected, m) \in {"pass", "incomplete"}
    PROVE  /\ DOMAIN runtime.doc.actions \cup runtime.extra = DOMAIN doc.actions
           /\ doc.version # NoField => runtime.doc.version = doc.version
           /\ expected \cap {"digest", "hashes"} # {} =>
                ContractHashes(runtime.doc) = ContractHashes(doc)
           /\ "mode" \in expected => runtime.mode = m
           /\ CompareAttestation(doc, a, expected, m) = "pass" =>
                RequiredIn(doc) \subseteq DOMAIN runtime.doc.dependencies \ runtime.unready
<1>1. /\ a.version = runtime.doc.version /\ a.digest = ContractDigest(runtime.doc)
      /\ a.hashes = ContractHashes(runtime.doc)
      /\ a.actions = DOMAIN runtime.doc.actions \cup runtime.extra
      /\ a.policy_mode = runtime.mode
      /\ DOMAIN a.dependencies = DOMAIN runtime.doc.dependencies
  BY DEF AttestationOf
<1>2. \A d \in DOMAIN runtime.doc.dependencies :
        d \in runtime.unready => a.dependencies[d].state # "ready"
  BY DEF AttestationOf
<1>3. doc.actions_mapped /\ ~Drifts(doc, a, expected, m)
  BY DEF CompareAttestation
<1>4. DOMAIN runtime.doc.actions \cup runtime.extra = DOMAIN doc.actions
  BY <1>1, <1>3 DEF Drifts
<1>5. "mode" \in expected => runtime.mode = m
  BY <1>1, <1>3 DEF Drifts
<1>6. expected \cap {"digest", "hashes"} # {} => ContractHashes(runtime.doc) = ContractHashes(doc)
  BY <1>1, <1>3 DEF Drifts, ContractDigest
<1>7. doc.version # NoField => runtime.doc.version = doc.version
  BY <1>1, <1>3 DEF Drifts
<1>8. ASSUME CompareAttestation(doc, a, expected, m) = "pass"
      PROVE  RequiredIn(doc) \subseteq DOMAIN runtime.doc.dependencies \ runtime.unready
  <2>1. ~Unready(doc, a)
    BY <1>8 DEF CompareAttestation
  <2>2. ASSUME NEW d \in RequiredIn(doc)
        PROVE  d \in DOMAIN a.dependencies /\ a.dependencies[d].state = "ready"
    BY <2>1 DEF Unready
  <2> QED
    BY <2>2, <1>1, <1>2
<1> QED
  BY <1>4, <1>5, <1>6, <1>7, <1>8

LEMMA FailDiffers ==
    ASSUME RuntimeOK, NEW doc, NEW expected, NEW m,
           NEW whole, NEW contradictory, NEW a, a = AttestationOf(runtime, whole, contradictory),
           CompareAttestation(doc, a, expected, m) = "fail"
    PROVE  \/ runtime.doc # doc
           \/ runtime.extra # {}
           \/ "mode" \in expected /\ runtime.mode # m
<1> SUFFICES ASSUME runtime.doc = doc, runtime.extra = {},
                    "mode" \in expected => runtime.mode = m
             PROVE  ~Drifts(doc, a, expected, m)
  BY DEF CompareAttestation
<1>1. /\ a.version = doc.version /\ a.digest = ContractDigest(doc)
      /\ a.hashes = ContractHashes(doc)
      /\ a.actions = DOMAIN doc.actions
      /\ a.policy_mode = runtime.mode
      /\ DOMAIN a.dependencies = DOMAIN doc.dependencies
      /\ a.degraded = DegradedOf(runtime)
  BY DEF AttestationOf
<1>2. \A d \in DOMAIN doc.dependencies :
        a.dependencies[d].required = doc.dependencies[d].required
  BY DEF AttestationOf
<1>3. DegradedOf(runtime) \subseteq DeclaredDegraded(doc)
  BY DEF DegradedOf, DeclaredDegraded, RuntimeOK
<1>4. UndeclaredDegraded(doc, a) = {}
  BY <1>1, <1>3 DEF UndeclaredDegraded
<1> QED
  BY <1>1, <1>2, <1>4 DEF Drifts

(* What an attestation says holds of the runtime, or it is out of date.    *)
LEMMA EvaluateKeeps ==
    ASSUME NodeInv, Evaluate
    PROVE  NodeInv'
<1>1. PICK expected \in SUBSET Expectations :
        verdict' = [status |-> CompareAttestation(constitution, attestation, expected, mode),
                    expected |-> expected, doc |-> constitution, mode |-> mode,
                    moved |-> attestation.moved]
  BY DEF Evaluate
<1>2. UNCHANGED <<constitution, runtime, attestation>>
  BY DEF Evaluate, authority
<1>3. "moved" \in DOMAIN verdict'
  BY <1>1
<1>4. /\ verdict'.moved = attestation.moved /\ verdict'.doc = constitution
      /\ verdict'.expected = expected /\ verdict'.mode = mode
      /\ verdict'.status = CompareAttestation(constitution, attestation, expected, mode)
  BY <1>1
<1>5. ASSUME ~attestation.moved
      PROVE  Justified(verdict)'
  <2>1. PICK whole \in BOOLEAN, contradictory \in {{}, DOMAIN runtime.doc.dependencies} :
            attestation = AttestationOf(runtime, whole, contradictory)
    BY <1>5 DEF NodeInv, AttestationOK
  <2>2. RuntimeOK /\ constitution \in Constitutions
    BY DEF NodeInv
  <2>3. verdict'.status = "fail" =>
            \/ runtime.doc # constitution
            \/ runtime.extra # {}
            \/ "mode" \in expected /\ runtime.mode # mode
    BY <2>1, <2>2, <1>4, FailDiffers
  <2>4. verdict'.status \in {"pass", "incomplete"} =>
            /\ DOMAIN runtime.doc.actions \cup runtime.extra = DOMAIN constitution.actions
            /\ constitution.version # NoField => runtime.doc.version = constitution.version
            /\ expected \cap {"digest", "hashes"} # {} =>
                 ContractHashes(runtime.doc) = ContractHashes(constitution)
            /\ "mode" \in expected => runtime.mode = mode
            /\ verdict'.status = "pass" =>
                 RequiredIn(constitution) \subseteq
                    DOMAIN runtime.doc.dependencies \ runtime.unready
    BY <2>1, <2>2, <1>4, PassConforms
  <2> QED
    BY <2>3, <2>4, <1>2, <1>4 DEF Justified
<1>6. Justified(verdict)'
  BY <1>4, <1>5 DEF Justified
<1> QED
  BY <1>2, <1>3, <1>6 DEF NodeInv, RuntimeOK, AttestationOK, VerdictOK

(* Whatever the node runs next, what was said of it before is out of date. *)
LEMMA BecomesKeeps ==
    ASSUME NodeInv, NEW r, Becomes(r),
           r.doc \in Constitutions, r.doc.actions_mapped,
           r.unready \subseteq DOMAIN r.doc.dependencies,
           r = [doc |-> r.doc, extra |-> r.extra, unready |-> r.unready, mode |-> r.mode]
    PROVE  NodeInv'
<1>1. runtime' = r /\ constitution' = constitution
  BY DEF Becomes, authority
<1>2. "moved" \in DOMAIN attestation' /\ attestation'.moved
  BY DEF Becomes, NodeInv, AttestationOK
<1>3. "moved" \in DOMAIN verdict' /\ verdict'.moved
  BY DEF Becomes, NodeInv, VerdictOK
<1> QED
  BY <1>1, <1>2, <1>3 DEF NodeInv, RuntimeOK, AttestationOK, VerdictOK, Justified

LEMMA AttestKeeps ==
    ASSUME NodeInv, Attest
    PROVE  NodeInv'
<1>1. PICK whole \in BOOLEAN, contradictory \in {{}, DOMAIN runtime.doc.dependencies} :
        attestation' = AttestationOf(runtime, whole, contradictory)
  BY DEF Attest
<1>2. UNCHANGED <<constitution, runtime, verdict>>
  BY DEF Attest, authority
<1>3. "moved" \in DOMAIN attestation'
  BY <1>1 DEF AttestationOf
<1>4. AttestationOK'
  BY <1>1, <1>2, <1>3 DEF AttestationOK
<1> QED
  BY <1>2, <1>4 DEF NodeInv, RuntimeOK, VerdictOK, Justified

-----------------------------------------------------------------------------
LEMMA InitNodeInv == Init => NodeInv
<1> SUFFICES ASSUME Init PROVE NodeInv
  OBVIOUS
<1>1. constitution \in Constitutions /\ constitution.actions_mapped
  BY DEF Init, Origins, Comparable
<1>2. runtime = [doc |-> constitution, extra |-> {}, unready |-> {}, mode |-> mode]
  BY DEF Init, Running
<1>3. RuntimeOK
  BY <1>1, <1>2 DEF RuntimeOK
<1>4. attestation = AttestationOf(runtime, TRUE, {})
  BY DEF Init
<1>5. AttestationOK
  BY <1>4 DEF AttestationOK, AttestationOf
<1>6. VerdictOK
  BY DEF Init, VerdictOK, Justified, NoVerdict
<1> QED
  BY <1>1, <1>3, <1>5, <1>6 DEF NodeInv

LEMMA RuntimeKeeps ==
    ASSUME NodeInv, Deploy \/ LoadPlugin \/ DependencyFails \/ DependencyRecovers
    PROVE  NodeInv'
<1>1. /\ runtime.doc \in Constitutions /\ runtime.doc.actions_mapped
      /\ runtime.unready \subseteq DOMAIN runtime.doc.dependencies
      /\ runtime = [doc |-> runtime.doc, extra |-> runtime.extra,
                    unready |-> runtime.unready, mode |-> runtime.mode]
  BY DEF NodeInv, RuntimeOK
<1> DEFINE With(extra, unready) ==
        [doc |-> runtime.doc, extra |-> extra, unready |-> unready, mode |-> runtime.mode]
<1>2. ASSUME NEW extra, NEW unready \in SUBSET DOMAIN runtime.doc.dependencies,
             Becomes(With(extra, unready))
      PROVE  NodeInv'
  BY <1>1, <1>2, BecomesKeeps
<1>3. CASE Deploy
  <2>1. Becomes(Running(constitution, mode)) /\ constitution.actions_mapped
    BY <1>3 DEF Deploy
  <2> QED
    BY <2>1, BecomesKeeps DEF Running, NodeInv
<1>4. CASE LoadPlugin
  <2>1. [runtime EXCEPT !.extra = {"plugin"}] = With({"plugin"}, runtime.unready)
    BY <1>1
  <2> QED
    BY <1>1, <1>2, <1>4, <2>1 DEF LoadPlugin
<1>5. CASE DependencyFails
  <2>1. PICK d \in DOMAIN runtime.doc.dependencies :
            Becomes([runtime EXCEPT !.unready = @ \cup {d}])
    BY <1>5 DEF DependencyFails
  <2>2. [runtime EXCEPT !.unready = @ \cup {d}] = With(runtime.extra, runtime.unready \cup {d})
    BY <1>1
  <2> QED
    BY <1>1, <1>2, <2>1, <2>2
<1>6. CASE DependencyRecovers
  <2>1. PICK d \in runtime.unready : Becomes([runtime EXCEPT !.unready = @ \ {d}])
    BY <1>6 DEF DependencyRecovers
  <2>2. [runtime EXCEPT !.unready = @ \ {d}] = With(runtime.extra, runtime.unready \ {d})
    BY <1>1
  <2> QED
    BY <1>1, <1>2, <2>1, <2>2
<1> QED
  BY <1>3, <1>4, <1>5, <1>6 DEF Deploy, LoadPlugin, DependencyFails, DependencyRecovers

LEMMA NodeStep ==
    ASSUME NodeInv, [Next]_vars
    PROVE  NodeInv'
<1>1. CASE Amend
  <2>1. constitution' \in Constitutions /\ UNCHANGED node
    BY <1>1 DEF Amend
  <2> QED
    BY <2>1 DEF node, NodeInv, RuntimeOK, AttestationOK, VerdictOK, Justified
<1>2. CASE Deploy \/ LoadPlugin \/ DependencyFails \/ DependencyRecovers
  BY <1>2, RuntimeKeeps
<1>3. CASE Attest
  BY <1>3, AttestKeeps
<1>4. CASE Evaluate
  BY <1>4, EvaluateKeeps
<1>5. CASE Tick \/ Record \/ RestartWindow \/ Approve \/ Promote \/ UNCHANGED vars
  <2>1. UNCHANGED <<authority, node>>
    BY <1>5 DEF Tick, Record, RestartWindow, Approve, Promote, vars
  <2> QED
    BY <2>1 DEF authority, node, NodeInv, RuntimeOK, AttestationOK, VerdictOK, Justified
<1> QED
  BY <1>1, <1>2, <1>3, <1>4, <1>5 DEF Next

-----------------------------------------------------------------------------
(* A node that passes, or is incomplete, has the declared actions, the     *)
(* version that is declared, and the contracts and the mode it was         *)
(* compared with if they were expected; one that passes has every required *)
(* dependency: unless it changed after it attested (compare_attestation).  *)
THEOREM PassCorrectness == Spec => []PassMeansConforms
<1>1. NodeInv => PassMeansConforms
  BY DEF NodeInv, VerdictOK, Justified, PassMeansConforms
<1>2. Init => NodeInv
  BY InitNodeInv
<1>3. NodeInv /\ [Next]_vars => NodeInv'
  BY NodeStep
<1> QED
  BY <1>1, <1>2, <1>3, PTL DEF Spec

(* A node that runs the constitution, without plugins and in the expected  *)
(* mode, never fails, whatever its dependencies do (compare_attestation).   *)
THEOREM NoFalseAlarmCorrectness == Spec => []NoFalseAlarm
<1>1. NodeInv => NoFalseAlarm
  BY DEF NodeInv, VerdictOK, Justified, NoFalseAlarm
<1>2. Init => NodeInv
  BY InitNodeInv
<1>3. NodeInv /\ [Next]_vars => NodeInv'
  BY NodeStep
<1> QED
  BY <1>1, <1>2, <1>3, PTL DEF Spec

-----------------------------------------------------------------------------
(* What the reports of a sequence of amendments keep of the first version: *)
(* a field that was not reported as added or escalated is gone, is what it *)
(* was, or is weaker, and then it can still be compared.                   *)
FieldTraced(n, f) ==
    LET old == origin.actions[n][f]
        new == constitution.actions[n][f]
    IN  \/ {Change(n, f, "escalated"), Change(n, f, "added")} \cap reported # {}
        \/ new \in {NoField, old}
        \/ {old, new} \subseteq Values(f) /\ ~Stronger(f, old, new)

CollectionTraced(n, c) ==
    origin.actions[n][c] \ constitution.actions[n][c] # {} => Change(n, c, "removed") \in reported

ActionTraced(n) ==
    \/ Change(n, "action", "added") \in reported
    \/ /\ n \in DOMAIN origin.actions
       /\ \A f \in Fields : FieldTraced(n, f)
       /\ \A c \in Collections : CollectionTraced(n, c)

TraceInv == ~unanswered => \A n \in DOMAIN constitution.actions : ActionTraced(n)

LEMMA RankIsInteger ==
    ASSUME NEW f \in Fields, NEW v \in Values(f)
    PROVE  Rank(f, v) \in Int
<1>1. \A i \in DOMAIN Ranked[f] : i \in Int
  BY DEF Fields, Ranked
<1>2. \E i \in DOMAIN Ranked[f] : Ranked[f][i] = v
  BY DEF Values
<1> QED
  BY <1>1, <1>2 DEF Rank

LEMMA NoValueIsAbsent ==
    ASSUME NEW f \in Fields
    PROVE  NoField \notin Values(f) /\ "null" \notin Values(f)
BY DEF Fields, Ranked, Values, NoField

LEMMA NotStrongerIsTransitive ==
    ASSUME NEW f \in Fields, NEW u \in Values(f), NEW v \in Values(f), NEW w \in Values(f),
           ~Stronger(f, u, v), ~Stronger(f, v, w)
    PROVE  ~Stronger(f, u, w)
<1>1. PICK x \in Int, y \in Int, z \in Int :
            x = Rank(f, u) /\ y = Rank(f, v) /\ z = Rank(f, w)
  BY RankIsInteger
<1> QED
  BY <1>1 DEF Stronger

LEMMA NothingIsStrongerThanItself ==
    ASSUME NEW f \in Fields, NEW v \in Values(f)
    PROVE  ~Stronger(f, v, v)
<1>1. PICK x \in Int : x = Rank(f, v)
  BY RankIsInteger
<1> QED
  BY <1>1 DEF Stronger

(* An amendment that was answered changes no field without a trace.        *)
LEMMA FieldStaysTraced ==
    ASSUME NEW n, NEW f \in Fields, FieldTraced(n, f), origin' = origin,
           reported \subseteq reported',
           LET cur == constitution.actions[n][f]
               new == constitution'.actions[n][f]
           IN  /\ {cur, new} \subseteq Values(f) \cup {NoField, "null"}
               /\ NoField \in {cur, new} \/ cur = new \/ "null" \notin {cur, new}
               /\ FieldChange(n, f, cur, new) \subseteq reported'
    PROVE  FieldTraced(n, f)'
<1> DEFINE old == origin.actions[n][f]
           cur == constitution.actions[n][f]
           new == constitution'.actions[n][f]
           Traced(r) == {Change(n, f, "escalated"), Change(n, f, "added")} \cap r # {}
<1>1. CASE Traced(reported)
  BY <1>1 DEF FieldTraced
<1>2. CASE new \in {NoField, cur} /\ ~Traced(reported)
  BY <1>2 DEF FieldTraced
<1>3. CASE cur = NoField /\ new # NoField
  <2>1. FieldChange(n, f, cur, new) = {Change(n, f, "added")}
    BY <1>3 DEF FieldChange
  <2> QED
    BY <2>1 DEF FieldTraced
<1>4. CASE cur # NoField /\ new \notin {NoField, cur} /\ ~Traced(reported)
  <2>1. cur \in Values(f) /\ new \in Values(f)
    BY <1>4
  <2>2. CASE Stronger(f, cur, new)
    <3>1. FieldChange(n, f, cur, new) = {Change(n, f, "escalated")}
      BY <1>4, <2>2 DEF FieldChange
    <3> QED
      BY <3>1 DEF FieldTraced
  <2>3. CASE ~Stronger(f, cur, new)
    <3>1. old \in Values(f) /\ ~Stronger(f, old, cur)
      BY <1>4, <2>1, NothingIsStrongerThanItself DEF FieldTraced
    <3>2. ~Stronger(f, old, new)
      BY <2>1, <2>3, <3>1, NotStrongerIsTransitive
    <3> QED
      BY <2>1, <3>1, <3>2 DEF FieldTraced
  <2> QED
    BY <2>2, <2>3
<1> QED
  BY <1>1, <1>2, <1>3, <1>4

LEMMA AmendKeepsTrace ==
    ASSUME TraceInv, Amend
    PROVE  TraceInv'
<1> SUFFICES ASSUME ~unanswered', NEW n \in DOMAIN constitution'.actions
             PROVE  ActionTraced(n)'
  BY DEF TraceInv
<1>1. PICK doc \in Constitutions :
        /\ constitution' = doc
        /\ reported' = reported \cup CompareAuthority(constitution, doc).changes
        /\ unanswered' = (unanswered \/ CompareAuthority(constitution, doc).status # "pass")
  BY DEF Amend
<1>2. ~unanswered /\ CompareAuthority(constitution, doc).status = "pass"
  BY <1>1
<1>3. /\ Comparable(constitution) /\ Comparable(doc) /\ ~AuthorityRaises(constitution, doc)
      /\ CompareAuthority(constitution, doc).changes = AuthorityChanges(constitution, doc)
  BY <1>2 DEF CompareAuthority
<1>4. /\ reported \subseteq reported' /\ AuthorityChanges(constitution, doc) \subseteq reported'
      /\ origin' = origin
  BY <1>1, <1>3 DEF Amend
<1>5. CASE n \notin DOMAIN constitution.actions
  <2>1. Change(n, "action", "added") \in AuthorityChanges(constitution, doc)
    BY <1>1, <1>5 DEF AuthorityChanges
  <2> QED
    BY <1>4, <2>1 DEF ActionTraced
<1>6. CASE n \in DOMAIN constitution.actions
  <2> DEFINE cur == constitution.actions[n]
             new == doc.actions[n]
  <2>1. ActionTraced(n)
    BY <1>2, <1>6 DEF TraceInv
  <2>2. ActionChanges(n, cur, new) \subseteq reported'
    <3>1. ActionChanges(n, cur, new) \subseteq AuthorityChanges(constitution, doc)
      BY <1>1, <1>6 DEF AuthorityChanges
    <3> QED
      BY <1>4, <3>1
  <2>3. ASSUME NEW f \in Fields, FieldTraced(n, f)
        PROVE  FieldTraced(n, f)'
    <3>1. {cur[f], new[f]} \subseteq Values(f) \cup {NoField, "null"}
      BY <1>1, <1>3, <1>6 DEF Comparable, Recognised
    <3>2. NoField \in {cur[f], new[f]} \/ cur[f] = new[f] \/ "null" \notin {cur[f], new[f]}
      BY <1>1, <1>3, <1>6 DEF AuthorityRaises
    <3>3. FieldChange(n, f, cur[f], new[f]) \subseteq reported'
      <4>1. FieldChange(n, f, cur[f], new[f]) \subseteq ActionChanges(n, cur, new)
        BY DEF ActionChanges
      <4> QED
        BY <2>2, <4>1
    <3> QED
      BY <1>1, <1>4, <2>3, <3>1, <3>2, <3>3, FieldStaysTraced
  <2>4. ASSUME NEW c \in Collections, CollectionTraced(n, c)
        PROVE  CollectionTraced(n, c)'
    <3>1. ItemChanges(n, c, cur[c], new[c]) \subseteq reported'
      <4>1. ItemChanges(n, c, cur[c], new[c]) \subseteq ActionChanges(n, cur, new)
        BY DEF ActionChanges
      <4> QED
        BY <2>2, <4>1
    <3>2. cur[c] \ new[c] # {} => Change(n, c, "removed") \in reported'
      BY <3>1 DEF ItemChanges
    <3> QED
      BY <1>1, <1>4, <2>4, <3>2 DEF CollectionTraced
  <2> QED
    BY <1>4, <2>1, <2>3, <2>4 DEF ActionTraced
<1> QED
  BY <1>5, <1>6

(* "normalized observations rather than hidden prose differences" (ADR     *)
(* 0014:15): over any sequence of amendments that compare_authority        *)
(* answered, whatever has more authority than at first left a trace.       *)
THEOREM AuthorityCorrectness == Spec => []AuthorityIsTraced
<1>1. Init => TraceInv
  <2> SUFFICES ASSUME Init, NEW n \in DOMAIN constitution.actions PROVE ActionTraced(n)
    BY DEF TraceInv
  <2> QED
    BY DEF Init, ActionTraced, FieldTraced, CollectionTraced
<1>2. TraceInv /\ [Next]_vars => TraceInv'
  <2> SUFFICES ASSUME TraceInv, [Next]_vars PROVE TraceInv'
    OBVIOUS
  <2>1. CASE Amend
    BY <2>1, AmendKeepsTrace
  <2>2. CASE ~Amend
    <3>1. UNCHANGED authority
      BY <2>2 DEF Next, vars, Deploy, LoadPlugin, DependencyFails, DependencyRecovers, Becomes,
                  Attest, Evaluate, Tick, Record, RestartWindow, Approve, Promote
    <3> QED
      BY <3>1 DEF authority, TraceInv, ActionTraced, FieldTraced, CollectionTraced
  <2> QED
    BY <2>1, <2>2
<1>3. TraceInv => AuthorityIsTraced
  <2> SUFFICES ASSUME TraceInv, ~unanswered, NEW n \in DOMAIN constitution.actions,
                      Change(n, "action", "added") \notin reported
               PROVE  /\ n \in DOMAIN origin.actions
                      /\ \A f \in Fields :
                           LET old == origin.actions[n][f]
                               new == constitution.actions[n][f]
                           IN  /\ {old, new} \subseteq Values(f)
                               /\ Stronger(f, old, new)
                               => {Change(n, f, "escalated"), Change(n, f, "added")}
                                     \cap reported # {}
                      /\ \A c \in Collections :
                           origin.actions[n][c] \ constitution.actions[n][c] # {} =>
                               Change(n, c, "removed") \in reported
    BY DEF AuthorityIsTraced
  <2>1. /\ n \in DOMAIN origin.actions
        /\ \A f \in Fields : FieldTraced(n, f)
        /\ \A c \in Collections : CollectionTraced(n, c)
    BY DEF TraceInv, ActionTraced
  <2>2. ASSUME NEW f \in Fields, origin.actions[n][f] \in Values(f),
               constitution.actions[n][f] \in Values(f),
               Stronger(f, origin.actions[n][f], constitution.actions[n][f])
        PROVE  {Change(n, f, "escalated"), Change(n, f, "added")} \cap reported # {}
    BY <2>1, <2>2, NoValueIsAbsent, NothingIsStrongerThanItself DEF FieldTraced
  <2> QED
    BY <2>1, <2>2 DEF CollectionTraced
<1> QED
  BY <1>1, <1>2, <1>3, PTL DEF Spec

-----------------------------------------------------------------------------
(* A window that is whole has a run in it: one that is restarted has fewer. *)
WindowOK ==
    /\ clock \in Nat
    /\ window \in [whole : BOOLEAN, first : Nat, last : Nat, completed_runs : Nat,
                   contract_failures : Nat]
    /\ window.whole => window.completed_runs > 0

LEMMA QuotientIsMonotonic ==
    ASSUME NEW a \in Int, NEW b \in Int, NEW d \in Nat \ {0}, a <= b
    PROVE  a \div d <= b \div d
<1> DEFINE p == a \div d
           q == b \div d
<1>1. p \in Int /\ q \in Int /\ d * p <= a /\ b < d * q + d
  OBVIOUS
<1> HIDE DEF p, q
<1>2. SUFFICES ASSUME q + 1 <= p PROVE FALSE
  BY <1>1 DEF p, q
<1>3. d * (q + 1) <= d * p
  BY <1>1, <1>2
<1>4. d * (q + 1) = d * q + d
  BY <1>1
<1> QED
  BY <1>1, <1>3, <1>4

LEMMA WindowStep ==
    ASSUME WindowOK, [Next]_vars
    PROVE  /\ WindowOK'
           /\ \/ window' = window
              \/ window.whole => window'.whole /\ window'.first = window.first
              \/ window' = EmptyWindow
<1>1. CASE Record
  <2>1. PICK at \in 0 .. clock, failed \in BOOLEAN :
            window' = [whole |-> TRUE,
                       first |-> IF window.whole THEN window.first ELSE at,
                       last |-> at,
                       completed_runs |-> window.completed_runs + 1,
                       contract_failures |->
                          window.contract_failures + (IF failed THEN 1 ELSE 0)]
    BY <1>1 DEF Record
  <2>2. at \in Nat /\ clock' = clock
    BY <1>1 DEF Record, WindowOK
  <2> QED
    BY <2>1, <2>2 DEF WindowOK
<1>2. CASE RestartWindow
  BY <1>2 DEF RestartWindow, WindowOK, EmptyWindow
<1>3. CASE Tick
  BY <1>3 DEF Tick, WindowOK
<1>4. CASE Approve \/ Promote \/ UNCHANGED vars
  BY <1>4 DEF Approve, Promote, vars, promotion, WindowOK
<1>5. CASE Amend \/ Deploy \/ LoadPlugin \/ DependencyFails \/ DependencyRecovers
              \/ Attest \/ Evaluate
  <2>1. UNCHANGED promotion
    BY <1>5 DEF Amend, Deploy, LoadPlugin, DependencyFails, DependencyRecovers, Becomes,
                Attest, Evaluate
  <2> QED
    BY <2>1 DEF promotion, WindowOK
<1> QED
  BY <1>1, <1>2, <1>3, <1>4, <1>5 DEF Next

(* More runs that do not fail, reported later, leave every eligible        *)
(* transition eligible, also over a restart of the window                  *)
(* (evaluate_promotion).                                                    *)
THEOREM EligibilityCorrectness == Spec => EligibleStaysEligible
<1> DEFINE Stays ==
        \A p \in Policies, m \in Modes :
            /\ EvaluatePromotion(p, mode, m, window, approved) = "eligible"
            /\ mode' = mode
            /\ window'.completed_runs >= window.completed_runs
            /\ window'.last >= window.last
            /\ window'.contract_failures = window.contract_failures
            /\ approved => approved'
            => EvaluatePromotion(p, mode, m, window', approved') = "eligible"
<1>1. Init => WindowOK
  BY DEF Init, WindowOK, EmptyWindow
<1>2. WindowOK /\ [Next]_vars => WindowOK'
  BY WindowStep
<1>3. WindowOK /\ [Next]_vars => [Stays]_vars
  <2> SUFFICES ASSUME WindowOK, [Next]_vars,
                      NEW p \in Policies, NEW m \in Modes,
                      EvaluatePromotion(p, mode, m, window, approved) = "eligible",
                      mode' = mode,
                      window'.completed_runs >= window.completed_runs,
                      window'.last >= window.last,
                      window'.contract_failures = window.contract_failures,
                      approved => approved'
               PROVE  EvaluatePromotion(p, mode, m, window', approved') = "eligible"
    OBVIOUS
  <2>1. PromotionValid(p, mode, m, window) /\ ~Unmet(p, window, approved)
    BY DEF EvaluatePromotion
  <2>2. /\ p.minimum_observation_runs \in Nat /\ p.minimum_observation_days \in Nat
        /\ window.whole
    BY <2>1, PolicyAssumption DEF PromotionValid
  <2>3. WindowOK' /\ window'.whole /\ window'.first = window.first
    BY <2>2, WindowStep DEF WindowOK, EmptyWindow
  <2>4. PromotionValid(p, mode, m, window')
    BY <2>1, <2>3 DEF PromotionValid, WindowOK
  <2>5. FullDays(window) <= FullDays(window') /\ FullDays(window) \in Int
        /\ FullDays(window') \in Int
    <3>1. window.last - window.first <= window'.last - window.first
      BY <2>3 DEF WindowOK
    <3>2. /\ window.last - window.first \in Int /\ window'.last - window.first \in Int
      BY <2>3 DEF WindowOK
    <3> QED
      BY <2>3, <3>1, <3>2, QuotientIsMonotonic, PartsAssumption DEF FullDays
  <2>6. ~Unmet(p, window', approved')
    <3>1. ~(window'.completed_runs < p.minimum_observation_runs)
      BY <2>1, <2>2, <2>3 DEF Unmet, WindowOK
    <3>2. ~(FullDays(window') < p.minimum_observation_days)
      BY <2>1, <2>2, <2>5 DEF Unmet
    <3>3. ~(window'.contract_failures > p.maximum_contract_failures)
      BY <2>1 DEF Unmet
    <3>4. ~(p.approval_required /\ ~approved')
      BY <2>1 DEF Unmet
    <3> QED
      BY <3>1, <3>2, <3>3, <3>4 DEF Unmet
  <2> QED
    BY <2>4, <2>6 DEF EvaluatePromotion
<1> QED
  BY <1>1, <1>2, <1>3, PTL DEF Spec, EligibleStaysEligible
=============================================================================
