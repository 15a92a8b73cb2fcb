------------------------- MODULE AtomicWriteProofs -------------------------
(***************************************************************************)
(* Proofs about AtomicWrite, for any number of writers, artifact sizes and *)
(* crashes of the machine.                                                 *)
(*                                                                         *)
(* DestinationIsWhole is not inductive: it must be known that whatever the *)
(* destination may refer to, now or after a crash, has been published, and *)
(* that a writer publishes only what is on disk.  IInv says so.            *)
(***************************************************************************)
EXTENDS AtomicWrite, TLAPS

(* What is on disk has been written.                                       *)
SyncedIsWritten == \A w \in Writers : synced[w] <= cached[w]

(* os.replace comes after fsync.                                           *)
ReplacesSynced == \A w \in Writers : pc[w] = "replace" => synced[w] = Chunks

PublishedIsSynced == \A w \in published : synced[w] = Chunks

DestinationIsPublished ==
    /\ dest \in published \cup {Absent}
    /\ destSynced \in published \cup {Absent}

(* Which steps lie before os.replace, and which after it.                  *)
StepKnowsPublication ==
    \A w \in Writers :
        /\ pc[w] \in {"idle", "made", "write", "replace", "unwind", "error", "stuck"}
              => w \notin published
        /\ pc[w] = "abandon" /\ temp[w] => w \notin published
        /\ pc[w] \in {"cleanup", "ok"} => w \in published

TempKnown ==
    /\ \A w \in Writers : pc[w] \in {"idle", "cleanup"} => ~temp[w]
    /\ NoTempAfterReturn

IInv ==
    /\ TypeOK
    /\ SyncedIsWritten
    /\ ReplacesSynced
    /\ PublishedIsSynced
    /\ DestinationIsPublished
    /\ StepKnowsPublication
    /\ TempKnown

-----------------------------------------------------------------------------
(* The initial states satisfy the inductive invariant.                     *)
LEMMA InitIInv == Init => IInv
  BY WriterAssumption
  DEF Init, IInv, TypeOK, Steps, SyncedIsWritten, ReplacesSynced, PublishedIsSynced,
      DestinationIsPublished, StepKnowsPublication, TempKnown, NoTempAfterReturn

(* A step of one writer preserves it.                                      *)
LEMMA WriterStepIInv ==
    ASSUME IInv, NEW w \in Writers,
           \/ MakeTemp(w) \/ Open(w) \/ WritePiece(w) \/ Sync(w) \/ Replace(w)
           \/ Raise(w) \/ Interrupt(w) \/ Unlink(w) \/ UnlinkFails(w) \/ Kill(w)
           \/ WriteBackData(w)
    PROVE  IInv'
<1> USE WriterAssumption
    DEF IInv, TypeOK, Steps, SyncedIsWritten, ReplacesSynced, PublishedIsSynced,
        DestinationIsPublished, StepKnowsPublication, TempKnown, NoTempAfterReturn
<1>1. CASE MakeTemp(w)
  BY <1>1 DEF MakeTemp
<1>2. CASE Open(w)
  BY <1>2 DEF Open
<1>3. CASE WritePiece(w)
  BY <1>3 DEF WritePiece
<1>4. CASE Sync(w)
  BY <1>4 DEF Sync
<1>5. CASE Replace(w)
  BY <1>5 DEF Replace
<1>6. CASE Raise(w)
  BY <1>6 DEF Raise
<1>7. CASE Interrupt(w)
  BY <1>7 DEF Interrupt
<1>8. CASE Unlink(w)
  BY <1>8 DEF Unlink, Outcome
<1>9. CASE Kill(w)
  BY <1>9 DEF Kill, Running
<1>10. CASE WriteBackData(w)
  BY <1>10 DEF WriteBackData
<1>11. CASE UnlinkFails(w)
  BY <1>11 DEF UnlinkFails
<1> QED
  BY <1>1, <1>2, <1>3, <1>4, <1>5, <1>6, <1>7, <1>8, <1>9, <1>10, <1>11

(* Every step preserves it.                                                *)
LEMMA NextIInv == IInv /\ [Next]_vars => IInv'
<1> SUFFICES ASSUME IInv, [Next]_vars PROVE IInv'
  OBVIOUS
<1> USE WriterAssumption
    DEF IInv, TypeOK, Steps, SyncedIsWritten, ReplacesSynced, PublishedIsSynced,
        DestinationIsPublished, StepKnowsPublication, TempKnown, NoTempAfterReturn
<1>1. CASE WriteBackEntry
  BY <1>1 DEF WriteBackEntry
<1>2. CASE MachineCrash
  BY <1>2 DEF MachineCrash, Running
<1>3. ASSUME NEW w \in Writers,
             \/ MakeTemp(w) \/ Open(w) \/ WritePiece(w) \/ Sync(w) \/ Replace(w)
             \/ Raise(w) \/ Interrupt(w) \/ Unlink(w) \/ UnlinkFails(w) \/ Kill(w)
             \/ WriteBackData(w)
      PROVE  IInv'
  BY <1>3, WriterStepIInv
<1>4. CASE UNCHANGED vars
  BY <1>4 DEF vars
<1> QED
  BY <1>1, <1>2, <1>3, <1>4 DEF Next

(* The invariant of every behaviour.                                       *)
THEOREM Invariance == Spec => []IInv
  BY InitIInv, NextIInv, PTL DEF Spec

-----------------------------------------------------------------------------
(***************************************************************************)
(* The type invariant of the writer model.                                 *)
(***************************************************************************)
THEOREM TypeCorrectness == Spec => []TypeOK
<1>1. IInv => TypeOK
  BY DEF IInv
<1> QED
  BY <1>1, Invariance, PTL

(***************************************************************************)
(* write_bundle_atomic never shows a part of an artifact, whatever writers *)
(* race, die or lose in a crash.                                           *)
(***************************************************************************)
LEMMA IInvWhole == IInv => DestinationIsWhole
  BY WriterAssumption
  DEF IInv, TypeOK, SyncedIsWritten, PublishedIsSynced, DestinationIsPublished,
      DestinationIsWhole, Whole

THEOREM WholeDestination == Spec => []DestinationIsWhole
  BY IInvWhole, Invariance, PTL

(***************************************************************************)
(* write_bundle_atomic leaves no temporary file when it returns or raises. *)
(***************************************************************************)
THEOREM NoTempLeft == Spec => []NoTempAfterReturn
<1>1. IInv => NoTempAfterReturn
  BY DEF IInv, TempKnown
<1> QED
  BY <1>1, Invariance, PTL

(***************************************************************************)
(* write_bundle_atomic raises only if it has not touched the destination.  *)
(***************************************************************************)
THEOREM HonestOutcome == Spec => []OutcomeIsHonest
<1>1. IInv => OutcomeIsHonest
  BY DEF IInv, StepKnowsPublication, OutcomeIsHonest
<1> QED
  BY <1>1, Invariance, PTL

-----------------------------------------------------------------------------
(* Under the invariant the register's value is the destination.            *)
Shown == IF dest = Absent THEN Absent ELSE IF Whole(dest) THEN dest ELSE Torn

LEMMA ShownIsDest == IInv => Shown = dest
  BY IInvWhole DEF Shown, DestinationIsWhole

(* Every step of the writers is a step of the register, or none of its.    *)
LEMMA StepRefines ==
    IInv /\ IInv' /\ [Next]_vars => [Register!Next]_<<Shown, published>>
<1> SUFFICES ASSUME IInv, IInv', [Next]_vars
             PROVE  [Register!Next]_<<Shown, published>>
  OBVIOUS
<1>1. Shown = dest /\ Shown' = dest'
  <2>1. Shown = dest
    BY ShownIsDest
  <2>2. DestinationIsWhole'
    BY IInvWhole, PTL
  <2>3. Shown' = dest'
    BY <2>2 DEF Shown, DestinationIsWhole
  <2> QED
    BY <2>1, <2>3
<1>2. ASSUME NEW w \in Writers, Replace(w)
      PROVE  Register!Next
  <2>1. w \notin published
    BY <1>2 DEF IInv, StepKnowsPublication, Replace
  <2>2. Shown' = w /\ published' = published \cup {w}
    BY <1>1, <1>2 DEF Replace
  <2> QED
    BY <2>1, <2>2 DEF Register!Next, Register!Publish, Shown
<1>3. CASE MachineCrash
  <2>1. Shown' \in published \cup {Absent} /\ published' = published
    BY <1>1, <1>3 DEF MachineCrash, IInv, DestinationIsPublished
  <2> QED
    BY <2>1 DEF Register!Next, Register!Lose, Shown
<1>4. ASSUME UNCHANGED <<dest, published>>
      PROVE  UNCHANGED <<Shown, published>>
  BY <1>1, <1>4
<1>5. ASSUME NEW w \in Writers,
             \/ MakeTemp(w) \/ Open(w) \/ WritePiece(w) \/ Sync(w) \/ Raise(w)
             \/ Interrupt(w) \/ Unlink(w) \/ UnlinkFails(w) \/ Kill(w) \/ WriteBackData(w)
      PROVE  UNCHANGED <<dest, published>>
  BY <1>5 DEF MakeTemp, Open, WritePiece, Sync, Raise, Interrupt, Unlink, UnlinkFails,
              Kill, WriteBackData
<1>6. CASE WriteBackEntry \/ UNCHANGED vars
  BY <1>4, <1>6 DEF WriteBackEntry, vars
<1> QED
  BY <1>2, <1>3, <1>4, <1>5, <1>6 DEF Next

(***************************************************************************)
(* write_bundle_atomic implements the register its readers rely on.        *)
(***************************************************************************)
THEOREM Refinement == Spec => ImplementsRegister
<1>1. Init => Register!Init
  BY DEF Init, Register!Init
<1> QED
  BY <1>1, StepRefines, Invariance, PTL
  DEF Spec, ImplementsRegister, Register!Spec, Shown
=============================================================================
