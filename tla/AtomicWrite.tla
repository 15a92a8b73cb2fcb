---------------------------- MODULE AtomicWrite ----------------------------
(***************************************************************************)
(* write_bundle_atomic (l9_ci/artifacts/serializer.py): mkstemp beside the *)
(* destination, write, flush and fsync, os.replace, and an unlink of the   *)
(* temporary name in `finally`.  Several commands write the same           *)
(* destination; each is one writer.  A writer may meet an I/O error, be    *)
(* interrupted or be killed, its unlink may fail, and the machine may      *)
(* crash: what was not synced may then be lost, file data and directory    *)
(* entries alike.                                                          *)
(* Assumed of the file system: rename is atomic, fsync returns when the    *)
(* file is on disk, and unlinking an absent name is not an error.          *)
(***************************************************************************)
EXTENDS Naturals

CONSTANTS
    Writers,      \* invocations of write_bundle_atomic
    Absent,       \* no file at the destination
    Chunks,       \* an artifact is written in this many pieces
    MaxCrashes    \* bound: crashes of the machine

ASSUME WriterAssumption ==
    /\ Absent \notin Writers
    /\ Chunks \in Nat \ {0}
    /\ MaxCrashes \in Nat

VARIABLES
    pc,           \* per writer: the next step
    temp,         \* per writer: its temporary name is in the directory
    cached,       \* per writer: pieces in its file, as processes see it
    synced,       \* per writer: pieces of its file that are on disk
    dest,         \* whose file the destination name refers to
    destSynced,   \* the same, as it is on disk
    published,    \* history: the writers whose os.replace has happened
    crashes       \* how often the machine has crashed

vars == <<pc, temp, cached, synced, dest, destSynced, published, crashes>>

Steps == {"idle", "made", "write", "replace", "cleanup", "unwind", "abandon",
          "ok", "error", "stuck", "interrupted", "dead"}

TypeOK ==
    /\ pc \in [Writers -> Steps]
    /\ temp \in [Writers -> BOOLEAN]
    /\ cached \in [Writers -> 0 .. Chunks]
    /\ synced \in [Writers -> 0 .. Chunks]
    /\ dest \in Writers \cup {Absent}
    /\ destSynced \in Writers \cup {Absent}
    /\ published \subseteq Writers
    /\ crashes \in 0 .. MaxCrashes

Init ==
    /\ pc = [w \in Writers |-> "idle"]
    /\ temp = [w \in Writers |-> FALSE]
    /\ cached = [w \in Writers |-> 0]
    /\ synced = [w \in Writers |-> 0]
    /\ dest = Absent
    /\ destSynced = Absent
    /\ published = {}
    /\ crashes = 0

-----------------------------------------------------------------------------
(* mkstemp: a name no other writer has.  It may fail and leave nothing.    *)
MakeTemp(w) ==
    /\ pc[w] = "idle"
    /\ \/ /\ pc' = [pc EXCEPT ![w] = "made"]
          /\ temp' = [temp EXCEPT ![w] = TRUE]
       \/ /\ pc' = [pc EXCEPT ![w] = "error"]
          /\ UNCHANGED temp
    /\ UNCHANGED <<cached, synced, dest, destSynced, published, crashes>>

(* The try block.                                                          *)
Open(w) ==
    /\ pc[w] = "made"
    /\ pc' = [pc EXCEPT ![w] = "write"]
    /\ UNCHANGED <<temp, cached, synced, dest, destSynced, published, crashes>>

WritePiece(w) ==
    /\ pc[w] = "write"
    /\ cached[w] < Chunks
    /\ cached' = [cached EXCEPT ![w] = @ + 1]
    /\ UNCHANGED <<pc, temp, synced, dest, destSynced, published, crashes>>

(* Mutant: fsync before the last write.                                    *)
SyncEarly(w) ==
    /\ pc[w] = "write"
    /\ synced' = [synced EXCEPT ![w] = cached[w]]
    /\ pc' = [pc EXCEPT ![w] = "replace"]
    /\ UNCHANGED <<temp, cached, dest, destSynced, published, crashes>>

(* flush, then os.fsync: returns when the whole file is on disk.           *)
Sync(w) ==
    /\ pc[w] = "write"
    /\ cached[w] = Chunks
    /\ synced' = [synced EXCEPT ![w] = cached[w]]
    /\ pc' = [pc EXCEPT ![w] = "replace"]
    /\ UNCHANGED <<temp, cached, dest, destSynced, published, crashes>>

Replace(w) ==
    /\ pc[w] = "replace"
    /\ dest' = w
    /\ temp' = [temp EXCEPT ![w] = FALSE]
    /\ published' = published \cup {w}
    /\ pc' = [pc EXCEPT ![w] = "cleanup"]
    /\ UNCHANGED <<cached, synced, destSynced, crashes>>

(* An Exception in the try block: an I/O error.                            *)
Raise(w) ==
    /\ pc[w] \in {"write", "replace"}
    /\ pc' = [pc EXCEPT ![w] = "unwind"]
    /\ UNCHANGED <<temp, cached, synced, dest, destSynced, published, crashes>>

(* KeyboardInterrupt arrives between any two steps: before the try block   *)
(* it ends the call, in it `finally` still runs, in `finally` it ends that *)
(* too.                                                                    *)
Interrupt(w) ==
    /\ \/ /\ pc[w] \in {"write", "replace", "cleanup"}
          /\ pc' = [pc EXCEPT ![w] = "abandon"]
       \/ /\ pc[w] \in {"made", "unwind", "abandon"}
          /\ pc' = [pc EXCEPT ![w] = "interrupted"]
    /\ UNCHANGED <<temp, cached, synced, dest, destSynced, published, crashes>>

(* finally: unlink(missing_ok=True), and then the outcome of the try block. *)
Outcome(step) ==
    CASE step = "cleanup" -> "ok"
      [] step = "unwind"  -> "error"
      [] step = "abandon" -> "interrupted"

(* Mutant: the temporary file is removed only when the write succeeded.    *)
UnlinkOnSuccess(w) ==
    /\ pc[w] \in {"cleanup", "unwind", "abandon"}
    /\ temp' = [temp EXCEPT ![w] = @ /\ pc[w] # "cleanup"]
    /\ pc' = [pc EXCEPT ![w] = Outcome(@)]
    /\ UNCHANGED <<cached, synced, dest, destSynced, published, crashes>>

(* Mutant: a return statement in `finally` swallows the exception.         *)
UnlinkAndReturn(w) ==
    /\ pc[w] \in {"cleanup", "unwind", "abandon"}
    /\ temp' = [temp EXCEPT ![w] = FALSE]
    /\ pc' = [pc EXCEPT ![w] = "ok"]
    /\ UNCHANGED <<cached, synced, dest, destSynced, published, crashes>>

Unlink(w) ==
    /\ pc[w] \in {"cleanup", "unwind", "abandon"}
    /\ temp' = [temp EXCEPT ![w] = FALSE]
    /\ pc' = [pc EXCEPT ![w] = Outcome(@)]
    /\ UNCHANGED <<cached, synced, dest, destSynced, published, crashes>>

(* The unlink of a name that is there may fail.  Its OSError takes the     *)
(* place of the exception that was being raised, and the name stays.       *)
UnlinkFails(w) ==
    /\ pc[w] \in {"unwind", "abandon"}
    /\ temp[w]
    /\ pc' = [pc EXCEPT ![w] = "stuck"]
    /\ UNCHANGED <<temp, cached, synced, dest, destSynced, published, crashes>>

Running(w) == pc[w] \in {"made", "write", "replace", "cleanup", "unwind", "abandon"}

(* SIGKILL: no `finally`.                                                  *)
Kill(w) ==
    /\ Running(w)
    /\ pc' = [pc EXCEPT ![w] = "dead"]
    /\ UNCHANGED <<temp, cached, synced, dest, destSynced, published, crashes>>

(* The operating system writes file data and directory entries back when   *)
(* it likes.                                                               *)
WriteBackData(w) ==
    /\ synced[w] < cached[w]
    /\ synced' = [synced EXCEPT ![w] = @ + 1]
    /\ UNCHANGED <<pc, temp, cached, dest, destSynced, published, crashes>>

WriteBackEntry ==
    /\ destSynced # dest
    /\ destSynced' = dest
    /\ UNCHANGED <<pc, temp, cached, synced, dest, published, crashes>>

MachineCrash ==
    /\ crashes < MaxCrashes
    /\ crashes' = crashes + 1
    /\ dest' = destSynced
    /\ cached' = synced
    /\ temp' \in {t \in [Writers -> BOOLEAN] : \A w \in Writers : pc[w] = "idle" => ~t[w]}
    /\ pc' = [w \in Writers |-> IF Running(w) THEN "dead" ELSE pc[w]]
    /\ UNCHANGED <<synced, destSynced, published>>

Next ==
    \/ WriteBackEntry
    \/ MachineCrash
    \/ \E w \in Writers :
         \/ MakeTemp(w) \/ Open(w) \/ WritePiece(w) \/ Sync(w) \/ Replace(w)
         \/ Raise(w) \/ Interrupt(w) \/ Unlink(w) \/ UnlinkFails(w)
         \/ Kill(w) \/ WriteBackData(w)

Spec == Init /\ [][Next]_vars

-----------------------------------------------------------------------------
Whole(w) == cached[w] = Chunks

(***************************************************************************)
(* The destination never shows a part of an artifact: not while writers    *)
(* race, not after one of them is killed, and not after the machine has    *)
(* crashed and forgotten everything that was not synced.                   *)
(***************************************************************************)
DestinationIsWhole == dest # Absent => Whole(dest)

(***************************************************************************)
(* A writer that returned or raised an Exception has left no temporary     *)
(* file beside the artifact (the comment on `finally`), unless it is the   *)
(* unlink that failed, or a crash of the machine brought the name back.    *)
(***************************************************************************)
NoTempAfterReturn ==
    crashes = 0 => \A w \in Writers : pc[w] \in {"ok", "error"} => ~temp[w]

(***************************************************************************)
(* A writer that raised an Exception has not touched the destination, and  *)
(* one that returned normally has: the exit status of the command, which   *)
(* rests on this, may be trusted.  That includes the OSError of a failing  *)
(* unlink.  (An interrupt may come after the replacement, and says         *)
(* nothing.)                                                               *)
(***************************************************************************)
OutcomeIsHonest ==
    \A w \in Writers :
        /\ pc[w] \in {"error", "stuck"} => w \notin published
        /\ pc[w] = "ok" => w \in published

(***************************************************************************)
(* The refinement: readers see an ArtifactRegister.  A destination that    *)
(* refers to a partly written file maps to no value of the register.       *)
(***************************************************************************)
Torn == <<"torn">>

Register == INSTANCE ArtifactRegister
    WITH file <- IF dest = Absent THEN Absent ELSE IF Whole(dest) THEN dest ELSE Torn

ImplementsRegister == Register!Spec
=============================================================================
