-------------------------- MODULE ArtifactRegister --------------------------
(***************************************************************************)
(* What an atomic artifact writer promises its readers: the destination    *)
(* is a register.  It holds nothing or the whole artifact of one writer,   *)
(* and a writer's artifact appears in one step and at most once.  A crash  *)
(* of the machine may bring an earlier artifact back (the renamed          *)
(* directory entry need not be on disk yet), never a mixture or a part.    *)
(***************************************************************************)
CONSTANTS Writers, Absent

VARIABLES
    file,        \* whose artifact the destination holds
    published    \* the writers whose artifact has been at the destination

Init == file = Absent /\ published = {}

Publish(w) ==
    /\ w \notin published
    /\ file' = w
    /\ published' = published \cup {w}

Lose ==
    /\ file' \in published \cup {Absent}
    /\ UNCHANGED published

Next == Lose \/ \E w \in Writers : Publish(w)

Spec == Init /\ [][Next]_<<file, published>>
=============================================================================
