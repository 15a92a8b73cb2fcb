------------------------------ MODULE MCRatchets ------------------------------
(* The two ratchets of a repository for TLC, the test quarantine and the   *)
(* migration debt.  They share the comparator and no state: a behaviour is *)
(* of one of them, and the other one rests where it began.                 *)
EXTENDS QuarantineRatchet, EnvelopeRatchet

CONSTANTS a, p, q

VARIABLE ratchet    \* the one that moves

ratchetVars == <<quarantineVars, envelopeVars, ratchet>>

(* Outcomes of a test: the records a report log has of it.                 *)
Rec(type, when, outcome, xfail, signature) ==
    [type |-> type, when |-> when, outcome |-> outcome, xfail |-> xfail,
     signature |-> signature]

Passes == <<Rec("TestReport", "call", "passed", FALSE, "none")>>
Skips == <<Rec("TestReport", "setup", "skipped", FALSE, "none")>>
Xfails == <<Rec("TestReport", "call", "skipped", TRUE, "none")>>
Fails(s) == <<Rec("TestReport", "call", "failed", FALSE, s)>>
TeardownFails(s) == Append(Passes, Rec("TestReport", "teardown", "failed", FALSE, s))
BothFail(s, t) == Append(Fails(s), Rec("TestReport", "teardown", "failed", FALSE, t))
CollectionFails(s) == <<Rec("CollectReport", "collect", "failed", FALSE, s)>>

MCOneTest == <<a>>

AllOutcomes ==
    {Passes, Skips, Xfails, Fails("s1"), Fails("s2"), TeardownFails("s1"),
     CollectionFails("s1"), BothFail("s2", "s1")}

MCUsages == {[kind |-> "import-from", context |-> "m.PacketEnvelope"],
             [kind |-> "name-ref", context |-> "PacketEnvelope"]}

RatchetsInit ==
    /\ ratchet \in {"quarantine", "envelope"}
    /\ QuarantineInit
    /\ EnvelopeInit
    /\ ratchet = "envelope" => tests = [t \in Tests |-> Passes]

RatchetsNext ==
    /\ UNCHANGED ratchet
    /\ \/ ratchet = "quarantine" /\ QuarantineNext /\ UNCHANGED envelopeVars
       \/ ratchet = "envelope" /\ EnvelopeNext /\ UNCHANGED quarantineVars

(* The quarantine's fairness, for the behaviours in which it moves.        *)
RatchetsSpec ==
    /\ RatchetsInit
    /\ [][RatchetsNext]_ratchetVars
    /\ WF_quarantineVars(ratchet = "quarantine" /\ NewDay)
    /\ WF_job(ratchet = "quarantine" /\ JobMoves)
=============================================================================
