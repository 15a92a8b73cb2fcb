------------------------------ MODULE MCVerdicts ------------------------------
(* The two verdicts that are functions of their inputs, for TLC: the gate  *)
(* over a growing bundle and the comparator over a chosen ledger.  They    *)
(* share nothing: a behaviour is of one of them, the other rests.          *)
EXTENDS MCBaselineComparison, GateEvaluation

VARIABLE judge    \* the one that moves

NothingKnown == [supported |-> TRUE, listed |-> TRUE, raws |-> <<>>]

VerdictsInit ==
    /\ judge \in {"gate", "comparator"}
    /\ GateInit
    /\ Init
    /\ judge = "gate" =>
         doc = NothingKnown /\ observed = <<>> /\ passing = {}

VerdictsNext ==
    /\ UNCHANGED judge
    /\ \/ judge = "gate" /\ GateNext /\ UNCHANGED vars
       \/ judge = "comparator" /\ CompareOnce /\ UNCHANGED bundle

VerdictsSpec == VerdictsInit /\ [][VerdictsNext]_<<vars, bundle, judge>>

(* Bundles rich in providers, or rich in findings.                         *)
OneSideIsRich ==
    \/ Len(bundle.findings) + Len(bundle.classes) = 0
    \/ Len(bundle.providers) + Len(bundle.coverage) + Len(bundle.failures) <= 2
=============================================================================
