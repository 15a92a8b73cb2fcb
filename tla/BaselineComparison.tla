-------------------------- MODULE BaselineComparison --------------------------
(***************************************************************************)
(* The comparator on its inputs: one ledger document, one list of observed *)
(* findings, the nodes that passed and the date are chosen, and compared   *)
(* once the way compare-tests and compare-scan do it.                      *)
(***************************************************************************)
EXTENDS BaselineRules, SequencesExt

CONSTANTS
    Documents,      \* ledger documents that parse as YAML
    ObservedLists,  \* sequences of findings [identity, fingerprint]
    PassingSets,    \* sets of identities
    Today           \* the date of the evaluation

(* A list of the YAML document or of findings is finite; an entry has the  *)
(* id of what it was made of, and its dates are dates.                     *)
ASSUME ComparisonAssumption ==
    /\ Today \in Nat
    /\ \A o \in ObservedLists : o \in Seq(Range(o))
    /\ \A d \in Documents :
        /\ d = [supported |-> d.supported, listed |-> d.listed, raws |-> d.raws]
        /\ d.supported \in BOOLEAN /\ d.listed \in BOOLEAN
        /\ d.raws \in Seq(Range(d.raws))
        /\ \A i \in DOMAIN d.raws :
            /\ d.raws[i].flaws \subseteq Flaws
            /\ d.raws[i].entry.id = d.raws[i].id
            /\ d.raws[i].entry.expires \in Nat

VARIABLES doc, observed, passing, result

vars == <<doc, observed, passing, result>>

NotCompared == [passed |-> FALSE, violations |-> {"not compared"}]

Init ==
    /\ doc \in Documents
    /\ observed \in ObservedLists
    /\ passing \in PassingSets
    /\ \A k \in DOMAIN observed : observed[k].identity \notin passing
    /\ result = NotCompared

CompareOnce ==
    /\ result = NotCompared
    /\ result' = Judge(observed, doc, Today, passing)
    /\ UNCHANGED <<doc, observed, passing>>

Spec == Init /\ [][CompareOnce]_vars

Compared == result # NotCompared

-----------------------------------------------------------------------------
Entries == LoadedLedger(doc).entries

LedgerIsSound == LoadedLedger(doc).violations = {}

OneOf(S) == Cardinality(S) = 1

(* The gate passes exactly when the ledger is sound and without repeated   *)
(* ids or fingerprints, every finding occurs once under an entry of its    *)
(* own that has not expired, and every other entry shares its identity     *)
(* with a finding.  That other entry is excused even if it has expired:    *)
(* compare skips it at line 206 as "already reported", which it need not   *)
(* be when the finding is known by another entry (ExpiredEntryBlocks).     *)
PassIsCovered ==
    Compared =>
        ( result.passed <=>
            /\ doc.supported /\ doc.listed
            /\ \A i \in DOMAIN doc.raws :
                 /\ doc.raws[i].flaws = {}
                 /\ \A j \in DOMAIN doc.raws \ {i} :
                      /\ doc.raws[i].id # doc.raws[j].id
                      /\ doc.raws[i].entry.fingerprint # doc.raws[j].entry.fingerprint
            /\ \A k \in DOMAIN observed :
                 /\ OneOf({l \in DOMAIN observed :
                             observed[l].fingerprint = observed[k].fingerprint})
                 /\ \E i \in DOMAIN doc.raws :
                      /\ doc.raws[i].entry.fingerprint = observed[k].fingerprint
                      /\ Today <= doc.raws[i].entry.expires
            /\ \A i \in DOMAIN doc.raws : \E k \in DOMAIN observed :
                 \/ observed[k].fingerprint = doc.raws[i].entry.fingerprint
                 \/ observed[k].identity = doc.raws[i].entry.identity )

(* The table of comparator.py, line 12: "ledger entry past expiry -> FAIL  *)
(* expired-exception".                                                     *)
ExpiredEntryBlocks ==
    Compared /\ result.passed =>
        \A i \in DOMAIN doc.raws : ~IsExpired(doc.raws[i].entry, Today)

(* Neither the order of the ledger nor that of the findings decides the    *)
(* verdict, although the first of two entries wins in every index.         *)
OrderIsIrrelevant ==
    Compared =>
        result.passed =
            Judge(Reverse(observed), [doc EXCEPT !.raws = Reverse(@)], Today, passing).passed

(* A human who applies suggested_removals to a sound ledger without        *)
(* repeated fingerprints loses the leftover violations and gains nothing:  *)
(* every other violation stays, no finding becomes new, and the next       *)
(* comparison suggests no removal.                                         *)
WithoutResolved ==
    [i \in {j \in DOMAIN Entries : Entries[j].id \notin result.resolved} |-> Entries[i]]

RemovalsAreSafe ==
    ( /\ Compared
      /\ LedgerIsSound
      /\ DuplicateRows(Entries) = {} ) =>
        LET again == Compare(observed, WithoutResolved, Today, passing, TRUE)
        IN  /\ again.resolved = {}
            /\ again.violations =
                 {v \in result.violations :
                    v.kind \notin {"stale-entry", "resolved-not-removed"}}
=============================================================================
