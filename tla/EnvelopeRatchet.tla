--------------------------- MODULE EnvelopeRatchet ---------------------------
(***************************************************************************)
(* The migration debt of the deprecated PacketEnvelope over time:          *)
(* developers add and remove usages and break files, humans edit the       *)
(* ledger, and CI jobs run `baseline scan-packet-envelope`, which leaves a *)
(* findings document, and then `baseline compare-scan` on it.  The entries *)
(* have distinct fingerprints and do not expire here.                      *)
(***************************************************************************)
EXTENDS BaselineRules, SequencesExt

CONSTANTS
    Paths,          \* Python files outside the excluded directories
    Declared,       \* --declaration-path: the declaration's own files
    Usages,         \* [kind, context]
    MaxCount,       \* bound: occurrences of one usage in one file
    Forms,          \* "text", "unparseable", "unreadable"
    Mishaps         \* a scan may fail or be killed, on a reused machine

(* A tree has finitely many files, and none is named like the rule.        *)
ASSUME EnvelopeAssumption ==
    /\ IsFiniteSet(Paths) /\ IsFiniteSet(Usages)
    /\ PacketEnvelopeRule \notin Paths
    /\ Declared \subseteq Paths
    /\ MaxCount \in Nat
    /\ "text" \in Forms /\ Forms \subseteq {"text", "unparseable", "unreadable"}
    /\ Mishaps \in BOOLEAN

VARIABLES
    code,           \* per path: [form, usages]
    debtLedger,     \* the fingerprints of the entries
    document,       \* the findings document on the machine
    scanJob,        \* the step of the CI job
    scanExit        \* the exit code of the last compare-scan

envelopeVars == <<code, debtLedger, document, scanJob, scanExit>>

File == [form : Forms, usages : [Usages -> 0 .. MaxCount]]

Keys ==
    {<<p, u.kind, u.context>> : p \in Paths, u \in Usages \cup {Unparseable}}

NoDocument == [form |-> "absent", findings |-> <<>>]

EnvelopeTypeOK ==
    /\ code \in [Paths -> File]
    /\ debtLedger \subseteq Keys
    /\ document.form \in {"absent", "torn", "json"}
    /\ DOMAIN document.findings \subseteq Keys
    /\ scanJob \in {"idle", "checked-out", "scanned"}
    /\ scanExit \in {"none", "SUCCESS", "GATE_FAILURE", "PROVIDER_REPORT_FAILURE"}

Clean == [form |-> "text", usages |-> [u \in Usages |-> 0]]

EnvelopeInit ==
    /\ code = [p \in Paths |-> Clean]
    /\ debtLedger = {}
    /\ document = NoDocument
    /\ scanJob = "idle"
    /\ scanExit = "none"

Files == {[path |-> p, form |-> code[p].form, usages |-> code[p].usages] : p \in Paths}

-----------------------------------------------------------------------------
ChangeUsage(p, u) ==
    /\ scanJob = "idle"
    /\ \E n \in 0 .. MaxCount :
        /\ n # code[p].usages[u]
        /\ code' = [code EXCEPT ![p].usages[u] = n]
    /\ UNCHANGED <<debtLedger, document, scanJob, scanExit>>

ChangeForm(p) ==
    /\ scanJob = "idle"
    /\ \E form \in Forms \ {code[p].form} : code' = [code EXCEPT ![p].form = form]
    /\ UNCHANGED <<debtLedger, document, scanJob, scanExit>>

EditDebtLedger(key) ==
    /\ scanJob = "idle"
    /\ debtLedger' =
         IF key \in debtLedger THEN debtLedger \ {key} ELSE debtLedger \cup {key}
    /\ UNCHANGED <<code, document, scanJob, scanExit>>

CheckoutTree ==
    /\ scanJob = "idle"
    /\ scanJob' = "checked-out"
    /\ document' = IF Mishaps THEN document ELSE NoDocument
    /\ UNCHANGED <<code, debtLedger, scanExit>>

(* scan-packet-envelope --output: write_text, so a kill tears the document; *)
(* a root that is no directory leaves the document of an earlier job.      *)
Scan ==
    /\ scanJob = "checked-out"
    /\ \/ document' = [form |-> "json", findings |-> EnvelopeFindings(Files, Declared)]
       \/ Mishaps /\ UNCHANGED document
       \/ Mishaps /\ document' = [form |-> "torn", findings |-> <<>>]
    /\ scanJob' = "scanned"
    /\ UNCHANGED <<code, debtLedger, scanExit>>

DebtDocument ==
    LET entries == SetToSeq(debtLedger)
    IN  [supported |-> TRUE,
         listed    |-> TRUE,
         raws      |-> [i \in DOMAIN entries |->
            [id    |-> i,
             flaws |-> {},
             entry |-> [id          |-> i,
                        kind        |-> "baseline",
                        identity    |-> <<PacketEnvelopeRule, entries[i][1]>>,
                        fingerprint |-> entries[i],
                        expires     |-> 0]]]]

CompareScanExit ==
    IF document.form # "json" THEN "PROVIDER_REPORT_FAILURE"
    ELSE IF Judge(document.findings, DebtDocument, 0, {}).passed
         THEN "SUCCESS" ELSE "GATE_FAILURE"

CompareScan ==
    /\ scanJob = "scanned"
    /\ scanExit' = CompareScanExit
    /\ scanJob' = "idle"
    /\ document' = IF Mishaps THEN document ELSE NoDocument
    /\ UNCHANGED <<code, debtLedger>>

EnvelopeNext ==
    \/ \E p \in Paths, u \in Usages : ChangeUsage(p, u)
    \/ \E p \in Paths : ChangeForm(p)
    \/ \E key \in Keys : EditDebtLedger(key)
    \/ CheckoutTree
    \/ Scan
    \/ CompareScan

EnvelopeSpec == EnvelopeInit /\ [][EnvelopeNext]_envelopeVars

-----------------------------------------------------------------------------
PassingScan == scanJob = "scanned" /\ scanJob' = "idle" /\ scanExit' = "SUCCESS"

IsDebt(p, u) == ~(p \in Declared /\ u.kind \in DeclarationKinds)

(* The debt a reader of the code sees, ignoring what cannot be read.       *)
DebtOf(files) ==
    {d \in Paths \X Usages :
        /\ files[d[1]].form # "unreadable"
        /\ files[d[1]].usages[d[2]] > 0
        /\ IsDebt(d[1], d[2])}

LedgerCovers(p, u) ==
    \/ <<p, u.kind, u.context>> \in debtLedger /\ code[p].form = "text"
    \/ <<p, Unparseable.kind, Unparseable.context>> \in debtLedger
       /\ code[p].form = "unparseable"

OwnDocument ==
    document = [form |-> "json", findings |-> EnvelopeFindings(Files, Declared)]

(* Whatever happened to the scan, a pass rests on a whole findings         *)
(* document with exactly the ledgered fingerprints.  If that is its own    *)
(* scan's, it leaves no readable debt unledgered: a syntax error needs an  *)
(* entry of its own (packet_envelope.py:161), a declaration only excuses   *)
(* the declaration, and no entry outlives its debt.  How often a ledgered  *)
(* usage occurs in its file is not counted.                                *)
PassIsLedgered ==
    [][PassingScan =>
        /\ document.form = "json"
        /\ DOMAIN document.findings = debtLedger
        /\ OwnDocument =>
            /\ \A d \in DebtOf(code) : LedgerCovers(d[1], d[2])
            /\ \A key \in debtLedger : \E p \in Paths, u \in Usages :
                  key[1] = p /\ code[p].form # "unreadable" /\ code[p].usages[u] > 0]_envelopeVars
=============================================================================
