-------------------------- MODULE QuarantineRatchet --------------------------
(***************************************************************************)
(* The test quarantine over time: developers break and fix tests, humans   *)
(* edit the ledger, days pass, and CI jobs run pytest with a report log    *)
(* and then `l9-ci baseline compare-tests`.  A job works on a checkout:    *)
(* tests and ledger do not change under it, the date may.                  *)
(* External: pytest, and the humans.  A reused machine keeps the log of an *)
(* earlier job, of whatever branch that was, and a pytest that dies leaves *)
(* a part of a log (Aborts).                                               *)
(***************************************************************************)
EXTENDS BaselineRules, FiniteSetsExt, SequencesExt

CONSTANTS
    TestOrder,          \* the tests, in the order pytest runs them
    Outcomes,           \* what a test can do: sequences of phase records
    Signatures,         \* normalized failure signatures
    Grace,              \* a new or renewed entry expires after these days
    MaxDay,             \* bound: days
    MaxEntries,         \* bound: entries of the ledger
    Aborts              \* pytest may die, and the machine is reused

ASSUME QuarantineAssumption ==
    /\ Grace \in Nat /\ MaxDay \in Nat /\ MaxEntries \in Nat
    /\ Aborts \in BOOLEAN

VARIABLES
    tests,      \* per test: its outcome in the checked-out code
    ledger,     \* the entries: sets of [node, signature, expires]
    ledgerForm, \* "sound", "flawed" (an entry without owner) or "unreadable"
    day,        \* today, in UTC
    log,        \* the report log on the machine
    job,        \* the step of the CI job
    exit,       \* the exit code of the last compare-tests
    accepted,   \* history: the failures of the last full run that passed
    edited      \* history: the ledger was edited after that run

quarantineVars == <<tests, ledger, ledgerForm, day, log, job, exit, accepted, edited>>

Tests == ToSet(TestOrder)

NodeOf(t, record) ==
    IF record.type = "CollectReport" THEN <<t, "file">> ELSE <<t, "test">>

RecordsOf(suite, t) ==
    [i \in DOMAIN suite[t] |->
        [type      |-> suite[t][i].type,
         node      |-> NodeOf(t, suite[t][i]),
         when      |-> suite[t][i].when,
         outcome   |-> suite[t][i].outcome,
         xfail     |-> suite[t][i].xfail,
         signature |-> suite[t][i].signature]]

LogOf(suite) ==
    FlattenSeq([i \in DOMAIN TestOrder |-> RecordsOf(suite, TestOrder[i])])

(* A report log is a sequence, and what fails is a test or a collection.   *)
ASSUME LogAssumption ==
    \A suite \in [Tests -> Outcomes] :
        /\ LogOf(suite) \in Seq(Range(LogOf(suite)))
        /\ \A record \in Range(LogOf(suite)) :
             record.outcome = "failed" => record.type \in {"CollectReport", "TestReport"}

WholeLog == LogOf(tests)

Nodes == Tests \X {"test", "file"}

Entry == [node : Nodes, signature : Signatures, expires : 0 .. MaxDay + Grace]

Exits == {"none", "SUCCESS", "GATE_FAILURE", "INVALID_ARGUMENTS",
          "PROVIDER_REPORT_FAILURE"}

QuarantineTypeOK ==
    /\ tests \in [Tests -> Outcomes]
    /\ ledger \subseteq Entry
    /\ ledgerForm \in {"sound", "flawed", "unreadable"}
    /\ day \in 0 .. MaxDay
    /\ log.form \in {"absent", "torn", "lines"}
    /\ job \in {"idle", "checked-out", "tested"}
    /\ exit \in Exits
    /\ accepted \subseteq Nodes \X Signatures
    /\ edited \in BOOLEAN

NoLog == [form |-> "absent", lines |-> <<>>]

QuarantineInit ==
    /\ tests \in [Tests -> Outcomes]
    /\ ledger = {}
    /\ ledgerForm = "sound"
    /\ day = 0
    /\ log = NoLog
    /\ job = "idle"
    /\ exit = "none"
    /\ accepted = {}
    /\ edited = TRUE

-----------------------------------------------------------------------------
ChangeTest(t) ==
    /\ job = "idle"
    /\ \E o \in Outcomes : o # tests[t] /\ tests' = [tests EXCEPT ![t] = o]
    /\ UNCHANGED <<ledger, ledgerForm, day, log, job, exit, accepted, edited>>

(* A pull request adds an entry, renews one or removes one.  A test may    *)
(* have several, of different failures: nothing in load_ledger objects.    *)
EditLedger ==
    /\ job = "idle"
    /\ \/ \E n \in Nodes, s \in Signatures :
            /\ Cardinality(ledger) < MaxEntries
            /\ \A e \in ledger : e.node = n => e.signature # s
            /\ ledger' = ledger \cup {[node |-> n, signature |-> s, expires |-> day + Grace]}
       \/ \E e \in ledger :
            \/ ledger' = ledger \ {e}
            \/ ledger' = (ledger \ {e}) \cup {[e EXCEPT !.expires = day + Grace]}
    /\ ledger' # ledger
    /\ edited' = TRUE
    /\ UNCHANGED <<tests, ledgerForm, day, log, job, exit, accepted>>

BreakLedger ==
    /\ job = "idle"
    /\ ledgerForm' \in {"sound", "flawed", "unreadable"} \ {ledgerForm}
    /\ edited' = TRUE
    /\ UNCHANGED <<tests, ledger, day, log, job, exit, accepted>>

NewDay ==
    /\ day < MaxDay
    /\ day' = day + 1
    /\ UNCHANGED <<tests, ledger, ledgerForm, log, job, exit, accepted, edited>>

Checkout ==
    /\ job = "idle"
    /\ job' = "checked-out"
    /\ UNCHANGED <<tests, ledger, ledgerForm, day, log, exit, accepted, edited>>

(* pytest --report-log.  Dying, it may not have opened the log, and there  *)
(* is none or an earlier job's, or leave some whole lines, the last one    *)
(* torn or not.                                                            *)
RunPytest ==
    /\ job = "checked-out"
    /\ \/ log' = [form |-> "lines", lines |-> WholeLog]
       \/ Aborts /\ UNCHANGED log
       \/ /\ Aborts
          /\ \E earlier \in [Tests -> Outcomes] :
                log' = [form |-> "lines", lines |-> LogOf(earlier)]
       \/ /\ Aborts
          /\ \E n \in 0 .. Len(WholeLog), form \in {"lines", "torn"} :
                log' = [form |-> form, lines |-> SubSeq(WholeLog, 1, n)]
    /\ job' = "tested"
    /\ UNCHANGED <<tests, ledger, ledgerForm, day, exit, accepted, edited>>

-----------------------------------------------------------------------------
(* The ledger as the document load_ledger reads.                           *)
LedgerDocument ==
    LET entries == SetToSeq(ledger)
    IN  [supported |-> TRUE,
         listed    |-> TRUE,
         raws      |-> [i \in DOMAIN entries |->
            [id    |-> i,
             flaws |-> IF ledgerForm = "flawed" /\ i = 1 THEN {"owner"} ELSE {},
             entry |-> [id          |-> i,
                        kind        |-> "test-quarantine",
                        identity    |-> entries[i].node,
                        fingerprint |-> <<entries[i].node, entries[i].signature>>,
                        expires     |-> entries[i].expires]]]]

Judgement ==
    LET parsed == ParsedLog(log.lines)
    IN  Judge(parsed.findings, LedgerDocument, day, parsed.passing)

(* Mutant: the whole lines before a torn one are judged.                   *)
CompareTestsExitTorn ==
    CASE log.form = "absent" -> "PROVIDER_REPORT_FAILURE"
      [] log.form # "absent" /\ ledgerForm = "unreadable" -> "INVALID_ARGUMENTS"
      [] OTHER -> IF Judgement.passed THEN "SUCCESS" ELSE "GATE_FAILURE"

CompareTestsExit ==
    CASE log.form # "lines" -> "PROVIDER_REPORT_FAILURE"
      [] log.form = "lines" /\ ledgerForm = "unreadable" -> "INVALID_ARGUMENTS"
      [] OTHER -> IF Judgement.passed THEN "SUCCESS" ELSE "GATE_FAILURE"

(* What fails in a run: of a test that fails in several phases, the last.  *)
FailuresIn(lines) ==
    {<<lines[i].node, lines[i].signature>> : i \in
        {j \in DOMAIN lines :
            /\ lines[j].outcome = "failed"
            /\ \A k \in j + 1 .. Len(lines) :
                  lines[k].outcome = "failed" => lines[k].node # lines[j].node}}

CompareTests ==
    /\ job = "tested"
    /\ exit' = CompareTestsExit
    /\ IF exit' = "SUCCESS" /\ log.lines = WholeLog
       THEN accepted' = FailuresIn(WholeLog) /\ edited' = FALSE
       ELSE UNCHANGED <<accepted, edited>>
    /\ job' = "idle"
    /\ log' = NoLog
    /\ UNCHANGED <<tests, ledger, ledgerForm, day>>

QuarantineNext ==
    \/ \E t \in Tests : ChangeTest(t)
    \/ EditLedger
    \/ BreakLedger
    \/ NewDay
    \/ Checkout
    \/ RunPytest
    \/ CompareTests

(* Days pass, and CI keeps running the job: at each of its steps there is  *)
(* one to take, so that the job can always move.                           *)
JobMoves == job' \in {"idle", "checked-out", "tested"} \ {job}

Fairness == WF_quarantineVars(NewDay) /\ WF_job(JobMoves)

QuarantineSpec == QuarantineInit /\ [][QuarantineNext]_quarantineVars

FairSpec == QuarantineSpec /\ Fairness

-----------------------------------------------------------------------------
PassingRun == job = "tested" /\ job' = "idle" /\ exit' = "SUCCESS"

Ledgered == {<<e.node, e.signature>> : e \in ledger}

FullRun == log = [form |-> "lines", lines |-> WholeLog]

LedgeredToday == {<<e.node, e.signature>> : e \in {f \in ledger : day <= f.expires}}

NodesWith(failures) == {f[1] : f \in failures}

(* Whatever happened to pytest, a pass rests on whole lines in which the   *)
(* last failed phase of every test is ledgered in an entry that has not    *)
(* expired, and in which every ledgered test fails, of a ledger that was   *)
(* readable and owned.  The lines may be a part of the run or an earlier   *)
(* job's.  A test with several entries needs one of them: the others may   *)
(* be expired or of failures that are gone (comparator.py:206).            *)
PassIsWhatTheLogSays ==
    [][PassingRun =>
        /\ log.form = "lines"
        /\ FailuresIn(log.lines) \subseteq LedgeredToday
        /\ NodesWith(FailuresIn(log.lines)) = NodesWith(Ledgered)
        /\ ledgerForm # "unreadable"
        /\ ledgerForm = "flawed" => ledger = {}]_quarantineVars

(* The ratchet: between two full runs that pass, without an edit of the    *)
(* ledger, no test joins the accepted failures and none silently leaves    *)
(* them, and each accepted failure is ledgered.  What is accepted of one   *)
(* test may turn into another of its ledgered failures.                    *)
DebtMovesOnlyByEdits ==
    [][PassingRun /\ FullRun /\ ~edited =>
        /\ NodesWith(accepted') = NodesWith(accepted)
        /\ accepted' \subseteq Ledgered]_quarantineVars

Doomed(n) ==
    /\ n \in NodesWith(Ledgered)
    /\ \A e \in ledger : e.node = n => e.expires < MaxDay

(* A ledger nobody edits any more, with a test all of whose entries are to *)
(* expire, blocks for good in the end, whatever developers do to the tests *)
(* and whatever happens to pytest: an entry of the test has expired, or    *)
(* all are left over.                                                      *)
UntouchedExceptionBlocks ==
    /\ <>[][ledger' = ledger]_quarantineVars
    /\ <>[](\E n \in Nodes : Doomed(n))
    => <>[](exit # "SUCCESS")
=============================================================================
