---------------------------- MODULE BaselineRules ----------------------------
(***************************************************************************)
(* The decisions of the baseline ratchet (l9_ci/baseline), as operators:   *)
(* the strict loading of a ledger, the comparison of findings with it, the *)
(* reading of a pytest report log and of a PacketEnvelope scan.            *)
(*                                                                         *)
(* A list whose elements may have been dropped (the loaded entries) is a   *)
(* function from the positions that are left.  A fingerprint stands for    *)
(* the digest of what it is computed from, volatile text removed: equal    *)
(* components, equal fingerprints, and no collisions.                      *)
(***************************************************************************)
EXTENDS Naturals, FiniteSets, Sequences

(* What __post_init__ checks, in its order: `head` is everything before    *)
(* the owner, `tail` everything after the issue.                           *)
Flaws == {"not-a-mapping", "head", "owner", "issue", "tail"}

(* load_entries_strict names the first check that failed.                  *)
FlawKind(flaws) ==
    CASE flaws \cap {"not-a-mapping", "head"} # {} -> "malformed-baseline"
      [] /\ flaws \cap {"not-a-mapping", "head"} = {}
         /\ "owner" \in flaws -> "missing-owner"
      [] /\ flaws \cap {"not-a-mapping", "head", "owner"} = {}
         /\ "issue" \in flaws -> "missing-issue"
      [] OTHER -> "malformed-baseline"

(* Of the well-formed raw entries with one id the first is kept.           *)
KeptPositions(raws) ==
    {i \in DOMAIN raws :
        /\ raws[i].flaws = {}
        /\ \A j \in 1 .. i - 1 : raws[j].flaws = {} => raws[j].id # raws[i].id}

LoadedEntries(raws) == [i \in KeptPositions(raws) |-> raws[i].entry]

(* What is wrong, and with which element of which list.                    *)
Violation(kind, at) == [kind |-> kind, at |-> at]

EntryViolations(raws) ==
    {Violation(FlawKind(raws[i].flaws), <<"raw", i>>) : i \in
        {j \in DOMAIN raws : raws[j].flaws # {}}}
    \cup
    {Violation("malformed-baseline", <<"raw", i>>) : i \in
        {j \in DOMAIN raws : raws[j].flaws = {}} \ KeptPositions(raws)}

(* load_ledger of a document that is a YAML mapping.                       *)
RawEntries(doc) == IF doc.listed THEN doc.raws ELSE <<>>

DocumentViolations(doc) ==
    {Violation("malformed-baseline", <<"schema_version">>) :
        x \in {y \in {doc} : ~y.supported}}
    \cup
    {Violation("malformed-baseline", <<"entries">>) :
        x \in {y \in {doc} : ~y.listed}}

LoadedLedger(doc) ==
    [entries    |-> LoadedEntries(RawEntries(doc)),
     violations |-> DocumentViolations(doc) \cup EntryViolations(RawEntries(doc))]

(* load_rule_waivers: no file is no waiver, and no schema check.           *)
LoadedWaivers(file) ==
    IF file.kind = "absent"
    THEN [entries |-> <<>>, violations |-> {}]
    ELSE [entries    |-> LoadedEntries(RawEntries(file.doc)),
          violations |-> EntryViolations(RawEntries(file.doc)) \cup
                         {v \in DocumentViolations(file.doc) : v.at = <<"entries">>}]

-----------------------------------------------------------------------------
(* compare(gate, observed, entries, evaluated_on, ...).                    *)

IsExpired(entry, today) == today > entry.expires

(* entry_by_fingerprint: the first entry of every fingerprint.             *)
Indexed(entries) ==
    {i \in DOMAIN entries :
        \A j \in DOMAIN entries :
            j < i => entries[j].fingerprint # entries[i].fingerprint}

(* entry_by_fingerprint.get(fingerprint), as a set of at most one.         *)
Matches(entries, fingerprint) ==
    {i \in Indexed(entries) : entries[i].fingerprint = fingerprint}

(* entries_by_identity.                                                    *)
SameIdentity(entries, identity) ==
    {i \in Indexed(entries) : entries[i].identity = identity}

Occurrences(observed, fingerprint) ==
    {k \in DOMAIN observed : observed[k].fingerprint = fingerprint}

(* Mutant: a repeated fingerprint is skipped without a violation.          *)
NoDuplicateRows(entries) == {}

DuplicateRows(entries) ==
    {Violation("malformed-baseline", <<"entry", i>>) :
        i \in DOMAIN entries \ Indexed(entries)}

IncreasedRows(observed, entries) ==
    {Violation("increased-finding", <<"entry", i>>) : i \in
        {j \in Indexed(entries) :
            Cardinality(Occurrences(observed, entries[j].fingerprint)) > 1}}

(* Mutant: expiry is not looked at.                                        *)
NoExpiredObservations(observed, entries, today) == {}

ExpiredObservations(observed, entries, today) ==
    {k \in DOMAIN observed :
        \E i \in Matches(entries, observed[k].fingerprint) :
            IsExpired(entries[i], today)}

Known(observed, entries, today) ==
    {k \in DOMAIN observed :
        \E i \in Matches(entries, observed[k].fingerprint) :
            ~IsExpired(entries[i], today)}

(* Mutant: a changed failure of a ledgered identity is tolerated.          *)
NoChanged(observed, entries) == {}

Changed(observed, entries) ==
    {k \in DOMAIN observed :
        /\ Matches(entries, observed[k].fingerprint) = {}
        /\ SameIdentity(entries, observed[k].identity) # {}}

New(observed, entries) ==
    {k \in DOMAIN observed :
        /\ Matches(entries, observed[k].fingerprint) = {}
        /\ SameIdentity(entries, observed[k].identity) = {}}

(* Mutant: the identity of what is observed is not looked at.              *)
ResolvedByFingerprint(observed, entries) ==
    {i \in Indexed(entries) :
        \A k \in DOMAIN observed :
            observed[k].fingerprint # entries[i].fingerprint}

(* An entry nothing observed has, by fingerprint or by identity.           *)
Resolved(observed, entries) ==
    {i \in Indexed(entries) :
        \A k \in DOMAIN observed :
            /\ observed[k].fingerprint # entries[i].fingerprint
            /\ observed[k].identity # entries[i].identity}

(* What an entry that is still there although resolved is called.          *)
LeftoverKind(entry, passing) ==
    IF entry.kind = "test-quarantine" /\ entry.identity \in passing
    THEN "resolved-not-removed"
    ELSE "stale-entry"

LeftoverRows(observed, entries, passing, removalRequired) ==
    {Violation(LeftoverKind(entries[i], passing), <<"entry", i>>) : i \in
        {j \in Resolved(observed, entries) : removalRequired}}

ComparisonRows(observed, entries, today, passing, removalRequired) ==
    DuplicateRows(entries)
    \cup IncreasedRows(observed, entries)
    \cup {Violation("expired-exception", <<"finding", k>>) :
            k \in ExpiredObservations(observed, entries, today)}
    \cup {Violation("changed-signature", <<"finding", k>>) : k \in Changed(observed, entries)}
    \cup {Violation("new-finding", <<"finding", k>>) : k \in New(observed, entries)}
    \cup LeftoverRows(observed, entries, passing, removalRequired)

Compare(observed, entries, today, passing, removalRequired) ==
    LET rows == ComparisonRows(observed, entries, today, passing, removalRequired)
    IN  [passed     |-> rows = {},
         violations |-> rows,
         known      |-> Known(observed, entries, today),
         new        |-> New(observed, entries),
         resolved   |-> {entries[i].id : i \in Resolved(observed, entries)},
         summary    |->
            [observed_total   |-> Cardinality(DOMAIN observed),
             known_total      |-> Cardinality(Known(observed, entries, today)),
             new_total        |-> Cardinality(New(observed, entries)),
             changed_total    |-> Cardinality(Changed(observed, entries)),
             resolved_total   |-> Cardinality(Resolved(observed, entries)),
             expired_total    |-> Cardinality({i \in Indexed(entries) :
                                                IsExpired(entries[i], today)}),
             malformed_total  |-> Cardinality(DuplicateRows(entries)),
             violations_total |-> Cardinality(rows)]]

(* Mutant: the load's violations are reported without failing the gate.    *)
MergedReportOnly(comparison, ledger) ==
    [comparison EXCEPT !.violations = @ \cup ledger.violations]

(* The commands merge the violations of the load into the comparison; the  *)
(* summary stays the comparator's.                                         *)
Merged(comparison, ledger) ==
    [comparison EXCEPT !.passed = @ /\ ledger.violations = {},
                       !.violations = @ \cup ledger.violations]

Judge(observed, doc, today, passing) ==
    LET ledger == LoadedLedger(doc)
    IN  Merged(Compare(observed, ledger.entries, today, passing, TRUE), ledger)

-----------------------------------------------------------------------------
(* parse_report_log: a log is a sequence of records                        *)
(*   [type, node, when, outcome, xfail, signature].                        *)

FailedAt(log) ==
    {i \in DOMAIN log :
        /\ log[i].type \in {"CollectReport", "TestReport"}
        /\ log[i].outcome = "failed"}

(* findings[node_id]: a later failed record replaces an earlier one.       *)
JudgedAt(log) ==
    {i \in FailedAt(log) :
        \A j \in FailedAt(log) : log[j].node = log[i].node => j <= i}

FindingRule(record) ==
    CASE record.type = "CollectReport" -> "pytest-collection-failure"
      [] record.type = "TestReport" /\ record.when = "call" -> "pytest-failure"
      [] OTHER -> "pytest-error"

TestFinding(record) ==
    [rule        |-> FindingRule(record),
     identity    |-> record.node,
     fingerprint |-> <<record.node, record.signature>>]

TestFindings(log) == [i \in JudgedAt(log) |-> TestFinding(log[i])]

Reported(log, outcome) ==
    {i \in DOMAIN log : log[i].type = "TestReport" /\ log[i].outcome = outcome}

NodesOf(log, positions) == {log[i].node : i \in positions}

(* passing - set(findings): a pass counts only without any failure.        *)
PassingNodes(log) ==
    NodesOf(log, {i \in Reported(log, "passed") : log[i].when = "call"})
        \ NodesOf(log, FailedAt(log))

XfailedNodes(log) == NodesOf(log, {i \in Reported(log, "skipped") : log[i].xfail})
SkippedNodes(log) == NodesOf(log, {i \in Reported(log, "skipped") : ~log[i].xfail})

TotalCollected(log) ==
    Cardinality({i \in Reported(log, "passed") : log[i].when = "call"})
    + Cardinality({i \in Reported(log, "skipped") \cup Reported(log, "failed") :
                    log[i].when \in {"call", "setup"}})

ParsedLog(log) ==
    [findings  |-> TestFindings(log),
     passing   |-> PassingNodes(log),
     skipped   |-> SkippedNodes(log),
     xfailed   |-> XfailedNodes(log),
     collected |-> TotalCollected(log)]

-----------------------------------------------------------------------------
(* scan_repository.  A file is [path, form, usages]: the text may be       *)
(* unreadable or unparseable, and the visitor meets each usage [kind,      *)
(* context] of the deprecated name usages[u] times.                        *)

PacketEnvelopeRule == "packet-envelope-prohibited"

DeclarationKinds == {"class-def", "name-ref", "string-annotation"}

Unparseable == [kind |-> "unparseable-file", context |-> "failed to parse"]

UsagesMet(file) == {u \in DOMAIN file.usages : file.usages[u] > 0}

(* Mutant: a file that does not parse has no usage.                        *)
ParsedUsages(file) == IF file.form = "text" THEN UsagesMet(file) ELSE {}

ScannedUsages(file) ==
    CASE file.form = "unreadable" -> {}
      [] UsagesMet(file) = {} -> {}
      [] file.form = "unparseable" /\ UsagesMet(file) # {} -> {Unparseable}
      [] OTHER -> UsagesMet(file)

(* One finding per (path, kind, context), whatever its count.              *)
EnvelopeFindings(files, declared) ==
    LET keys == UNION {{<<file.path, u.kind, u.context>> :
                        u \in {v \in ScannedUsages(file) :
                                ~(file.path \in declared /\ v.kind \in DeclarationKinds)}}
                       : file \in files}
    IN  [key \in keys |->
            [rule        |-> PacketEnvelopeRule,
             identity    |-> <<key[1], <<key[2], key[3]>>>>,
             fingerprint |-> key]]
=============================================================================
