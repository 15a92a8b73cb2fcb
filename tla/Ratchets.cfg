\* The quarantine: one test whose file may fail too, two entries of one day,
\* three days; pytest may die, and the machine may hold a log of an earlier
\* job.  The migration debt: a file and the declaration's file; a scan may
\* fail or be killed.
SPECIFICATION RatchetsSpec
CONSTANTS
    a = a
    TestOrder <- MCOneTest
    Outcomes <- AllOutcomes
    Signatures = {"s1", "s2"}
    Grace = 0
    MaxDay = 2
    MaxEntries = 2
    Aborts = TRUE
    p = p
    q = q
    Paths = {p, q}
    Declared = {q}
    Usages <- MCUsages
    MaxCount = 1
    Forms = {"text", "unparseable", "unreadable"}
    Mishaps = TRUE
PROPERTIES
    DebtMovesOnlyByEdits
    PassIsWhatTheLogSays
    UntouchedExceptionBlocks
    PassIsLedgered
