\* The comparator: ledgers of up to two entries, up to three findings.  The
\* gate: up to two records of each kind.
SPECIFICATION VerdictsSpec
CONSTANTS
    MaxObserved = 3
    RawFlaws = {{}, {"owner"}, {"owner", "issue"}, {"issue", "tail"}, {"head"}}
    Today = 1
    Documents <- MCDocuments
    ObservedLists <- MCObservedLists
    PassingSets <- MCPassingSets
    ProviderIds = {p1, p2}
    FindingIds = {f1, f2}
    MaxProviders = 2
    MaxFailures = 2
    MaxFindings = 2
CONSTRAINT OneSideIsRich
CHECK_DEADLOCK FALSE
INVARIANTS
    PassIsCovered
    OrderIsIrrelevant
    RemovalsAreSafe
    VerdictIsWorstDefect
PROPERTIES
    OnlyClaimsRedeem
