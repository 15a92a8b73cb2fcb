SPECIFICATION FairSpec
CONSTANTS
    m1 = m1
    m2 = m2
    m3 = m3
    Jobs = {j1}
    Requests <- AllRequests
    Matches = {m1, m2, m3}
    Resolvable = {m1, m3}
    Listed = {m1}
    PolicyMode <- MCModes
    Contents <- ManyContents
    FindingLimit = 2
    FreshWorkspace = TRUE
    Overlap = FALSE
    MaxDrift = 2
INVARIANTS
    StrictBundleIsDecided
    CompleteCoverageIsEarned
    PassRestsOnOwnScan
    CleanBundleIsOwnScan
PROPERTIES
    StartedJobEnds
CHECK_DEADLOCK FALSE
