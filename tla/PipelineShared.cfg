SPECIFICATION Spec
CONSTANTS
    m1 = m1
    m2 = m2
    m3 = m3
    Jobs = {j1, j2}
    Requests <- MixedRequests
    Matches = {m1, m2, m3}
    Resolvable = {m1, m3}
    Listed = {m1}
    PolicyMode <- MCModes
    Contents <- FewContents
    FindingLimit = 2
    FreshWorkspace = FALSE
    Overlap = TRUE
    MaxDrift = 0
INVARIANTS
    CompleteCoverageIsEarned
    ErrorExitPublishesNothing
CHECK_DEADLOCK FALSE
SYMMETRY JobSymmetry
