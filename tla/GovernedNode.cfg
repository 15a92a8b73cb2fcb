\* Two parts to a day, so that full days are counted down; one day, two runs.
SPECIFICATION Spec
CONSTANTS
    PartsPerDay = 2
    Modes = {"disabled", "shadow", "advisory", "blocking"}
    MaxAmendments = 3
    MaxClock = 3
    MaxRuns = 3
    Constitutions <- MCConstitutions
    Policies <- MCPolicies
CONSTRAINT OneStory
INVARIANTS
    AuthorityIsTraced
    PassMeansConforms
    NoFalseAlarm
PROPERTIES
    EligibleStaysEligible
CHECK_DEADLOCK FALSE
