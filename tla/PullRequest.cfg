\* A first page of one comment, so that a marker may be beyond it.
SPECIFICATION Spec
CONSTANTS
    Derived = {"manifest", "lock"}
    MaxCommits = 3
    MaxEvents = 1
    MaxComments = 1
    PageSize = 1
    Tags <- MCTags
    Priority <- MCPriority
    RuleFiles <- MCRuleFiles
CONSTRAINT OneStory
INVARIANTS
    IdleBotLeavesFresh
    OneCurrentComment
    HeadIsJudged
    ScannedSecretsBlock
    ClassIsEarned
    SummaryAgreesWithGate
PROPERTIES
    NoCommitLost
CHECK_DEADLOCK FALSE
