\* The same instance, and what the script says of a comment that goes wrong.
SPECIFICATION Spec
CONSTANTS
    Derived = {"manifest", "lock"}
    MaxCommits = 3
    MaxEvents = 1
    MaxComments = 1
    PageSize = 1
    Tags <- MCTags
    Priority <- MCPriority
    RuleFiles <- MCRuleFiles
CONSTRAINT OneStory
PROPERTIES
    CommentNeverBreaksCI
CHECK_DEADLOCK FALSE
