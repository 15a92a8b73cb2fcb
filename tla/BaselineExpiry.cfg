\* The same inputs, and what the table of comparator.py says of expiry.
SPECIFICATION Spec
CONSTANTS
    MaxObserved = 3
    RawFlaws = {{}, {"owner"}, {"owner", "issue"}, {"issue", "tail"}, {"head"}}
    Today = 1
    Documents <- MCDocuments
    ObservedLists <- MCObservedLists
    PassingSets <- MCPassingSets
CHECK_DEADLOCK FALSE
INVARIANTS
    ExpiredEntryBlocks
