\* One process; the others only read what it reads, and write elsewhere.
SPECIFICATION Spec
CONSTANTS
    r1 = "r1"
    r2 = "r2"
    Revisions = {"r1", "r2"}
    Commands = {"c"}
    Uses <- MCUses
    Documents <- MCDocuments
INVARIANTS
    PassedIsValidated
    FailedNamesWhatFailed
    MandatoryIsComplete
    ReadersAgree
PROPERTIES
    ExitTellsFile
CHECK_DEADLOCK FALSE
