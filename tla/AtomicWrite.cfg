SPECIFICATION Spec
CONSTANTS
    Writers = {w1, w2}
    Absent = Absent
    Chunks = 2
    MaxCrashes = 1
INVARIANTS
    NoTempAfterReturn
    OutcomeIsHonest
PROPERTIES
    ImplementsRegister
CHECK_DEADLOCK FALSE
