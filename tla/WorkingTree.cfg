\* One source file, one commit, two processes.
SPECIFICATION Spec
CONSTANTS
    c1 = c1
    c2 = c2
    Sources = {"a.py"}
    Versions = {1}
    Commands = {c1, c2}
    Runs <- MCRuns
    Denied = {c2}
    MaxHead = 1
INVARIANTS
    TornOnlyByOverlap
PROPERTIES
    GenerationIsIdempotent
    PassedMeansReconciled
    CleanSnapshotIsItsRevision
CHECK_DEADLOCK FALSE
