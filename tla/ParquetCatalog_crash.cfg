\* A crash on a file system that reorders directory operations, with failures
\* a pass recovers from.
SPECIFICATION Spec
SYMMETRY Symmetry
CONSTANTS
    Raw = {r1, r2, r3}
    Outs = {o1, o2}
    Readers = {q1}
    None = None
    Faults = {"commitSync", "publishSync", "publishRefused", "merge", "remove", "vanish"}
    MaxAttempts = 1
    MaxCrashes = 1
    MaxPrune = 2
INVARIANTS
    RowsCountedOnce
    PinnedFilesExist
    FsyncedStaysDurable
    PrunedStaysHidden
PROPERTIES
    ImplementsTable
