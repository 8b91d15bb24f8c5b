SPECIFICATION Spec
SYMMETRY Symmetry
CONSTANTS
    Raw = {r1, r2, r3}
    Outs = {o1, o2}
    Readers = {q1}
    None = None
    Faults = {"commitSync"}
    MaxAttempts = 2
    MaxCrashes = 0
    MaxPrune = 1
INVARIANTS
    RowsCountedOnce
