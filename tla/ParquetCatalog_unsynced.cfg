\* A commit whose fsync fails after the rename, and its retry.
SPECIFICATION Spec
SYMMETRY Symmetry
CONSTANTS
    Raw = {r1, r2}
    Outs = {o1}
    Readers = {q1}
    None = None
    Faults = {"commitSync"}
    MaxAttempts = 2
    MaxCrashes = 1
    MaxPrune = 1
INVARIANTS
    AcknowledgedDurable
