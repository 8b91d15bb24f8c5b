\* Commits that are retried while compaction and retention run.
SPECIFICATION FairSpec
CONSTANTS
    Raw = {r1, r2}
    Outs = {o1}
    Readers = {q1}
    None = None
    Faults = {"commit", "commitSync", "publishSync", "rootSync", "pruneRefused"}
    MaxAttempts = 2
    MaxCrashes = 0
    MaxPrune = 1
INVARIANTS
    NamespaceAccounted
PROPERTIES
    RetiredIsDeleted
