CONSTANTS
    Dirs = {d1, d2}
    MachineOf <- MCOwnMachine
    Procs = {p1, p2}
    Kinds = {"pullNew", "install", "push", "pull", "rollback", "switch"}
    Forces = {FALSE}
    Targets = {2}
    HubDeletes = FALSE
    Serial = TRUE
    MaxChanges = 5
    MaxCrashes = 0
    NoEnv = NoEnv
    NoBranch = NoBranch
    NoLock = NoLock
    Partial = Partial
SPECIFICATION MCSpec
INVARIANTS HistoryConsistent RollbackReturns
SYMMETRY MCSymmetry
