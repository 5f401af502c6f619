CONSTANTS
    Dirs = {d1, d2}
    MachineOf <- MCOneMachine
    Procs = {p1}
    Kinds = {"pullNew", "install", "push", "pull", "sync", "delete", "convert", "import", "switch", "reset"}
    Forces = {FALSE, TRUE}
    Targets = {1}
    HubDeletes = TRUE
    Serial = TRUE
    MaxChanges = 5
    MaxCrashes = 1
    NoEnv = NoEnv
    NoBranch = NoBranch
    NoLock = NoLock
    Partial = Partial
SPECIFICATION MCSpec
INVARIANTS SavedKept InSync LockRecoverable SyncKept EnvOrBackup
SYMMETRY MCSymmetry
CONSTRAINT MCOneFault
