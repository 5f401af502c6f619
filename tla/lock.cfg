CONSTANTS
    Activators = {p1, p2, p3}
    Exiting = {p1, p2, p3}
    MaxDirs = 3
    NoState = NoState
    NoProcess = NoProcess
SPECIFICATION Spec
INVARIANTS LockExcludes NoLostAttachment
PROPERTIES SectionsAtomic
