CONSTANTS
    Dirs <- MCDirs
    Places <- MCPlaces
    Remote = Remote
    InPlace <- MCInPlace
    InShell <- MCInShell
    Again = FALSE
    Chained = FALSE
    MaxFaults = 1
    MaxPrefs = 1
    MaxShells = 2
    Nobody = Nobody
SPECIFICATION MCSpec
INVARIANTS DiffsMatchStack RefusalHolds SettledInTwo
PROPERTY ManualKept
