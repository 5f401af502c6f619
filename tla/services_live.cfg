CONSTANTS
    Activators = {u, c1, c2}
    UserShells = {}
    User = u
    Modes = {"dev"}
    NoPid = NoPid
    NoStart = NoStart
    NoState = NoState
    Names = {web}
    Stores = {v1, v2}
    v1 = v1
    v2 = v2
    web = web
    db = db
    Config <- MCConfigOne
    Kinds = {"restart", "activate"}
    Serial = FALSE
    Prompt = FALSE
    Crashes = TRUE
    DownFails = FALSE
    Nested = {c2}
    HookEdits = TRUE
    NoStore = NoStore
SPECIFICATION LiveSpec
PROPERTIES SpawnedForAttached CommandsEnd
