SPECIFICATION WatcherSpec
CONSTANTS
    Files = {f}
    Keys = {}
    Channels = {c}
    Versions = {v1, v2}
    None = None
    Torn = Torn
    Handler = h
    Reloaders = {r1, r2}
    Callers = {s}
    MaxWrites = 2
    MaxReloads = 1
    MaxCalls = 1
INVARIANTS
    CacheMirrorsDisk
    ViewMirrorsDisk
    SentMirrorsView
    ViewMirrorsRuntime
CHECK_DEADLOCK FALSE
SYMMETRY WatcherSymmetry
