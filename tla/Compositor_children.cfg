SPECIFICATION Spec
CONSTANTS
    r = r
    p = p
    s = s
    None = None
    Tops = {r}
    Pops = {p}
    Subs = {s}
    Parents <- SomeParents
    MaxWindows = 2
    MaxWidth = 2
    Place <- Places
    RootBuffer <- OpaqueRoots
    ChildBuffer <- OpaqueChildren
    Disposable = {r}
CHECK_DEADLOCK FALSE
INVARIANT NoStaleTracking
INVARIANT NoGhost
INVARIANT RectCovers
PROPERTY RootCommitSettles
