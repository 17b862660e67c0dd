SPECIFICATION Spec
CONSTANTS
    Instance = {a, b}
    Port = {p1, p2}
    Pid = {q1, q2, q3}
    Session = {s1}
    Main = main
    None = none
    MaxReq = 4
    MaxCrash = 2
    DiskFaults = FALSE
    PidReuse = TRUE
SYMMETRY Symmetry
INVARIANT TrackedIsDurable
INVARIANT NoTornState
CHECK_DEADLOCK FALSE
