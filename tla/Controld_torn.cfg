SPECIFICATION Spec
CONSTANTS
    Instance = {a, b}
    Port = {p1, p2}
    Pid = {q1, q2}
    Session = {s1, s2}
    Main = main
    None = none
    MaxReq = 3
    MaxCrash = 1
    DiskFaults = FALSE
    PidReuse = FALSE
SYMMETRY Symmetry
INVARIANT NoTornState
CHECK_DEADLOCK FALSE
