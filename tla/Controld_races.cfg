SPECIFICATION Spec
CONSTANTS
    Instance = {a, b}
    Port = {p1, p2}
    Pid = {q1, q2, q3}
    Session = {s1, s2}
    Main = main
    None = none
    MaxReq = 3
    MaxCrash = 1
    DiskFaults = TRUE
    PidReuse = TRUE
SYMMETRY Symmetry
INVARIANT TypeOK
INVARIANT PortsDistinct
INVARIANT NoOrphanServer
INVARIANT OwnedPidsPinned
CHECK_DEADLOCK FALSE
