SPECIFICATION FairSpec
CONSTANTS
    Instance = {a}
    Port = {p1}
    Pid = {q1, q2}
    Session = {s1, s2}
    Main = main
    None = none
    MaxReq = 3
    MaxCrash = 1
    DiskFaults = FALSE
    PidReuse = FALSE
PROPERTY RequestsFinish
CHECK_DEADLOCK FALSE
