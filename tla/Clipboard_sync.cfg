SPECIFICATION FairSpec
CONSTANTS
    Text = {t1, t2, t3, big}
    Big = {big}
    None = none
    MaxCopies = 3
    MaxClears = 1
    Fresh = TRUE
    Bursts = FALSE
INVARIANT TypeOK
INVARIANT LastCopyWins
INVARIANT NoEchoStorm
PROPERTY HostCopyArrives
CHECK_DEADLOCK FALSE
