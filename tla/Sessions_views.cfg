SPECIFICATION FairSpec
CONSTANTS
    NumViewers = 2
    Modes = {"tcp", "quic", "auto"}
    Builds = {"same", "badtoken", "badcert", "other"}
    QuicBind = TRUE
    MaxClients = 2
    MaxPlanes = 2
    MaxCrashes = 1
    None = none
    Dead = dead
INVARIANT CountAgrees
INVARIANT OwnsName
INVARIANT InputReachesView
PROPERTY ViewerSettles
PROPERTY SessionsEnd
CHECK_DEADLOCK FALSE
