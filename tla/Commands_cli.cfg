SPECIFICATION FairSpec
CONSTANTS
    Procs = {1, 2}
    Insts = {"default", "a", "b"}
    Default = "default"
    MaxFaults = 1
    Base = 1
    Ctl = 2
    Span = 2
    Remotes = {"h", "H"}
    Vms = {"v"}
    keychain_account <- SharedAccount
    Apps = {"a", "b"}
    Lists = {{"a", "b"}}
    NameOf <- SameName
    MaxUpgrades = 1
    Mixes <- MCMixes
INVARIANT LibraryCurrent
INVARIANT TlsAgrees
PROPERTY ReachesOwnServer
PROPERTY StopIsClean
PROPERTY BootstrapMends
PROPERTY LoginsMend
PROPERTY CommandsFinish
CHECK_DEADLOCK FALSE
