SPECIFICATION Spec
CONSTANTS
    Procs = {1}
    Insts = {"default", "a", "b"}
    Default = "default"
    MaxFaults = 2
    Base = 1
    Ctl = 2
    Span = 2
    Remotes = {"h", "H"}
    Vms = {"v"}
    keychain_account <- SharedAccount
    Apps = {"a", "b"}
    Lists = {{"a", "b"}}
    NameOf <- SameName
    MaxUpgrades = 0
    Mixes <- Longer
INVARIANT TlsAgrees
PROPERTY BootstrapMends
PROPERTY LoginsMend
CHECK_DEADLOCK FALSE
