SPECIFICATION MCSpec
CONSTANTS
    Policies <- HostPolicies
    Names = {"n1", "n2"}
    Values = {"v1", "v2"}
    MaxSalts = 3
    Savers = {"block"}
    Updates <- HostUpdates
    PortMod = 4
    Servers = {"s1"}
    Ips = {"i1", "i2"}
    MaxAsks = 3
    Pids = {3, 4}
    MaxForks = 3
    MaxTries = 2
    MaxAttempts = 2
    Shells <- HostShells
    None = None
INVARIANTS HostSound   
 
CHECK_DEADLOCK FALSE
