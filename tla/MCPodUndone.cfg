\* One tenant is initialized and cleaned up again.
CONSTANTS
    s1 = s1
    c1 = c1
    c2 = c2
    t1 = t1
    t2 = t2
    Tenants = {t1, t2}
    Blank = Blank
    Servers = {s1}
    Calls = {c1, c2}
    Server <- MCServer
    InitialOrgs <- MCInstalledOrgs
    Hashes <- MCUndoneLists
    NoHash = NoHash
    Nobody = Nobody
    LatePatches = FALSE
    Asks <- MCUndoneAsks
    NoConfig = NoConfig
    MaxFaults = 1
    MaxOwed = 2
SPECIFICATION PodSpec
INVARIANTS
    ConfirmedStaysInForce
