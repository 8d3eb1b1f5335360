\* One tenant is initialized and another cleaned up by two callers that repeat
\* their calls, with late mounts and a fault of any kind.
CONSTANTS
    s1 = s1
    c1 = c1
    c2 = c2
    t1 = t1
    t2 = t2
    Tenants = {t1, t2}
    Blank = Blank
    Servers = {s1}
    Calls = {c1, c2}
    Server <- MCServer
    InitialOrgs <- MCInstalledOrgs
    Hashes <- MCComeAndGoLists
    NoHash = NoHash
    Nobody = Nobody
    LatePatches = FALSE
    Asks <- MCComeAndGoAsks
    NoConfig = NoConfig
    MaxFaults = 1
    MaxOwed = 2
SPECIFICATION FairPodSpec
INVARIANTS
    PodTypeOK
    ConfirmedStaysInForce
    RepeatsDisturbNothing
PROPERTIES
    PodSettles
