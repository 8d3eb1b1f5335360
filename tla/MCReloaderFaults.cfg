\* Two config-reloader processes (a rolling update, or replicaCount: 2), and patches
\* that a cancelled call or a stopped process leaves on their way.
CONSTANTS
    s1 = s1
    s2 = s2
    c1 = c1
    c2 = c2
    t1 = t1
    t2 = t2
    Tenants = {t1}
    Blank = Blank
    Servers = {s1, s2}
    Calls = {c1, c2}
    Server <- MCTwoServers
    InitialOrgs <- MCInitialOrgs
    Hashes <- MCHashesOne
    NoHash = NoHash
    Nobody = Nobody
    LatePatches = TRUE
SPECIFICATION Spec
INVARIANTS
    NoTenantTwice
PROPERTIES
    OkMeansContainerHasIt
