\* One config-reloader process (replicaCount: 1), two concurrent calls.
CONSTANTS
    s1 = s1
    s2 = s2
    c1 = c1
    c2 = c2
    t1 = t1
    t2 = t2
    Tenants = {t1, t2}
    Blank = Blank
    Servers = {s1}
    Calls = {c1, c2}
    Server <- MCOneServer
    InitialOrgs <- MCInitialOrgs
    Hashes <- MCHashes
    NoHash = NoHash
    Nobody = Nobody
    LatePatches = FALSE
SPECIFICATION FairSpec
INVARIANTS
    TypeOK
    SnapshotIsCurrent
    MutexGuardsCalls
PROPERTIES
    TenantOperationsAtomic
    OkAgreesWithConfigMap
    EveryCallAnswered
