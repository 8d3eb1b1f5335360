\* One process, one call at a time: the last tenant is removed and another added.
CONSTANTS
    s1 = s1
    s2 = s2
    c1 = c1
    c2 = c2
    t1 = t1
    t2 = t2
    Tenants = {t1, t2}
    Blank = Blank
    Servers = {s1}
    Calls = {c1}
    Server <- MCOneCall
    InitialOrgs <- MCInstalledOrgs
    Hashes <- MCHashes
    NoHash = NoHash
    Nobody = Nobody
    LatePatches = FALSE
SPECIFICATION Spec
INVARIANTS
    NamesAreValid
