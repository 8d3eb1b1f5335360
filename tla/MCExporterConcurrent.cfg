\* Two reloads at once, while the file changes and the process is stopped.  No
\* symmetry, as some of the properties are liveness properties.
CONSTANTS
    Handlers = {h1, h2}
    MaxVersion = 1
    MaxReloads = 3
    Mishaps = {"TERM"}
SPECIFICATION FairSpec
INVARIANTS
    HashNeverAhead
    QuietServesAll
    LoneReloadsCleanUp
PROPERTIES
    ServiceKept
    FailedReloadRestarts
    EveryReloadEnds
    HashServedAgain
    ServiceKeptGoing
\* With no reload or event left the process waits for a signal.
CHECK_DEADLOCK FALSE
