\* Two scrapes of zero, one or two instances whose health changes twice.
CONSTANTS
    v1 = v1
    v2 = v2
    Pods = {v1, v2}
    Lists <- MCLists
    MaxChanges = 2
    MaxScrapes = 2
SPECIFICATION Spec
INVARIANTS
    TypeOK
    FiguresMatchStatuses
    StatusesAreTrue
    SealedIsNotReady
    RefusedForTwinsOnly
\* Scrapes and changes are bounded.
CHECK_DEADLOCK FALSE
