\* Reloads one at a time, as one config-reloader holding its mutex sends them.
CONSTANTS
    Handlers = {h1}
    MaxVersion = 2
    MaxReloads = 3
    Mishaps = {"TERM", "KILL", "BADFILE"}
SPECIFICATION Spec
INVARIANTS
    TypeOK
    ReloadTakesEffect
\* With no reload or event left the process waits for a signal.
CHECK_DEADLOCK FALSE
