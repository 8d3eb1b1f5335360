\* A reload that arrives while the endpoints are being registered.
CONSTANTS
    Handlers = {h1}
    MaxVersion = 1
    MaxReloads = 2
    Mishaps = {}
SPECIFICATION Spec
INVARIANTS
    HashIsCurrent
\* With no reload or event left the process waits for a signal.
CHECK_DEADLOCK FALSE
