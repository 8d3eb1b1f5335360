\* Two calls that hang or are answered, and signals at any time, also before Serve.
CONSTANTS
    Calls = {c1, c2}
    EarlySignals = TRUE
SPECIFICATION FairSpec
INVARIANTS
    TypeOK
    CallsBrokenOnlyByForce
PROPERTIES
    SignalEndsProcess
\* The process ends.
CHECK_DEADLOCK FALSE
