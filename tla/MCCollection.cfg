\* Scrapes of configurations that are sound, that clash, or that are refused, and a
\* reload at any time.
CONSTANTS
    Files <- MCFiles
    Labels = {"l", "m", "n", "o"}
    Values = {"", "x", "y"}
    Results <- MCResults
    Latencies = {1, 2}
    MaxScrapes = 1
    MaxReloads = 1
SPECIFICATION FairSpec
INVARIANTS
    TypeOK
    OnlyOtherTypesKill
    FailureCostsNoOther
    RefusedForClashOnly
    FiguresTellTheTruth
    ExportedAsDocumented
PROPERTIES
    ScrapesAnswered
\* Scrapes and reloads are bounded, and a configuration may be refused.
CHECK_DEADLOCK FALSE
