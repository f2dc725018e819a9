\* One bhaskera-tokenize at a time, killed anywhere; three of them.
SPECIFICATION CacheSpec
CONSTANTS
    Commands <- MCChoices
    Paths <- MCPaths
    NoPath = ""
    Hub = "hub"
    Source <- MCSource
    SeqLen = 3
    BatchSize = 2
    MaxRuns = 3
INVARIANTS
    LoadsOnlyGiven
    LoadsWhole
    CacheOnce
