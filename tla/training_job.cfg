SPECIFICATION MCSpec
CONSTANTS
    Ranks = {r0, r1}
    Lead = r0
    Configs <- MCConfigs
    QueueMax = 1
    ArtifactsEvery = 2
    MaxLogs = 20
    MaxFailures = 1
    Settings <- MCSettings
INVARIANTS SameCollective WholeWindows SavesAdvance OrderKept LossesCounted FinishComplete
PROPERTIES JobEnds
