\* Every configuration on four architectures.
SPECIFICATION SetupSpec
CONSTANTS
    Models <- MCModels
    Configs <- MCConfigs
INVARIANTS
    DtypesFit
    ExpertsGatheredAlone
    RoutersFrozen
    AutoReachesProjections
