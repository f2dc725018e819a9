\* What ARCHITECTURE.md:289 says of the keywords that freeze routers.
SPECIFICATION SetupSpec
CONSTANTS
    Models <- MCModels
    Configs <- MCConfigs
INVARIANT
    KeywordsOnlyAsFallback
