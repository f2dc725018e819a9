SPECIFICATION MCSpec
CONSTANTS
    Plain = c2
    Clients = {c1, c2}
    Backends = {"hf", "vllm"}
    MaxConcurrent = 1
    Vocabulary = {"a", "aa", "eos"}
    Eos = "eos"
    Prompt <- MCPrompt
    StopStrings <- MCStopStrings
    Encode <- MCEncode
    StopSets <- MCStopSets
    MaxNew = 3
    MaxErrors = 1
    MaxLeaves = 1
INVARIANTS AnswersWhole OneGenerationPerStayer
PROPERTIES AllServed
