SPECIFICATION FairLoopSpec
CONSTANTS
    look = look
    act = act
    e1 = e1
    e2 = e2
    None = None
    Tools = {look, act}
    Looking = {look}
    Content = {e1, e2}
    Pathless = {e2}
    MaxSteps = 2
    MaxModelCalls = 3
    MaxRetries = 1
    MaxToolCalls = 2
    MaxToolCorrections = 1
    MaxConclusionCorrections = 1
    MaxObservationOnly = 1
    MaxNoProgress = 2
    Modes <- AllModes
    Answers <- AllAnswers
    MaxStarts = 3
INVARIANTS
    NoEffectPastLimit
    HardBudget
    ConcludedRunsAreCertain
    ProgramCursorDurable
PROPERTY LoopEnds
CHECK_DEADLOCK FALSE
