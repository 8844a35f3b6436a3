SPECIFICATION Spec
CONSTANTS
    w1 = w1
    w2 = w2
    w3 = w3
    None = None
    Workers = {w1, w2, w3}
    MaxTurns = 2
    MaxRetries = 1
SYMMETRY Symmetry
CHECK_DEADLOCK FALSE
INVARIANTS
    NoBlindRedispatch
    JournalKnowsOpenCall
    RecordedOutcomeHappened
    TurnsFollowAnswers
