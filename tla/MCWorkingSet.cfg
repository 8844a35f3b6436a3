SPECIFICATION FairSelectionSpec
CONSTANTS
    w1 = w1
    w2 = w2
    a1 = a1
    a2 = a2
    s1 = s1
    s2 = s2
    d1 = d1
    None = None
    Workers = {w1, w2}
    MaxTurns = 2
    MaxRetries = 0
    Attempts = {a1, a2}
    SeedAttempt = a1
    Slots = {s1}
    Documents = {d1}
    Said = 1
    MaxSets = 3
INVARIANTS
    ViewHeldWhileCallOut
    EvidenceSound
    RequestMadeOnce
PROPERTIES
    WorkersFinish
CHECK_DEADLOCK FALSE
