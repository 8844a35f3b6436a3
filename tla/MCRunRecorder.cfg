SPECIFICATION Spec
CONSTANTS
    w1 = w1
    w2 = w2
    paused = paused
    ended = ended
    failed = failed
    n1 = n1
    None = None
    Workers = {w1, w2}
    Traces = {paused, ended, failed}
    Pauses = {paused}
    Notes = {n1}
    MaxEvents = 2
SYMMETRY Symmetry
CHECK_DEADLOCK FALSE
INVARIANTS
    RecordsCountPredecessors
    ReceiptCoversItsRun
    AnswersHold
