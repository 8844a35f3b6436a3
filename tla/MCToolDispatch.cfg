SPECIFICATION Spec
CONSTANTS
    w1 = w1
    w2 = w2
    None = None
    Workers = {w1, w2}
    Size = 2
    Execs <- OneExec
    Times = {1, 2}
SYMMETRY Symmetry
INVARIANTS
    ConcurrentWorkersDispatchOnce
CHECK_DEADLOCK FALSE
