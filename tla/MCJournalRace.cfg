SPECIFICATION Spec
CONSTANTS
    r1 = r1
    r2 = r2
    k1 = k1
    k2 = k2
    c1 = c1
    c2 = c2
    c3 = c3
    e1 = e1
    e2 = e2
    e3 = e3
    o1 = o1
    o2 = o2
    w1 = w1
    w2 = w2
    None = None
    Runs = {r1}
    Callers = {k1}
    EventIds = {c1, e1, e2, e3}
    Objects = {o1, o2}
    Workers = {w1, w2}
    Contracts <- OneContract
    Batches <- RacingBatches
    TTL = 1
    Readings = {0, 1}
SYMMETRY Symmetry
INVARIANTS
    ProjectionMatchesHistory
    LeasePinsHead
    ReferencesPublished
    AcknowledgedIsDurable
PROPERTIES
    RefusalMeansAbsent
    ImplementsLedger
