SPECIFICATION Spec
CONSTANTS
    Editions = {"patch", "edit"}
    MaxSteps = 6
    MaxVersion = 2
INVARIANTS
    EvidenceIsReal
    RejectionMeansOut
CHECK_DEADLOCK FALSE
