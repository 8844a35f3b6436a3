SPECIFICATION Spec
CONSTANTS
    Editions = {"patch", "edit"}
    MaxSteps = 6
    MaxVersion = 2
INVARIANTS
    ObservedPatchCounts
CHECK_DEADLOCK FALSE
