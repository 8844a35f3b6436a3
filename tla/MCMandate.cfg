SPECIFICATION Spec
CONSTANTS
    Mandates <- MCMandates
    Profiles <- MCProfiles
    Notes = {"n"}
    Roots = {r1, r2, r3}
    Budgets <- MCBudgets
    Reports <- MCReports
    Resource = {"tokens", "wallTimeMs"}
    Overshoot = 1
    MaxRuns = 3
INVARIANTS
    MandateWithinEnvelope
    OwnEvidenceOnly
SYMMETRY RootsAlike
CHECK_DEADLOCK FALSE
