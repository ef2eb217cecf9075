SPECIFICATION Spec
CONSTANTS
    Conditions <- ThreeConditions
    ContinueOnFailure = TRUE
    MaxRuns = 2
    MaxFaults = 2
INVARIANTS
    ShapingMatches
    MeasuresAlone
    ExitsClean
CHECK_DEADLOCK FALSE
