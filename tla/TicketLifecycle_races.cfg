SPECIFICATION Spec
CONSTANTS
    Agents = {a1}
    Requests = {q1, q2}
    DefaultMaxAttempts = 2
    MaxOrdinal = 2
    Shapes = {"plain", "child", "structured"}
    Limits = {0, 1}
    MaxRefusals = 1
    MaxChanges = 2
    MaxDamage = 1
    MaxCrashes = 0
SYMMETRY Symmetry
CHECK_DEADLOCK FALSE
INVARIANTS
    SettledAttemptIsDone
PROPERTIES
    AttemptStepsProject
    AdmissionWithinLimit
    NothingAfterCancel
    HoldNeedsRelease
