SPECIFICATION Spec
CONSTANTS
    Agents = {a1}
    Requests = {q1}
    DefaultMaxAttempts = 2
    MaxOrdinal = 2
    Shapes = {"plain"}
    Limits = {0}
    MaxRefusals = 1
    MaxChanges = 0
    MaxDamage = 0
    MaxCrashes = 0
SYMMETRY Symmetry
CHECK_DEADLOCK FALSE
PROPERTIES
    CompletedNotDemoted
