SPECIFICATION FairSpec
CONSTANTS
    Agents = {a1}
    Requests = {q1}
    DefaultMaxAttempts = 2
    MaxOrdinal = 2
    Shapes = {"plain"}
    Limits = {0}
    MaxRefusals = 0
    MaxChanges = 0
    MaxDamage = 1
    MaxCrashes = 1
CHECK_DEADLOCK FALSE
PROPERTIES
    AttemptSettles
