SPECIFICATION FairSpec
CONSTANTS
    Agents = {a1, a2}
    Requests = {q1}
    DefaultMaxAttempts = 2
    MaxOrdinal = 2
    Shapes = {"plain", "structured"}
    Limits = {0, 1}
    MaxRefusals = 0
    MaxChanges = 1
    MaxDamage = 1
    MaxCrashes = 1
CHECK_DEADLOCK FALSE
INVARIANTS
    StatusProjected
    CompletedTicketIsProven
PROPERTIES
    UndamagedAttemptSettles
