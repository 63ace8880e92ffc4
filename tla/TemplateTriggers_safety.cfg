SPECIFICATION FairSpec
CHECK_DEADLOCK FALSE
CONSTANTS
    Templates = {1}
    Procs = {p1, p2}
    Keys = {}
    SentSlots = {2}
    Intervals = {2}
    Skew = 1
    CandidateLimit = 1
    MaxTime = 3
    MaxVersion = 2
    MaxFaults = 1
INVARIANTS
    ScheduledAsArmed
    ScheduleSpaced
PROPERTIES
    DueSlotSpent
    RetriedTicketStarts
