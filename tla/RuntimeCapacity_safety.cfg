SPECIFICATION FairSpec
CONSTANTS
    r1 = r1
    r2 = r2
    p1 = p1
    p2 = p2
    target = target
    launcher = launcher
    Runs = {r1, r2}
    Procs = {p1, p2}
    NoProc = NoProc
    NoRun = NoRun
    Resources = {target, launcher}
    Admission = Admission
    Limit <- OneEach
    Needs <- SharedLauncher
    MaxOps = 1
    MaxLapses = 0
    MaxFaults = 1
INVARIANTS
    UsersOwnTheirSlots
    NoStaleWait
PROPERTY
    LoneWaiterServed
