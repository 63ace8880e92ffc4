SPECIFICATION Spec
CONSTANTS
    r1 = r1
    r2 = r2
    t1 = t1
    t2 = t2
    o1 = o1
    o2 = o2
    o3 = o3
    o4 = o4
    d = d
    df = df
    g = g
    v1 = v1
    w1 = w1
    w2 = w2
    Runs = {r1, r2}
    TicketOf <- TwoTickets
    Permitted = {}
    Budget <- TwoEach
    Ops = {o1, o2, o3, o4}
    Def <- MoveAndDelete
    Paths = {d, df, g}
    Root = Root
    Ancestors <- FolderTree
    NameOrder <- ByName
    Values = {v1}
    Absent = Absent
    Dir = Dir
    Torn = Torn
    Workers = {w1, w2}
    ProcessOf <- TwoProcesses
    NoWorker = NoWorker
    Gone = Gone
    NoOp = NoOp
    NoRun = NoRun
    MaxFaults = 2
SYMMETRY Symmetry
INVARIANTS
    SectionsDisjoint
    EffectOnce
    ChargesFollowIntents
    NobodyStuck
PROPERTIES
    ReceiptMatchesDisk
    ArtifactsProtected
