SPECIFICATION FairSpec
CONSTANTS
  Runs = {r1, r2}
  Procs = {p1, p2}
  NoProc = NoProc
  NoRun = NoRun
  TicketOf <- MCTicketOf
  SerialRuns = {}
  LocalRuns = {r2}
  MaxActiveRuns = 1
  LocalModelConcurrency = 1
  Corruptible = {}
  MaxStalls = 1
  MaxFaults = 1
INVARIANTS
  ConcurrencyBounded
PROPERTIES
  EveryRunEnds
