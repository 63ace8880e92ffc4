SPECIFICATION FairSpec
CONSTANTS
  Runs = {r1}
  Procs = {p1, p2}
  NoProc = NoProc
  NoRun = NoRun
  TicketOf <- MCTicketOf
  SerialRuns = {}
  LocalRuns = {}
  MaxActiveRuns = 1
  LocalModelConcurrency = 1
  Corruptible = {r1}
  MaxStalls = 0
  MaxFaults = 1
PROPERTY
  CorruptRunEnds
