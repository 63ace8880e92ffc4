SPECIFICATION Spec
CONSTANTS
  Runs = {r1, r2}
  Procs = {p1, p2}
  NoProc = NoProc
  NoRun = NoRun
  TicketOf <- MCTicketOf
  SerialRuns = {r1}
  LocalRuns = {}
  MaxActiveRuns = 2
  LocalModelConcurrency = 1
  Corruptible = {r1}
  MaxStalls = 1
  MaxFaults = 1
SYMMETRY Symmetry
INVARIANTS
  TerminalEvidence
  ExecutionMatchesRow
  SerialSiblingsExclusive
PROPERTIES
  TerminalRewrittenOnlyByIntegrity
  ImplementsCustody
  ImplementsStanding
