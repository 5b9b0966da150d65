SPECIFICATION FairSpec
CONSTANTS
  MAX_PROCESSES = 3
  Pfn = {f1, f2, f3}
  NoPfn = NoPfn
  Gpr = {g1}
  SyncSignals = {}
  SIGALRM = SIGALRM
  Main = Main
  SleepTicks = {0, 1}
  AlarmTicks = {}
  MaxNesting = 0
PROPERTIES
  SleepReturns
