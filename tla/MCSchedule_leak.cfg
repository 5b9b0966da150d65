SPECIFICATION Spec
CONSTANTS
  MAX_PROCESSES = 4
  Pfn = {f1, f2, f3}
  NoPfn = NoPfn
  Gpr = {g1}
  SyncSignals = {}
  SIGALRM = SIGALRM
  Main = Main
  SleepTicks = {1, 2}
  AlarmTicks = {}
  MaxNesting = 0
INVARIANTS
  NoStackLeak
