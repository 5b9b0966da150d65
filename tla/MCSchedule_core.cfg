SPECIFICATION FairSpec
CONSTANTS
  MAX_PROCESSES = 4
  Pfn = {f1, f2, f3}
  NoPfn = NoPfn
  Gpr = {g1}
  SyncSignals = {}
  SIGALRM = SIGALRM
  Main = Main
  SleepTicks = {0, 1, 2}
  AlarmTicks = {}
  MaxNesting = 0
INVARIANTS
  TypeOK
  OneRunning
  WorkConserving
  SleepersSleep
  StacksExclusive
  PendingFreedOnce
PROPERTIES
  RoundRobin
  ImplementsProcessor
  ReadyRuns
  SleeperRuns
