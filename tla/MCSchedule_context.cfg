SPECIFICATION Spec
CONSTANTS
  MAX_PROCESSES = 3
  Pfn = {f1, f2}
  NoPfn = NoPfn
  Gpr = {g1, g2}
  SyncSignals = {SIGFPE}
  SIGALRM = SIGALRM
  Main = Main
  SleepTicks = {1}
  AlarmTicks = {1}
  MaxNesting = 2
SYMMETRY DataSymmetry
VIEW LiveView
INVARIANTS
  FrameIntegrity
  ReturnsToMain
