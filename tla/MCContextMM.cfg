SPECIFICATION CtxSpec
CONSTANTS
  Levels = 4
  Fanout = 4
  Layouts <- MCLayouts
INVARIANTS
  CtxTypeOK
  RightsAsAsked
  PrivateFreedOnce
