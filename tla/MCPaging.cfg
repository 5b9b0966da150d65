SPECIFICATION PagingSpec
CONSTANTS
  PageSize = 2
  Levels = 4
  Fanout = 4
  Word = 32
  Wide = 128
  MaxExpand = 2
  Start <- MCStart
  End <- MCEnd
  Address <- MCAddress
  Sizes = {1, 2, 16}
  Frame = {f1, f2}
  NoFrame = NoFrame
SYMMETRY FrameSymmetry
VIEW ExitView
INVARIANTS
  PagingTypeOK
  FramesOwned
  TlbCoherent
  RightsMatchSegment
  KilledForCause
PROPERTIES
  ShrinkReleases
