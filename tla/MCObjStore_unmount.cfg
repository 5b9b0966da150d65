SPECIFICATION ClientSpec
CONSTANTS
  k1 = k1
  k2 = k2
  k3 = k3
  Key = {k1, k2, k3}
  Hash <- HashDef
  SlashHash <- SlashHashDef
  Buckets = 3
  InodeBits = 4
  BlockBits = 7
  TableStart = 2
  ObjectsPerBlock = 64
  DataStart = 3
  PointersPerBlock = 6
  Page = {0, 1}
  Value = {1, 3}
  Length <- PageLengths
  Writes <- PageWrites
  Reads <- PageReads
  IdBlocks = 1
  BlockBytes = 32
  LongBytes = 2
  Base = 4
  ByteBits = 2
  CacheSizes = {9}
  CacheNode = {0, 1, 2, 3, 4, 5, 6, 7, 8, 9}
  RawBlock = {0, 1, 2, 4}
  MaxMounts = 2
  Nothing = Nothing
VIEW ClientView
CHECK_DEADLOCK FALSE
PROPERTY
  WrittenBack
