SPECIFICATION Spec
CONSTANTS
  Thread = {t1, t2}
  ByteBits = 4
  Bits = 8
INVARIANT
  IdsUnique
