\* Small networks that lose, reorder and repeat packets, see MCNetwork.
SPECIFICATION Spec
CONSTANTS
  a = a
  b = b
  c = c
  m1 = m1
  m2 = m2
  Nodes = {a, b, c}
  Messages = {m1, m2}
  Unknown = Unknown
  Expired = Expired
  Free = Free
  MaxResets = 1
  ByteBits = 3
  Scenarios <- All
INVARIANTS Truthful
PROPERTIES ImplementsDelivery
