CONSTANTS
  p1 = p1
  p2 = p2
  c1 = c1
  c2 = c2
  Producers = {p1, p2}
  Consumers = {c1, c2}
  ItemsEach = 2
  BLOCK_SIZE = 2
  MaxBlocks = 2
SPECIFICATION Spec
SYMMETRY SymmetricThreads
INVARIANTS TakenOnce SlotsAndBlocks BlocksEnd EmptyIsHonest
