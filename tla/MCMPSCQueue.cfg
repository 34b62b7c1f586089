CONSTANTS
  p1 = p1
  p2 = p2
  Producers = {p1, p2}
  ItemsEach = 3
  BLOCK_SIZE = 2
  MaxBlocks = 3
SPECIFICATION FairSpec
INVARIANTS SlotsAndBlocks DequeueIsRight
PROPERTIES CallsEnd
