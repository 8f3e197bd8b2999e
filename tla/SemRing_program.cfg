CONSTANTS
  Writers = {w1, w2, w3}
  Readers = {r1}
  NUM_SLOTS = 3
  IntMax = 3
  MaxWrites = 6
  Zero = Zero
  Garbage = Garbage
SPECIFICATION FairSpec
INVARIANTS
  NoOverrun
  Tokens
  FaultOnlyAfterWrap
PROPERTY EverySlotRead
