CONSTANTS
  Writers = {w1, w2, w3}
  Readers = {r1, r2}
  NUM_SLOTS = 2
  IntMax = 100
  MaxWrites = 5
  NoThread = NoThread
  Zero = Zero
  Garbage = Garbage
SPECIFICATION FairSpec
INVARIANTS
  NoLostWakeup
  StillReady
PROPERTIES
  IsFifo
  NobodyStarves
