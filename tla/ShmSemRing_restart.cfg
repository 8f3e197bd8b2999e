CONSTANTS
  Writers = {w1, w2, w3}
  Reader = Reader
  NUM_SLOTS = 2
  Calls = 2
  MaxStarts = 3
  MaxKills = 2
SPECIFICATION FairSpec
INVARIANTS
  TokensBounded
  InStep
PROPERTY LivesEnd
CHECK_DEADLOCK FALSE
