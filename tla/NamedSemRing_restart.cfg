CONSTANTS
  Writers = {w1, w2, w3}
  Readers = {r1}
  NUM_SLOTS = 3
  MaxKills = 2
  Absent = Absent
SPECIFICATION FairSpec
INVARIANTS
  ReaderMapsMemory
  InStep
  UnreadIsFound
PROPERTIES
  TokensKept
  Flow
CHECK_DEADLOCK FALSE
