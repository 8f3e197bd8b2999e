CONSTANTS
  Writers = {w1}
  Reader = Reader
  NUM_SLOTS = 2
  Calls = 1
  MaxStarts = 2
  MaxKills = 0
SPECIFICATION Spec
PROPERTY InitOnce
CHECK_DEADLOCK FALSE
