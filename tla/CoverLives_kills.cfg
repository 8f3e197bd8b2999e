CONSTANTS
  Writers = {w1, w2}
  Main = Main
  Reader = Reader
  NUM_SLOTS = 2
  Calls = 1
  MaxStarts = 2
  MaxKills = 2
  IntMax = 100
  Zero = Zero
  Datum = Datum
  EndFlag = EndFlag
SPECIFICATION FairLivesSpec
INVARIANTS
  NeverAhead
  OrphanedByKill
PROPERTIES
  LivesEnd
  ReaderEnds
CHECK_DEADLOCK FALSE
