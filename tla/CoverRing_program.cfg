CONSTANTS
  Writers = {w1, w2}
  Main = Main
  Reader = Reader
  NUM_SLOTS = 2
  Calls = 2
  IntMax = 100
  Zero = Zero
  Datum = Datum
  EndFlag = EndFlag
SPECIFICATION FairSpec
INVARIANTS
  ReadsFollowWrites
  StatusHasOwner
PROPERTY Terminates
