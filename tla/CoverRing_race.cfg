CONSTANTS
  Writers = {w1, w2, w3}
  Main = Main
  Reader = Reader
  NUM_SLOTS = 2
  Calls = 1
  IntMax = 100
  Zero = Zero
  Datum = Datum
  EndFlag = EndFlag
SPECIFICATION Spec
INVARIANT NoRace
