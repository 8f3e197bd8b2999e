CONSTANTS
  Writers = {w1, w2, w3}
  Readers = {r1}
  NUM_SLOTS = 2
  IntMax = 100
  MaxWrites = 4
  Zero = Zero
  Garbage = Garbage
SPECIFICATION Spec
SYMMETRY Symmetry
INVARIANT DataIsStored
