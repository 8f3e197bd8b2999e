CONSTANTS
  N = 3
  Reused = {0, Garbage}
SPECIFICATION Spec
INVARIANT OwnNumber
