CONSTANTS
  Programs = {p1, p2, p3}
  Old = Old
  None = None
  Count = 2
  MaxMsg = 3
  Killable = {p1}
  Failing = {p2}
  MaxFailed = 1
SPECIFICATION FairSpec
INVARIANTS
  
  NoOldMessages
  EmptyWhenClosed
PROPERTY Terminates
CHECK_DEADLOCK FALSE
