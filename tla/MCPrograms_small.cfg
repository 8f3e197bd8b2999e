CONSTANTS
  Child = Child
  Father = Father
  ChildNum = 10
  FatherNum = 100
  count = 50
  NoThread = NoThread
  N = 3
  Reused = {0, Garbage}
  Callers = {c1, c2}
  NoCaller = NoCaller
  Undefined = Undefined
  Size = 2
  Chars = {0, 1}
  Strings = {0, 1}
  Mapped = {"key1", "key2"}
  Nothing = Nothing
  Processes = {p1, p2, p3}
  Nobody = Nobody
  file_struct_cnt = 2
  mem_struct_cnt = 3
  Askers = {t1, t2, t3, t4}
  NULL = NULL
  Writers = {w1, w2}
  Readers = {r1, r2}
  NUM_SLOTS = 3
  IntMax = 3
  MaxWrites = 7
  Zero = Zero
  Garbage = Garbage
SPECIFICATION ProgramsFairSpec
INVARIANTS
  NoLostWakeup
  NoFalseAlarm
  ActsAsQueue
  HoldsWhatWasTold
  LastOneStands
  OneInstance
  AnswersAreAlive
  NothingLeaks
  FaultOnlyAfterWrap
PROPERTIES
  Alternates
  ProgramEnds
CHECK_DEADLOCK FALSE
