---------------------------- MODULE CvRingProofs ----------------------------
(***************************************************************************)
(* Theorems about CvRing, for any number of threads and slots.  Those about *)
(* the queue ask for calls that do not drive a counter past INT_MAX.       *)
(***************************************************************************)
EXTENDS CvRing, RingLemmas

\* Below INT_MAX the slot of a count is its remainder by NUM_SLOTS.
LEMMA SlotIsRemainder ==
  ASSUME NEW n \in Nat, n <= IntMax
  PROVE  Slot(n) = n % NUM_SLOTS /\ Slot(n) \in Slots
<1>1. AsInt(n) = n
  BY IntMaxAssumption DEF AsInt, Ints, IntMin
<1>2. n % NUM_SLOTS \in 0 .. NUM_SLOTS - 1
  BY RemainderInRange, BoundAssumption
<1> QED
  BY <1>1, <1>2 DEF Slot, Rem, Slots

\* The invariant holds when the threads start.
LEMMA InitIndInv == Init => IndInv
  BY ThreadsAssumption, BoundAssumption
     DEF Init, IndInv, TypeOK, LockInv, CountInv, SlotInv, StillReady, Unread,
         Threads, Slots, Holding, PCs

\* Without a wrap the counters stay below INT_MAX.
LEMMA NoWrapIsEarly ==
  ASSUME NoWrap, IndInv
  PROVE  Early
BY BoundAssumption, IntMaxAssumption DEF NoWrap, IndInv, TypeOK, Early

\* Below INT_MAX no access leaves the ring.
LEMMA FaultFree ==
  ASSUME Early, IndInv, NEW t \in Threads, pc[t] \in {"store", "load"}
  PROVE  slot[t] \in Slots
BY ThreadsAssumption, BoundAssumption, SlotIsRemainder, IntMaxAssumption
   DEF IndInv, TypeOK, CountInv, SlotInv, Unread, Early

\* Below INT_MAX the predicates that cv.wait tests are exact.
LEMMA Predicates ==
  ASSUME Early, IndInv
  PROVE  /\ TRUE \in WriteReady => Unread < NUM_SLOTS
         /\ FALSE \in WriteReady => Unread = NUM_SLOTS
         /\ ReadReady <=> Unread > 0
<1>1. /\ AsInt(next_write_slot_) = next_write_slot_
      /\ AsInt(next_read_slot_) = next_read_slot_
      /\ AsInt(Unread) = Unread
      /\ Unread \in 0 .. NUM_SLOTS
      /\ next_write_slot_ - next_read_slot_ = Unread
  BY IntMaxAssumption, BoundAssumption
     DEF Early, IndInv, TypeOK, CountInv, Unread, AsInt, Ints, IntMin
<1>2. WriteReady = {Unread < NUM_SLOTS}
  BY <1>1 DEF WriteReady
<1>3. /\ TRUE \in WriteReady => Unread < NUM_SLOTS
      /\ FALSE \in WriteReady => ~(Unread < NUM_SLOTS)
  BY <1>2
<1>4. ReadReady <=> Unread > 0
  BY <1>1, BoundAssumption DEF ReadReady, IndInv, TypeOK, Unread
<1>5. ~(Unread < NUM_SLOTS) => Unread = NUM_SLOTS
  BY <1>1, BoundAssumption
<1> QED
  BY <1>3, <1>4, <1>5, Zenon

\* The invariant is preserved: the owner of the mutex is the only thread that
\* moves a counter, and what it has tested stays true until it acts on it.
LEMMA StepIndInv ==
  ASSUME Early, IndInv, [Next]_vars
  PROVE  IndInv'
<1> USE ThreadsAssumption, BoundAssumption
    DEF IndInv, TypeOK, LockInv, CountInv, SlotInv, StillReady, Unread,
        Threads, Holding, PCs
<1>a. /\ Slot(next_write_slot_) \in Slots
      /\ Slot(next_read_slot_) \in Slots
  BY SlotIsRemainder, IntMaxAssumption DEF Early
<1>b. \A s \in Slots: s \in (1 - NUM_SLOTS) .. (NUM_SLOTS - 1)
  BY DEF Slots
<1>z. 0 \in Slots
  BY DEF Slots
<1>1. ASSUME NEW t \in Threads, Lock(t)
      PROVE  IndInv'
  <2>1. TypeOK'
    BY <1>1 DEF Lock
  <2>2. LockInv'
    BY <1>1 DEF Lock
  <2>3. CountInv' /\ StillReady'
    BY <1>1 DEF Lock
  <2>4. SlotInv'
    BY <1>1 DEF Lock
  <2> QED
    BY <2>1, <2>2, <2>3, <2>4
<1>2. ASSUME NEW t \in Threads, Spurious(t)
      PROVE  IndInv'
  <2>1. TypeOK'
    BY <1>2 DEF Spurious
  <2>2. LockInv'
    BY <1>2 DEF Spurious
  <2>3. CountInv' /\ StillReady'
    BY <1>2 DEF Spurious
  <2>4. SlotInv'
    BY <1>2 DEF Spurious
  <2> QED
    BY <2>1, <2>2, <2>3, <2>4
<1>3. ASSUME NEW t \in Writers, WriteWait(t)
      PROVE  IndInv'
  <2>1. TypeOK'
    BY <1>3, Predicates DEF WriteWait, Proceed, Sleep
  <2>2. LockInv'
    BY <1>3 DEF WriteWait, Proceed, Sleep
  <2>3. CountInv' /\ StillReady'
    BY <1>3, Predicates DEF WriteWait, Proceed, Sleep
  <2>4. SlotInv'
    BY <1>3 DEF WriteWait, Proceed, Sleep
  <2> QED
    BY <2>1, <2>2, <2>3, <2>4
<1>4. ASSUME NEW t \in Writers, WriteClaim(t)
      PROVE  IndInv'
  <2>0. Slot(next_write_slot_) \in (1 - NUM_SLOTS) .. (NUM_SLOTS - 1)
    BY <1>a, <1>b
  <2>1. TypeOK'
    BY <1>4, <2>0 DEF WriteClaim
  <2>2. LockInv'
    BY <1>4 DEF WriteClaim
  <2>3. CountInv' /\ StillReady'
    BY <1>4 DEF WriteClaim
  <2>4. SlotInv'
    BY <1>4, <1>a DEF WriteClaim
  <2> QED
    BY <2>1, <2>2, <2>3, <2>4
<1>5. ASSUME NEW t \in Writers, WriteStore(t)
      PROVE  IndInv'
  <2>0. slot[t] \in Slots
    BY <1>5, FaultFree DEF WriteStore, Fault
  <2>1. TypeOK'
    <3>1. <<t, i[t]>> \in Values
      BY DEF Values
    <3>2. memory_' \in [Slots -> Values \cup {Zero}]
      BY <1>5, <2>0, <3>1 DEF WriteStore, Fault
    <3> QED
      BY <1>5, <2>0, <3>2 DEF WriteStore, Fault
  <2>2. LockInv'
    BY <1>5, <2>0 DEF WriteStore, Fault
  <2>3. CountInv' /\ StillReady'
    BY <1>5, <2>0 DEF WriteStore, Fault
  <2>4. SlotInv'
    BY <1>5, <2>0 DEF WriteStore, Fault
  <2> QED
    BY <2>1, <2>2, <2>3, <2>4
<1>6. ASSUME NEW t \in Writers, WriteFinish(t)
      PROVE  IndInv'
  <2>1. TypeOK'
    BY <1>6 DEF WriteFinish, Return, Notified, Sleepers
  <2>2. LockInv'
    BY <1>6 DEF WriteFinish, Return, Notified, Sleepers
  <2>3. CountInv' /\ StillReady'
    BY <1>6 DEF WriteFinish, Return, Notified, Sleepers
  <2>4. SlotInv'
    BY <1>6, <1>z DEF WriteFinish, Return, Notified, Sleepers
  <2> QED
    BY <2>1, <2>2, <2>3, <2>4
<1>7. ASSUME NEW t \in Readers, ReadWait(t)
      PROVE  IndInv'
  <2>1. TypeOK'
    BY <1>7, Predicates DEF ReadWait, Proceed, Sleep
  <2>2. LockInv'
    BY <1>7, Predicates DEF ReadWait, Proceed, Sleep
  <2>3. CountInv' /\ StillReady'
    BY <1>7, Predicates DEF ReadWait, Proceed, Sleep
  <2>4. SlotInv'
    BY <1>7, Predicates DEF ReadWait, Proceed, Sleep
  <2> QED
    BY <2>1, <2>2, <2>3, <2>4
<1>8. ASSUME NEW t \in Readers, ReadClaim(t)
      PROVE  IndInv'
  <2>0. Slot(next_read_slot_) \in (1 - NUM_SLOTS) .. (NUM_SLOTS - 1)
    BY <1>a, <1>b
  <2>1. TypeOK'
    BY <1>8, <2>0 DEF ReadClaim
  <2>2. LockInv'
    BY <1>8 DEF ReadClaim
  <2>3. CountInv' /\ StillReady'
    BY <1>8 DEF ReadClaim
  <2>4. SlotInv'
    BY <1>8, <1>a DEF ReadClaim
  <2> QED
    BY <2>1, <2>2, <2>3, <2>4
<1>9. ASSUME NEW t \in Readers, ReadLoad(t)
      PROVE  IndInv'
  <2>0. slot[t] \in Slots
    BY <1>9, FaultFree DEF ReadLoad, Fault
  <2>1. TypeOK'
    BY <1>9, <2>0 DEF ReadLoad, Fault
  <2>2. LockInv'
    BY <1>9, <2>0 DEF ReadLoad, Fault
  <2>3. CountInv' /\ StillReady'
    BY <1>9, <2>0 DEF ReadLoad, Fault
  <2>4. SlotInv'
    BY <1>9, <2>0 DEF ReadLoad, Fault
  <2> QED
    BY <2>1, <2>2, <2>3, <2>4
<1>10. ASSUME NEW t \in Readers, ReadFinish(t)
       PROVE  IndInv'
  <2>1. TypeOK'
    BY <1>10 DEF ReadFinish, Return, Sleepers
  <2>2. LockInv'
    BY <1>10 DEF ReadFinish, Return, Sleepers
  <2>3. CountInv' /\ StillReady'
    BY <1>10 DEF ReadFinish, Return, Sleepers
  <2>4. SlotInv'
    BY <1>10, <1>z DEF ReadFinish, Return, Sleepers
  <2> QED
    BY <2>1, <2>2, <2>3, <2>4
<1>11. CASE UNCHANGED vars
  BY <1>11 DEF vars, Slot
<1> QED
  BY <1>1, <1>2, <1>3, <1>4, <1>5, <1>6, <1>7, <1>8, <1>9, <1>10, <1>11
     DEF Next, WriterThread, ReaderThread

\* TypeOK as a theorem: with counters that do not wrap, every variable of
\* mmap4_cv.cc keeps its type, for any number of threads and slots.
THEOREM TypeCorrect ==
  ASSUME NoWrap
  PROVE  Spec => []TypeOK
<1>1. Init => IndInv
  BY InitIndInv
<1>2. IndInv /\ [Next]_vars => IndInv'
  BY StepIndInv, NoWrapIsEarly
<1>3. IndInv => TypeOK
  BY DEF IndInv
<1> QED
  BY <1>1, <1>2, <1>3, PTL DEF Spec

\* What a thread has tested in cv.wait (lines 37 and 50) still holds when it
\* claims its slot.
THEOREM WaitThenClaim ==
  ASSUME NoWrap
  PROVE  Spec => []StillReady
<1>1. Init => IndInv
  BY InitIndInv
<1>2. IndInv /\ [Next]_vars => IndInv'
  BY StepIndInv, NoWrapIsEarly
<1>3. IndInv => StillReady
  BY DEF IndInv
<1> QED
  BY <1>1, <1>2, <1>3, PTL DEF Spec

-----------------------------------------------------------------------------
(* The first call past INT_MAX.                                            *)

\* The int after INT_MAX is the least one, so a reader finds the ring empty.
LEMMA NoDataAtWrap ==
  ASSUME next_write_slot_ = IntMax + 1, next_read_slot_ \in Nat
  PROVE  ~ReadReady
<1> USE IntMaxAssumption
<1> DEFINE m == 2 * (IntMax + 1)
<1>1. m \in Nat \ {0}
  OBVIOUS
<1>2. AsInt(IntMax + 1) = IntMin
  <2>1. (m * 1 + 0) % m = 0
    <3> HIDE DEF m
    <3> QED
      BY <1>1, RemainderIsUnique
  <2>2. IntMax + 1 - IntMin = m * 1 + 0
    BY DEF IntMin
  <2>3. IntMax + 1 \notin Ints
    BY DEF Ints
  <2> QED
    BY <2>1, <2>2, <2>3 DEF AsInt, IntMin
<1>3. AsInt(next_read_slot_) >= IntMin
  <2>1. next_read_slot_ - IntMin \in Int
    BY DEF IntMin
  <2> DEFINE a == next_read_slot_ - IntMin
  <2>2. a % m \in Nat
    <3> HIDE DEF m, a
    <3>1. a \in Int
      BY <2>1 DEF a
    <3> QED
      BY <1>1, <3>1, IntDivision
  <2> QED
    BY <2>2 DEF AsInt, IntMin, Ints
<1>4. AsInt(next_read_slot_) \in Int
  <2> DEFINE a == next_read_slot_ - IntMin
  <2>1. a \in Int
    BY DEF IntMin
  <2>2. a % m \in Int
    <3> HIDE DEF m, a
    <3> QED
      BY <1>1, <2>1, IntDivision
  <2> QED
    BY <2>2 DEF AsInt, IntMin
<1> QED
  BY <1>2, <1>3, <1>4 DEF ReadReady, IntMin

\* The step that reaches INT_MAX + 1 leaves every slot in the ring.
LEMMA ReachWrap ==
  ASSUME Early, IndInv, [Next]_vars, next_write_slot_' = IntMax + 1
  PROVE  AtWrap'
<1> USE ThreadsAssumption, BoundAssumption, IntMaxAssumption
    DEF IndInv, TypeOK, LockInv, SlotInv, Threads, Holding, PCs
<1>1. next_write_slot_ \in Nat /\ next_write_slot_ <= IntMax
  BY DEF Early
<1>0. ~UNCHANGED next_write_slot_
  BY <1>1
<1>2. PICK t \in Writers: WriteClaim(t)
  BY <1>0 DEF Next, WriterThread, ReaderThread, Lock, Spurious, WriteWait, Proceed, Sleep,
              WriteStore, Fault, WriteFinish, Return, ReadWait, ReadClaim, ReadLoad,
              ReadFinish, vars
<1>3. Slot(next_write_slot_) \in Slots
  BY <1>1, SlotIsRemainder
<1>4. \A r \in Readers: pc[r] # "claim"
  BY <1>2 DEF WriteClaim
<1> QED
  BY <1>2, <1>3, <1>4 DEF WriteClaim, AtWrap

\* There it stays until the next call of Write claims its slot.
LEMMA StayAtWrap ==
  ASSUME next_write_slot_ = IntMax + 1, AtWrap, [Next]_vars,
         next_write_slot_' = IntMax + 1
  PROVE  AtWrap'
<1> USE ThreadsAssumption, BoundAssumption, IntMaxAssumption DEF AtWrap, Threads, PCs
<1>1. ASSUME NEW t \in Threads, Lock(t) \/ Spurious(t)
      PROVE  AtWrap'
  BY <1>1 DEF Lock, Spurious
<1>2. ASSUME NEW t \in Writers, WriteWait(t)
      PROVE  AtWrap'
  BY <1>2 DEF WriteWait, Proceed, Sleep
<1>3. ASSUME NEW t \in Writers, WriteClaim(t)
      PROVE  FALSE
  BY <1>3 DEF WriteClaim
<1>4. ASSUME NEW t \in Writers, WriteStore(t)
      PROVE  AtWrap'
  BY <1>4 DEF WriteStore, Fault
<1>5. ASSUME NEW t \in Writers, WriteFinish(t)
      PROVE  AtWrap'
  BY <1>5 DEF WriteFinish, Return, Slots
<1>6. ASSUME NEW t \in Readers, ReadWait(t)
      PROVE  AtWrap'
  BY <1>6, NoDataAtWrap DEF ReadWait, Sleep
<1>7. ASSUME NEW t \in Readers, ReadClaim(t)
      PROVE  FALSE
  BY <1>7 DEF ReadClaim
<1>8. ASSUME NEW t \in Readers, ReadLoad(t)
      PROVE  AtWrap'
  BY <1>8 DEF ReadLoad, Fault
<1>9. ASSUME NEW t \in Readers, ReadFinish(t)
      PROVE  AtWrap'
  BY <1>9 DEF ReadFinish, Return, Slots
<1>10. CASE UNCHANGED vars
  BY <1>10 DEF vars, Slots
<1> QED
  BY <1>1, <1>2, <1>3, <1>4, <1>5, <1>6, <1>7, <1>8, <1>9, <1>10
     DEF Next, WriterThread, ReaderThread

\* A counter never goes back.
LEMMA CountsOn ==
  ASSUME [Next]_vars
  PROVE  next_write_slot_' \in {next_write_slot_, next_write_slot_ + 1}
BY DEF Next, WriterThread, ReaderThread, Lock, Spurious, WriteWait, Proceed, Sleep,
       WriteClaim, WriteStore, Fault, WriteFinish, Return, ReadWait, ReadClaim, ReadLoad,
       ReadFinish, vars

LEMMA StepWrapInv ==
  ASSUME WrapInv, [Next]_vars
  PROVE  WrapInv'
<1> USE IntMaxAssumption
<1>1. next_write_slot_ \in Nat
  BY DEF WrapInv
<1>2. next_write_slot_' \in {next_write_slot_, next_write_slot_ + 1}
  BY CountsOn
<1>3. Early' => IndInv'
  BY <1>1, <1>2, StepIndInv DEF WrapInv, Early
<1>4. ASSUME next_write_slot_' = IntMax + 1
      PROVE  AtWrap'
  <2>1. CASE Early
    BY <1>4, <2>1, ReachWrap DEF WrapInv
  <2>2. CASE ~Early
    <3>1. next_write_slot_ = IntMax + 1
      BY <1>1, <1>2, <1>4, <2>2 DEF Early
    <3> QED
      BY <1>4, <3>1, StayAtWrap DEF WrapInv
  <2> QED
    BY <2>1, <2>2
<1> QED
  BY <1>1, <1>2, <1>3, <1>4 DEF WrapInv

LEMMA WrapInvIsSafe == WrapInv => FaultOnlyAfterWrap
<1> SUFFICES ASSUME WrapInv, ~(next_write_slot_ > IntMax + 1), NEW t \in Threads
             PROVE  pc[t] # "dead" /\ slot[t] \in Slots
  BY DEF FaultOnlyAfterWrap
<1>1. Early \/ next_write_slot_ = IntMax + 1
  BY IntMaxAssumption DEF WrapInv, Early
<1> QED
  BY <1>1 DEF WrapInv, IndInv, LockInv, SlotInv, AtWrap

LEMMA InitWrapInv == Init => WrapInv
<1>1. Init => next_write_slot_ = 0
  BY DEF Init
<1> QED
  BY <1>1, InitIndInv, IntMaxAssumption DEF WrapInv

LEMMA WrapInvariant == Spec => []WrapInv
BY InitWrapInv, StepWrapInv, PTL DEF Spec

\* No thread has a slot outside the ring, and none is killed, until a fetch_add
\* has passed INT_MAX (FaultOnlyAfterWrap), however many calls there are.
THEOREM SafeUntilWrap == Spec => []FaultOnlyAfterWrap
BY WrapInvariant, WrapInvIsSafe, PTL

-----------------------------------------------------------------------------
(* CvRing implements BoundedFifo.  The values in the queue are those whose *)
(* numbers lie between First and End; only a store moves End and only a    *)
(* load moves First.                                                       *)

LEMMA Bounds ==
  ASSUME IndInv
  PROVE  /\ First \in Nat /\ End \in Nat
         /\ End <= next_write_slot_
         /\ End - First \in 0 .. NUM_SLOTS
<1> USE ThreadsAssumption, BoundAssumption
    DEF IndInv, TypeOK, LockInv, CountInv, SlotInv, Unread, Threads, Holding
<1>1. CASE \E t \in Writers: pc[t] = "store"
  <2>1. ~ \E t \in Readers: pc[t] = "load"
    BY <1>1
  <2> QED
    BY <1>1, <2>1 DEF First, End
<1>2. CASE \E t \in Readers: pc[t] = "load"
  <2>1. ~ \E t \in Writers: pc[t] = "store"
    BY <1>2
  <2> QED
    BY <1>2, <2>1 DEF First, End
<1>3. CASE /\ ~ \E t \in Writers: pc[t] = "store"
           /\ ~ \E t \in Readers: pc[t] = "load"
  BY <1>3 DEF First, End
<1> QED
  BY <1>1, <1>2, <1>3

LEMMA QueueIsSeq ==
  ASSUME Early, IndInv
  PROVE  StoredUnread \in Seq(Values \cup {Zero}) /\ Len(StoredUnread) = End - First
<1> USE BoundAssumption, IntMaxAssumption DEF IndInv, TypeOK
<1>1. First \in Nat /\ End \in Nat /\ End <= IntMax /\ End - First \in Nat
  BY Bounds DEF Early
<1>2. \A k \in 1 .. End - First: memory_[Slot(First + k - 1)] \in Values \cup {Zero}
  <2> TAKE k \in 1 .. End - First
  <2>1. First + k - 1 \in Nat /\ First + k - 1 <= IntMax
    BY <1>1
  <2> QED
    BY <2>1, SlotIsRemainder
<1> QED
  BY <1>1, <1>2 DEF StoredUnread

\* A step that moves neither end of the queue, nor a slot, nor a count of
\* stores, nor a reader's result is a stutter of the queue.
LEMMA Stutter ==
  ASSUME First' = First, End' = End, memory_' = memory_, Stores' = Stores,
         value' = value
  PROVE  UNCHANGED Fifo!vars
BY DEF Fifo!vars, StoredUnread

\* A store appends the value of the call to the queue, and the queue is not full.
LEMMA StoreIsPut ==
  ASSUME Early, IndInv, NEW t \in Writers, WriteStore(t)
  PROVE  Fifo!Put(t)
<1> USE ThreadsAssumption, BoundAssumption
    DEF IndInv, TypeOK, LockInv, CountInv, SlotInv, Unread, Threads, Holding
<1>1. /\ pc[t] = "store" /\ slot[t] = Slot(next_write_slot_ - 1)
      /\ slot[t] \in Slots
      /\ \A u \in Threads: u # t => pc[u] \notin Holding
  BY SlotIsRemainder, IntMaxAssumption DEF WriteStore, Fault, Early
<1>2. /\ memory_' = [memory_ EXCEPT ![slot[t]] = <<t, i[t]>>]
      /\ pc' = [pc EXCEPT ![t] = "finish"]
      /\ UNCHANGED <<next_write_slot_, next_read_slot_, mutex_, slot, i, value>>
  BY <1>1 DEF WriteStore, Fault
<1>3. /\ First = next_read_slot_ /\ First' = First
      /\ End = next_write_slot_ - 1 /\ End' = End + 1
  BY <1>1, <1>2 DEF First, End
<1> DEFINE n == End - First
<1>4. n \in 0 .. NUM_SLOTS - 1 /\ n + 1 = End' - First'
  BY <1>1, <1>3
<1>5. \A k \in 1 .. n: memory_'[Slot(First + k - 1)] = memory_[Slot(First + k - 1)]
  <2> TAKE k \in 1 .. n
  <2>1. First + k - 1 \in Nat /\ First + k - 1 < End /\ End - (First + k - 1) < NUM_SLOTS
    BY <1>3, <1>4
  <2>2. End \in Nat /\ End <= IntMax
    BY <1>1, <1>3, IntMaxAssumption DEF Early
  <2>3. End % NUM_SLOTS # (First + k - 1) % NUM_SLOTS
    BY <2>1, <2>2, DistinctSlots
  <2>4. Slot(First + k - 1) # Slot(End) /\ Slot(First + k - 1) \in Slots
    BY <2>1, <2>2, <2>3, SlotIsRemainder, IntMaxAssumption
  <2> QED
    BY <1>1, <1>2, <1>3, <2>4
<1>6. memory_'[Slot(First + (n + 1) - 1)] = <<t, i[t]>>
  BY <1>1, <1>2, <1>3
<1>7. /\ StoredUnread = [k \in 1 .. n |-> memory_[Slot(First + k - 1)]]
      /\ StoredUnread' = [k \in 1 .. n + 1 |-> memory_'[Slot(First + k - 1)]]
  BY <1>3, <1>4 DEF StoredUnread
<1>8. Stores[t] = i[t] /\ Stores' = [Stores EXCEPT ![t] = @ + 1]
  BY <1>1, <1>2 DEF Stores
<1>9. StoredUnread \in Seq(Values \cup {Zero}) /\ Len(StoredUnread) = n
  BY <1>3, <1>4, QueueIsSeq
<1>10. StoredUnread' = Append(StoredUnread, <<t, Stores[t]>>)
  <2>1. \A k \in 1 .. n: StoredUnread'[k] = StoredUnread[k]
    BY <1>4, <1>5, <1>7
  <2>2. StoredUnread'[n + 1] = <<t, Stores[t]>>
    BY <1>4, <1>6, <1>7, <1>8
  <2>3. StoredUnread' = [k \in 1 .. n + 1 |-> StoredUnread'[k]]
    BY <1>7
  <2>4. <<t, Stores[t]>> \in Values \cup {Zero}
    BY <1>8 DEF Values
  <2> QED
    BY <1>9, <2>1, <2>2, <2>3, <2>4, AppendIsExtension
<1> QED
  BY <1>2, <1>4, <1>8, <1>9, <1>10 DEF Fifo!Put

\* A load takes the head of the queue, and the queue is not empty.
LEMMA LoadIsGet ==
  ASSUME Early, IndInv, NEW t \in Readers, ReadLoad(t)
  PROVE  Fifo!Get(t)
<1> USE ThreadsAssumption, BoundAssumption
    DEF IndInv, TypeOK, LockInv, CountInv, SlotInv, Unread, Threads, Holding
<1>1. /\ pc[t] = "load" /\ slot[t] = Slot(next_read_slot_ - 1) /\ next_read_slot_ > 0
      /\ slot[t] \in Slots
      /\ \A u \in Threads: u # t => pc[u] \notin Holding
  BY SlotIsRemainder, IntMaxAssumption DEF ReadLoad, Fault, Early
<1>2. /\ value' = [value EXCEPT ![t] = memory_[slot[t]]]
      /\ pc' = [pc EXCEPT ![t] = "finish"]
      /\ UNCHANGED <<memory_, next_write_slot_, next_read_slot_, mutex_, slot, i>>
  BY <1>1 DEF ReadLoad, Fault
<1>3. /\ First = next_read_slot_ - 1 /\ First' = First + 1
      /\ End = next_write_slot_ /\ End' = End
  BY <1>1, <1>2 DEF First, End
<1> DEFINE n == End - First
<1>4. n \in 1 .. NUM_SLOTS /\ First \in Nat /\ n - 1 = End' - First'
  BY <1>1, <1>3
<1>5. /\ StoredUnread = [k \in 1 .. n |-> memory_[Slot(First + k - 1)]]
      /\ StoredUnread' = [k \in 1 .. n - 1 |-> memory_[Slot(First + 1 + k - 1)]]
  BY <1>2, <1>3, <1>4 DEF StoredUnread
<1>6. StoredUnread \in Seq(Values \cup {Zero}) /\ Len(StoredUnread) = n
  BY QueueIsSeq
<1> HIDE DEF n
<1>7. StoredUnread # <<>> /\ Head(StoredUnread) = memory_[slot[t]]
  <2>1. StoredUnread # <<>>
    BY <1>4, <1>6
  <2>2. StoredUnread[1] = memory_[slot[t]]
    BY <1>1, <1>3, <1>4, <1>5
  <2> QED
    BY <2>1, <2>2, <1>6
<1>8. StoredUnread' = Tail(StoredUnread)
  <2>1. \A k \in 1 .. n - 1: StoredUnread'[k] = StoredUnread[k + 1]
    BY <1>4, <1>5
  <2>2. StoredUnread' = [k \in 1 .. n - 1 |-> StoredUnread'[k]]
    BY <1>5
  <2> QED
    BY <1>6, <1>7, <2>1, <2>2, TailIsShift
<1>9. Stores' = Stores
  BY <1>1, <1>2 DEF Stores
<1> QED
  BY <1>2, <1>7, <1>8, <1>9 DEF Fifo!Get

\* Every other step is a stutter of the queue.
LEMMA OtherSteps ==
  ASSUME IndInv,
         \/ \E t \in Threads: Lock(t) \/ Spurious(t)
         \/ \E t \in Writers: WriteWait(t) \/ WriteClaim(t) \/ WriteFinish(t)
         \/ \E t \in Readers: ReadWait(t) \/ ReadClaim(t) \/ ReadFinish(t)
         \/ UNCHANGED vars
  PROVE  UNCHANGED Fifo!vars
<1> USE ThreadsAssumption, BoundAssumption
    DEF IndInv, TypeOK, LockInv, Threads, Holding
<1>1. CASE \E t \in Threads: Lock(t) \/ Spurious(t)
  BY <1>1, Stutter DEF Lock, Spurious, First, End, Stores
<1>2. CASE \E t \in Writers: WriteWait(t)
  BY <1>2, Stutter DEF WriteWait, Proceed, Sleep, First, End, Stores
<1>3. CASE \E t \in Writers: WriteClaim(t)
  BY <1>3, Stutter DEF WriteClaim, First, End, Stores
<1>4. CASE \E t \in Writers: WriteFinish(t)
  BY <1>4, Stutter DEF WriteFinish, Return, Notified, Sleepers, First, End, Stores
<1>5. CASE \E t \in Readers: ReadWait(t)
  BY <1>5, Stutter DEF ReadWait, Proceed, Sleep, First, End, Stores
<1>6. CASE \E t \in Readers: ReadClaim(t)
  BY <1>6, Stutter DEF ReadClaim, First, End, Stores
<1>7. CASE \E t \in Readers: ReadFinish(t)
  BY <1>7, Stutter DEF ReadFinish, Return, Sleepers, First, End, Stores
<1>8. CASE UNCHANGED vars
  BY <1>8, Stutter DEF vars, First, End, Stores
<1> QED
  BY <1>1, <1>2, <1>3, <1>4, <1>5, <1>6, <1>7, <1>8

LEMMA FifoInit == Init => Fifo!Init
BY ThreadsAssumption DEF Init, Fifo!Init, StoredUnread, First, End, Stores, Threads

LEMMA FifoStep ==
  ASSUME Early, IndInv, [Next]_vars
  PROVE  [Fifo!Next]_(Fifo!vars)
<1>1. CASE \E t \in Writers: WriteStore(t)
  BY <1>1, StoreIsPut DEF Fifo!Next
<1>2. CASE \E t \in Readers: ReadLoad(t)
  BY <1>2, LoadIsGet DEF Fifo!Next
<1>3. CASE /\ ~ \E t \in Writers: WriteStore(t)
           /\ ~ \E t \in Readers: ReadLoad(t)
  <2>1. \/ \E t \in Threads: Lock(t) \/ Spurious(t)
        \/ \E t \in Writers: WriteWait(t) \/ WriteClaim(t) \/ WriteFinish(t)
        \/ \E t \in Readers: ReadWait(t) \/ ReadClaim(t) \/ ReadFinish(t)
        \/ UNCHANGED vars
    BY <1>3, Zenon DEF Next, WriterThread, ReaderThread
  <2>2. UNCHANGED Fifo!vars
    BY <2>1, OtherSteps, Zenon
  <2> QED
    BY <2>2
<1> QED
  BY <1>1, <1>2, <1>3

\* CvRing implements the bounded queue: as long as the counters do not wrap, no
\* value is lost, duplicated, reordered or overwritten before it is read.
THEOREM ImplementsFifo ==
  ASSUME NoWrap
  PROVE  Spec => IsFifo
<1>1. IndInv /\ [Next]_vars => IndInv'
  BY StepIndInv, NoWrapIsEarly
<1>2. IndInv /\ [Next]_vars => [Fifo!Next]_(Fifo!vars)
  BY FifoStep, NoWrapIsEarly
<1> QED
  BY <1>1, <1>2, InitIndInv, FifoInit, PTL DEF Spec, IsFifo, Fifo!Spec

\* The same of the loops as they are, which never end: every step of the program
\* is one of the bounded queue, or none, up to the fetch_add that takes INT_MAX
\* (line 39) and that one included.
THEOREM FifoUntilWrap ==
  Spec => Fifo!Init /\ [][Early => [Fifo!Next]_(Fifo!vars)]_vars
<1>1. WrapInv /\ [Next]_vars => [Early => [Fifo!Next]_(Fifo!vars)]_vars
  BY FifoStep DEF WrapInv
<1> QED
  BY <1>1, FifoInit, WrapInvariant, PTL DEF Spec

-----------------------------------------------------------------------------
(* No wakeup is lost.                                                      *)

\* Adding a reader to those awake adds one, removing one removes one.
LEMMA AwakeCount ==
  /\ Cardinality(Awake) \in Nat
  /\ \A t \in Readers: pc[t] # "lock" => Cardinality(Awake \cup {t}) = Cardinality(Awake) + 1
  /\ \A t \in Readers: pc[t] = "lock" => Cardinality(Awake \ {t}) = Cardinality(Awake) - 1
<1>1. IsFiniteSet(Awake)
  BY ThreadsAssumption, FS_Subset DEF Awake
<1>2. \A t \in Readers: t \in Awake <=> pc[t] = "lock"
  BY DEF Awake
<1> QED
  BY <1>1, <1>2, FS_CardinalityType, FS_AddElement, FS_RemoveElement

LEMMA StepWakeInv ==
  ASSUME Early, IndInv, WakeInv, [Next]_vars
  PROVE  WakeInv'
<1> USE ThreadsAssumption, BoundAssumption
    DEF IndInv, TypeOK, LockInv, CountInv, StillReady, Unread,
        Threads, Holding, WakeInv, Sleepers, Attended
<1>a. ASSUME Awake' = Awake
      PROVE  Cardinality(Awake)' = Cardinality(Awake)
  BY <1>a
<1>1. ASSUME NEW t \in Writers, Lock(t) \/ Spurious(t)
      PROVE  WakeInv'
  <2>1. Awake' = Awake
    BY <1>1 DEF Lock, Spurious, Awake
  <2> QED
    BY <1>1, <1>a, <2>1, AwakeCount DEF Lock, Spurious
<1>2. ASSUME NEW t \in Readers, Lock(t)
      PROVE  WakeInv'
  <2>1. Awake' = Awake \ {t}
    BY <1>2 DEF Lock, Awake
  <2>2. Cardinality(Awake)' = Cardinality(Awake) - 1
    BY <1>2, <2>1, AwakeCount DEF Lock
  <2> QED
    BY <1>2, <2>2, AwakeCount DEF Lock
<1>3. ASSUME NEW t \in Readers, Spurious(t)
      PROVE  WakeInv'
  <2>1. Awake' = Awake \cup {t}
    BY <1>3 DEF Spurious, Awake
  <2>2. Cardinality(Awake)' = Cardinality(Awake) + 1
    BY <1>3, <2>1, AwakeCount DEF Spurious
  <2> QED
    BY <1>3, <2>2, AwakeCount DEF Spurious
<1>4. ASSUME NEW t \in Writers, WriteWait(t)
      PROVE  WakeInv'
  <2>1. Awake' = Awake
    BY <1>4 DEF WriteWait, Proceed, Sleep, Awake
  <2>2. Cardinality(Awake)' = Cardinality(Awake)
    BY <2>1, <1>a
  <2>3. CASE Proceed(t)
    BY <2>2, <2>3, AwakeCount DEF Proceed
  <2>4. CASE FALSE \in WriteReady /\ Sleep(t)
    <3>1. Unread = NUM_SLOTS
      BY <2>4, Predicates, Zenon
    <3> QED
      BY <2>2, <2>4, <3>1, AwakeCount DEF Sleep
  <2> QED
    BY <1>4, <2>3, <2>4 DEF WriteWait
<1>5. ASSUME NEW t \in Writers, WriteClaim(t)
      PROVE  WakeInv'
  <2>1. Awake' = Awake
    BY <1>5 DEF WriteClaim, Awake
  <2> QED
    BY <1>5, <1>a, <2>1, AwakeCount DEF WriteClaim
<1>6. ASSUME NEW t \in Writers, WriteStore(t)
      PROVE  WakeInv'
  <2>0. pc' = [pc EXCEPT ![t] = "finish"]
    BY <1>6, FaultFree DEF WriteStore, Fault
  <2>1. Awake' = Awake
    BY <2>0, <1>6 DEF WriteStore, Awake
  <2> QED
    BY <1>6, <1>a, <2>0, <2>1, AwakeCount DEF WriteStore, Fault
<1>7. ASSUME NEW t \in Writers, WriteFinish(t)
      PROVE  WakeInv'
  <2>1. PICK woken \in Notified: Return(t, woken)
    BY <1>7 DEF WriteFinish
  <2>2. CASE Sleepers(Readers) = {}
    <3>1. woken = {}
      BY <2>2 DEF Notified
    <3>2. pc' = [pc EXCEPT ![t] = "lock"]
      BY <2>1, <3>1 DEF Return
    <3>3. Sleepers(Readers)' = {} /\ Sleepers(Writers)' = Sleepers(Writers)
      BY <1>7, <2>2, <3>2 DEF WriteFinish
    <3>4. \A u \in Readers: pc[u] \notin {"load", "finish"}
      BY <1>7 DEF WriteFinish
    <3>5. Unread' = Unread
      BY <2>1 DEF Return
    <3> HIDE DEF Sleepers, Attended
    <3> QED
      BY <3>3, <3>4, <3>5
  <2>3. CASE Sleepers(Readers) # {}
    <3>1. PICK r \in Sleepers(Readers): woken = {r}
      BY <2>3 DEF Notified
    <3>2. pc' = [pc EXCEPT ![t] = "lock", ![r] = "lock"]
      BY <2>1, <3>1 DEF Return
    <3>3. Awake' = Awake \cup {r}
      BY <1>7, <3>1, <3>2 DEF WriteFinish, Awake
    <3>4. Cardinality(Awake)' = Cardinality(Awake) + 1
      BY <3>1, <3>3, AwakeCount
    <3>5. Sleepers(Writers)' = Sleepers(Writers)
      BY <1>7, <3>1, <3>2 DEF WriteFinish
    <3>6. \A u \in Readers: pc[u] \notin {"load", "finish"}
      BY <1>7 DEF WriteFinish
    <3>7. Unread' = Unread
      BY <2>1 DEF Return
    <3> HIDE DEF Sleepers
    <3> QED
      BY <2>3, <3>4, <3>5, <3>6, <3>7, AwakeCount
  <2> QED
    BY <2>2, <2>3
<1>8. ASSUME NEW t \in Readers, ReadWait(t)
      PROVE  WakeInv'
  <2>1. Awake' = Awake
    BY <1>8 DEF ReadWait, Proceed, Sleep, Awake
  <2>2. Cardinality(Awake)' = Cardinality(Awake)
    BY <2>1, <1>a
  <2>3. CASE Proceed(t)
    BY <2>2, <2>3, AwakeCount DEF Proceed
  <2>4. CASE ~ReadReady /\ Sleep(t)
    <3>0. ~(Unread > 0)
      BY <2>4, Predicates, Zenon
    <3>1. Unread = 0 /\ Unread' = 0
      BY <2>4, <3>0 DEF Sleep
    <3>2. \A u \in Threads: u # t => pc[u] \notin Holding
      BY <1>8, <2>4 DEF Sleep
    <3>3. Sleepers(Writers) = {}
      BY <1>8, <2>4, <3>1, <3>2 DEF Sleep
    <3>4. Sleepers(Writers)' = {}
      BY <1>8, <2>4, <3>3 DEF Sleep
    <3> HIDE DEF Sleepers, Attended
    <3> QED
      BY <2>2, <3>1, <3>4, AwakeCount
  <2> QED
    BY <1>8, <2>3, <2>4 DEF ReadWait
<1>9. ASSUME NEW t \in Readers, ReadClaim(t)
      PROVE  WakeInv'
  <2>1. Awake' = Awake
    BY <1>9 DEF ReadClaim, Awake
  <2> QED
    BY <1>9, <1>a, <2>1, AwakeCount DEF ReadClaim
<1>10. ASSUME NEW t \in Readers, ReadLoad(t)
       PROVE  WakeInv'
  <2>0. pc' = [pc EXCEPT ![t] = "finish"]
    BY <1>10, FaultFree DEF ReadLoad, Fault
  <2>1. Awake' = Awake
    BY <2>0, <1>10 DEF ReadLoad, Awake
  <2> QED
    BY <1>10, <1>a, <2>0, <2>1, AwakeCount DEF ReadLoad, Fault
<1>11. ASSUME NEW t \in Readers, ReadFinish(t)
       PROVE  WakeInv'
  <2>1. Awake' = Awake \cup {t}
    BY <1>11 DEF ReadFinish, Return, Awake
  <2>2. Cardinality(Awake)' = Cardinality(Awake) + 1
    BY <1>11, <2>1, AwakeCount DEF ReadFinish
  <2>3. Sleepers(Writers)' = {} /\ Sleepers(Readers)' = Sleepers(Readers)
    BY <1>11 DEF ReadFinish, Return
  <2>4. ~Attended /\ Unread' = Unread
    BY <1>11 DEF ReadFinish, Return
  <2> HIDE DEF Sleepers, Attended
  <2> QED
    BY <2>2, <2>3, <2>4, AwakeCount
<1>12. CASE UNCHANGED vars
  <2>1. Awake' = Awake
    BY <1>12 DEF vars, Awake
  <2> QED
    BY <1>12, <1>a, <2>1 DEF vars
<1> QED
  BY <1>1, <1>2, <1>3, <1>4, <1>5, <1>6, <1>7, <1>8, <1>9, <1>10, <1>11, <1>12
     DEF Next, WriterThread, ReaderThread

LEMMA WakeInit == Init => WakeInv
BY ThreadsAssumption DEF Init, WakeInv, Sleepers, Threads

LEMMA WakeInvSuffices == IndInv /\ WakeInv => NoLostWakeup
BY ThreadsAssumption, AwakeCount
   DEF IndInv, LockInv, WakeInv, NoLostWakeup, Attended, Threads, Holding

\* NoLostWakeup as a theorem, for any number of writers and readers.
THEOREM WakeupsArrive ==
  ASSUME NoWrap
  PROVE  Spec => []NoLostWakeup
<1>1. IndInv /\ [Next]_vars => IndInv'
  BY StepIndInv, NoWrapIsEarly
<1>2. IndInv /\ WakeInv /\ [Next]_vars => WakeInv'
  BY StepWakeInv, NoWrapIsEarly
<1> QED
  BY <1>1, <1>2, InitIndInv, WakeInit, WakeInvSuffices, PTL DEF Spec

\* What NoWrap gives for ever, a program of any number of calls keeps until a
\* counter passes INT_MAX: no wakeup is lost, and what was tested in cv.wait holds
\* at the claim.
THEOREM RightUntilWrap == Spec => [](Early => TypeOK /\ StillReady /\ NoLostWakeup)
<1> DEFINE Inv == WrapInv /\ (Early => WakeInv)
<1>1. Init => Inv
  BY InitWrapInv, WakeInit
<1>2. ASSUME Inv, [Next]_vars
      PROVE  Inv'
  <2>1. WrapInv'
    BY <1>2, StepWrapInv
  <2>2. ASSUME Early'
        PROVE  WakeInv'
    <3>1. Early
      BY <1>2, <2>2, CountsOn, IntMaxAssumption DEF WrapInv, Early
    <3> QED
      BY <1>2, <3>1, StepWakeInv DEF WrapInv
  <2> QED
    BY <2>1, <2>2
<1>3. Inv => (Early => TypeOK /\ StillReady /\ NoLostWakeup)
  BY WakeInvSuffices DEF WrapInv, IndInv
<1> QED
  BY <1>1, <1>2, <1>3, PTL DEF Spec
=============================================================================
