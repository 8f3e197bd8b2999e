---------------------------- MODULE SemRingProofs ----------------------------
(***************************************************************************)
(* Theorems about SemRing, for any number of threads, slots and calls.     *)
(* Only what is said of the bounded queue asks for counters that have not  *)
(* wrapped.                                                                *)
(***************************************************************************)
EXTENDS SemRing, RingLemmas

\* Below INT_MAX the slot of a count is a slot of the ring.
LEMMA SlotInRange ==
  ASSUME NEW n \in Nat, n <= IntMax
  PROVE  Slot(n) \in Slots
<1>1. AsInt(n) = n
  BY IntMaxAssumption DEF AsInt, Ints, IntMin
<1>2. n % NUM_SLOTS \in 0 .. NUM_SLOTS - 1
  BY RemainderInRange, BoundAssumption
<1> QED
  BY <1>1, <1>2 DEF Slot, Rem, Slots

\* Past INT_MAX the slot may be negative, but is no further from 0 than a slot.
LEMMA SlotType ==
  ASSUME NEW n \in Nat
  PROVE  Slot(n) \in (1 - NUM_SLOTS) .. (NUM_SLOTS - 1)
<1>1. AsInt(n) \in Int
  <2>1. 2 * (IntMax + 1) \in Nat \ {0} /\ n - IntMin \in Int /\ IntMin \in Int
    BY IntMaxAssumption DEF IntMin
  <2> DEFINE m == 2 * (IntMax + 1)
             a == n - IntMin
  <2>2. a % m \in Int
    <3> HIDE DEF m, a
    <3> QED
      BY <2>1, IntDivision DEF m, a
  <2> QED
    BY <2>1, <2>2 DEF AsInt
<1>2. \A a \in Nat: a % NUM_SLOTS \in 0 .. NUM_SLOTS - 1
  BY RemainderInRange, BoundAssumption
<1>3. CASE AsInt(n) >= 0
  <2>1. AsInt(n) \in Nat
    BY <1>1, <1>3
  <2>2. AsInt(n) % NUM_SLOTS \in 0 .. NUM_SLOTS - 1
    BY <1>2, <2>1
  <2> QED
    BY <1>3, <2>2, BoundAssumption DEF Slot, Rem
<1>4. CASE ~(AsInt(n) >= 0)
  <2>1. -AsInt(n) \in Nat
    BY <1>1, <1>4
  <2>2. (-AsInt(n)) % NUM_SLOTS \in 0 .. NUM_SLOTS - 1
    BY <1>2, <2>1
  <2> QED
    BY <1>4, <2>2, BoundAssumption DEF Slot, Rem
<1> QED
  BY <1>3, <1>4

\* The four counts of Accounts.
WClaim == Cardinality(At(Writers, {"claim"}))
WInside == Cardinality(At(Writers, {"store", "post"}))
RClaim == Cardinality(At(Readers, {"claim"}))
RInside == Cardinality(At(Readers, {"load", "post"}))

LEMMA AtIsFinite ==
  ASSUME NEW S \in {Writers, Readers}, NEW P
  PROVE  /\ IsFiniteSet(At(S, P))
         /\ Cardinality(At(S, P)) \in Nat
         /\ (\E t \in S: pc[t] \in P) => Cardinality(At(S, P)) > 0
<1>1. IsFiniteSet(At(S, P))
  BY ThreadsAssumption, FS_Subset DEF At
<1>2. Cardinality(At(S, P)) \in Nat /\ (Cardinality(At(S, P)) = 0 <=> At(S, P) = {})
  BY <1>1, FS_CardinalityType, FS_EmptySet
<1>3. (\E t \in S: pc[t] \in P) => At(S, P) # {}
  BY DEF At
<1> QED
  BY <1>1, <1>2, <1>3

LEMMA CountsAreNat ==
  /\ WClaim \in Nat /\ WInside \in Nat /\ RClaim \in Nat /\ RInside \in Nat
  /\ (\E t \in Writers: pc[t] = "claim") => WClaim > 0
  /\ (\E t \in Writers: pc[t] \in {"store", "post"}) => WInside > 0
  /\ (\E t \in Readers: pc[t] = "claim") => RClaim > 0
  /\ (\E t \in Readers: pc[t] \in {"load", "post"}) => RInside > 0
BY AtIsFinite DEF WClaim, WInside, RClaim, RInside

\* A move of thread t changes the number of threads at a set of control points
\* by at most one.
LEMMA Moves ==
  ASSUME TypeOK, NEW t \in Threads, NEW from, NEW to, Goto(t, from, to),
         NEW S \in {Writers, Readers}, NEW P
  PROVE  Cardinality(At(S, P))' = Cardinality(At(S, P)) - One(t \in S /\ from \in P)
                                                       + One(t \in S /\ to \in P)
<1> DEFINE C == {u \in S: pc[u] \in P}
           D == {u \in S: pc'[u] \in P}
<1>1. /\ pc \in [Threads -> {"wait", "claim", "store", "load", "post", "dead"}]
      /\ pc[t] = from /\ pc' = [pc EXCEPT ![t] = to]
      /\ S \subseteq Threads
  BY DEF TypeOK, Goto, Threads
<1>2. IsFiniteSet(C) /\ IsFiniteSet(D)
  BY ThreadsAssumption, FS_Subset
<1>3. D \ {t} = C \ {t}
  BY <1>1
<1>4. /\ t \in C <=> t \in S /\ from \in P
      /\ t \in D <=> t \in S /\ to \in P
  BY <1>1
<1>5. At(S, P) = C /\ At(S, P)' = D
  BY DEF At
<1> HIDE DEF C, D
<1>6. Cardinality(D) = Cardinality(C) - One(t \in C) + One(t \in D)
  BY <1>2, <1>3, CardinalityMove
<1>7. /\ One(t \in C) = One(t \in S /\ from \in P)
      /\ One(t \in D) = One(t \in S /\ to \in P)
  BY <1>4 DEF One
<1> QED
  BY <1>5, <1>6, <1>7

LEMMA WriterMoves ==
  ASSUME TypeOK, NEW t \in Writers, NEW from, NEW to, Goto(t, from, to)
  PROVE  /\ WClaim' = WClaim - One(from = "claim") + One(to = "claim")
         /\ WInside' = WInside - One(from \in {"store", "post"})
                               + One(to \in {"store", "post"})
         /\ RClaim' = RClaim /\ RInside' = RInside
<1>1. t \in Threads /\ t \notin Readers
  BY ThreadsAssumption DEF Threads
<1> QED
  BY <1>1, Moves, CountsAreNat DEF One, WClaim, WInside, RClaim, RInside

LEMMA ReaderMoves ==
  ASSUME TypeOK, NEW t \in Readers, NEW from, NEW to, Goto(t, from, to)
  PROVE  /\ RClaim' = RClaim - One(from = "claim") + One(to = "claim")
         /\ RInside' = RInside - One(from \in {"load", "post"})
                               + One(to \in {"load", "post"})
         /\ WClaim' = WClaim /\ WInside' = WInside
<1>1. t \in Threads /\ t \notin Writers
  BY ThreadsAssumption DEF Threads
<1> QED
  BY <1>1, Moves, CountsAreNat DEF One, WClaim, WInside, RClaim, RInside

\* The invariant holds when the threads start.
LEMMA InitIndInv == Init => IndInv
<1> SUFFICES ASSUME Init
             PROVE  IndInv
  OBVIOUS
<1>1. /\ At(Writers, {"claim"}) = {} /\ At(Writers, {"store", "post"}) = {}
      /\ At(Readers, {"claim"}) = {} /\ At(Readers, {"load", "post"}) = {}
  BY DEF Init, At, Threads
<1>2. /\ Cardinality(At(Writers, {"claim"})) = 0
      /\ Cardinality(At(Writers, {"store", "post"})) = 0
      /\ Cardinality(At(Readers, {"claim"})) = 0
      /\ Cardinality(At(Readers, {"load", "post"})) = 0
  BY <1>1, FS_EmptySet, Zenon
<1>3. TypeOK /\ Roles /\ FaultOnlyAfterWrap
  BY ThreadsAssumption, BoundAssumption
     DEF Init, TypeOK, Roles, Alive, FaultOnlyAfterWrap, Threads, Slots
<1>4. InBound /\ Accounts /\ NoOverrun
  BY <1>2, BoundAssumption DEF Init, InBound, Accounts, NoOverrun, Unread
<1> QED
  BY <1>3, <1>4 DEF IndInv, Tokens

\* An access outside the mapping kills every thread, and comes after a wrap.
LEMMA FaultIndInv ==
  ASSUME IndInv, NEW t \in Threads, Fault(t)
  PROVE  IndInv'
<1> USE ThreadsAssumption, BoundAssumption DEF IndInv, Fault, shared
<1>1. /\ pc' = [u \in Threads |-> "dead"]
      /\ UNCHANGED <<shared, slot, i, value>>
      /\ next_write_slot_ > IntMax + 1
  BY DEF FaultOnlyAfterWrap
<1>2. TypeOK' /\ FaultOnlyAfterWrap' /\ NoOverrun'
  BY <1>1 DEF TypeOK, FaultOnlyAfterWrap, NoOverrun, Unread
<1>3. Roles' /\ ~Alive'
  BY <1>1 DEF Roles, Alive, Threads
<1>4. InBound'
  <2>1. At(Writers, {"claim"})' = {}
    BY <1>1 DEF At, Threads
  <2>2. Cardinality(At(Writers, {"claim"}))' = 0
    BY <2>1, FS_EmptySet, Zenon
  <2>3. Cardinality(At(Writers, {"claim"})) \in Nat
    BY AtIsFinite
  <2> QED
    BY <1>1, <2>2, <2>3 DEF InBound, TypeOK
<1> QED
  BY <1>2, <1>3, <1>4 DEF Tokens

\* A step of a thread that does not fault: each moves one thread, one token or
\* one counter, and Accounts tells what the others are.
LEMMA WriterIndInv ==
  ASSUME IndInv, NEW t \in Writers, WriterThread(t), ~Fault(t)
  PROVE  IndInv'
<1> USE ThreadsAssumption, BoundAssumption DEF IndInv, TypeOK, Unread
<1>a. /\ Accounts <=> /\ Unread = NUM_SLOTS - sem_write_ - WClaim - RInside
                    /\ Unread = sem_read_ + WInside + RClaim
      /\ Accounts' <=> /\ Unread' = NUM_SLOTS - sem_write_' - WClaim' - RInside'
                     /\ Unread' = sem_read_' + WInside' + RClaim'
      /\ InBound <=> next_write_slot_ + WClaim <= MaxWrites
      /\ InBound' <=> next_write_slot_' + WClaim' <= MaxWrites
  BY DEF Accounts, InBound, WClaim, WInside, RClaim, RInside
<1>b. t \in Threads /\ t \notin Readers /\ Writers \subseteq Threads /\ Readers \subseteq Threads
  BY DEF Threads
<1>c. \E from, to \in {"wait", "claim", "store", "post"}: Goto(t, from, to)
  BY DEF WriterThread, WriteWait, WriteClaim, WriteStore, WritePost
<1>d. Alive /\ Alive' /\ Roles'
  BY <1>b, <1>c DEF Goto, Roles, Alive
<1>e. Accounts
  BY <1>d DEF Tokens
<1>f. Accounts' /\ NoOverrun' => Tokens' /\ NoOverrun'
  BY DEF Tokens
<1>1. CASE WriteWait(t)
  <2>1. /\ WClaim' = WClaim + 1 /\ WInside' = WInside
        /\ RClaim' = RClaim /\ RInside' = RInside
    BY <1>1, WriterMoves, CountsAreNat DEF WriteWait, One
  <2>2. TypeOK' /\ FaultOnlyAfterWrap'
    BY <1>1, <1>b, <1>d DEF WriteWait, Goto, FaultOnlyAfterWrap, Alive
  <2>3. InBound'
    BY <1>1, <1>a, <2>1, CountsAreNat DEF WriteWait, WClaim
  <2>4. Accounts' /\ NoOverrun'
    BY <1>1, <1>a, <1>e, <2>1, CountsAreNat DEF WriteWait, NoOverrun
  <2> QED
    BY <1>d, <1>f, <2>2, <2>3, <2>4
<1>2. CASE WriteClaim(t)
  <2>1. /\ WClaim' = WClaim - 1 /\ WInside' = WInside + 1
        /\ RClaim' = RClaim /\ RInside' = RInside
    BY <1>2, WriterMoves, CountsAreNat DEF WriteClaim, One
  <2>0. WClaim > 0
    BY <1>2, CountsAreNat DEF WriteClaim, Goto
  <2>2. /\ Slot(next_write_slot_) \in (1 - NUM_SLOTS) .. (NUM_SLOTS - 1)
        /\ next_write_slot_ <= IntMax => Slot(next_write_slot_) \in Slots
    BY SlotType, SlotInRange
  <2>3. TypeOK'
    BY <1>2, <1>b, <2>2 DEF WriteClaim, Goto
  <2>4. FaultOnlyAfterWrap'
    BY <1>2, <1>b, <1>d, <2>2, IntMaxAssumption DEF WriteClaim, Goto, FaultOnlyAfterWrap, Alive
  <2>5. InBound'
    BY <1>2, <1>a, <2>0, <2>1, CountsAreNat DEF WriteClaim
  <2>6. Accounts' /\ NoOverrun'
    BY <1>2, <1>a, <1>e, <2>0, <2>1, CountsAreNat DEF WriteClaim, NoOverrun
  <2> QED
    BY <1>d, <1>f, <2>3, <2>4, <2>5, <2>6
<1>3. CASE WriteStore(t)
  <2>1. Goto(t, "store", "post")
    BY <1>3 DEF WriteStore
  <2>2. /\ WClaim' = WClaim /\ WInside' = WInside
        /\ RClaim' = RClaim /\ RInside' = RInside
    BY <2>1, WriterMoves, CountsAreNat DEF One
  <2>3. <<t, i[t]>> \in Values
    BY DEF Values
  <2>4. UNCHANGED <<next_write_slot_, next_read_slot_, sem_write_, sem_read_, slot, i, value>>
    BY <1>3 DEF WriteStore
  <2>5. memory_' \in [Slots -> Values \cup {Zero}]
    BY <1>3, <2>3 DEF WriteStore
  <2>6. TypeOK' /\ FaultOnlyAfterWrap'
    BY <1>b, <1>d, <2>1, <2>4, <2>5 DEF Goto, FaultOnlyAfterWrap, Alive
  <2>7. InBound' /\ Accounts' /\ NoOverrun'
    BY <1>a, <1>e, <2>2, <2>4 DEF NoOverrun
  <2> QED
    BY <1>d, <1>f, <2>6, <2>7
<1>4. CASE WritePost(t)
  <2>1. /\ WClaim' = WClaim /\ WInside' = WInside - 1
        /\ RClaim' = RClaim /\ RInside' = RInside
    BY <1>4, WriterMoves, CountsAreNat DEF WritePost, One
  <2>0. WInside > 0
    BY <1>4, CountsAreNat DEF WritePost, Goto
  <2>2. 0 \in Slots /\ 0 \in (1 - NUM_SLOTS) .. (NUM_SLOTS - 1)
    BY DEF Slots
  <2>3. Accounts' /\ NoOverrun' /\ InBound'
    BY <1>4, <1>a, <1>e, <2>0, <2>1, CountsAreNat DEF WritePost, NoOverrun
  <2>4. sem_read_' \in 0 .. NUM_SLOTS
    BY <1>4, <1>a, <1>e, <2>0, <2>1, CountsAreNat DEF WritePost
  <2>5. TypeOK' /\ FaultOnlyAfterWrap'
    BY <1>4, <1>b, <1>d, <2>2, <2>4 DEF WritePost, Goto, FaultOnlyAfterWrap, Alive
  <2> QED
    BY <1>d, <1>f, <2>3, <2>5
<1> QED
  BY <1>1, <1>2, <1>3, <1>4 DEF WriterThread

LEMMA ReaderIndInv ==
  ASSUME IndInv, NEW t \in Readers, ReaderThread(t), ~Fault(t)
  PROVE  IndInv'
<1> USE ThreadsAssumption, BoundAssumption DEF IndInv, TypeOK, Unread
<1>a. /\ Accounts <=> /\ Unread = NUM_SLOTS - sem_write_ - WClaim - RInside
                    /\ Unread = sem_read_ + WInside + RClaim
      /\ Accounts' <=> /\ Unread' = NUM_SLOTS - sem_write_' - WClaim' - RInside'
                     /\ Unread' = sem_read_' + WInside' + RClaim'
      /\ InBound <=> next_write_slot_ + WClaim <= MaxWrites
      /\ InBound' <=> next_write_slot_' + WClaim' <= MaxWrites
  BY DEF Accounts, InBound, WClaim, WInside, RClaim, RInside
<1>b. t \in Threads /\ t \notin Writers /\ Writers \subseteq Threads /\ Readers \subseteq Threads
  BY DEF Threads
<1>c. \E from, to \in {"wait", "claim", "load", "post"}: Goto(t, from, to)
  BY DEF ReaderThread, ReadWait, ReadClaim, ReadLoad, ReadPost
<1>d. Alive /\ Alive' /\ Roles'
  BY <1>b, <1>c DEF Goto, Roles, Alive
<1>e. Accounts
  BY <1>d DEF Tokens
<1>f. Accounts' /\ NoOverrun' => Tokens' /\ NoOverrun'
  BY DEF Tokens
<1>1. CASE ReadWait(t)
  <2>1. /\ WClaim' = WClaim /\ WInside' = WInside
        /\ RClaim' = RClaim + 1 /\ RInside' = RInside
    BY <1>1, ReaderMoves, CountsAreNat DEF ReadWait, One
  <2>2. TypeOK' /\ FaultOnlyAfterWrap'
    BY <1>1, <1>b, <1>d DEF ReadWait, Goto, FaultOnlyAfterWrap, Alive
  <2>3. InBound' /\ Accounts' /\ NoOverrun'
    BY <1>1, <1>a, <1>e, <2>1, CountsAreNat DEF ReadWait, NoOverrun
  <2> QED
    BY <1>d, <1>f, <2>2, <2>3
<1>2. CASE ReadClaim(t)
  <2>1. /\ WClaim' = WClaim /\ WInside' = WInside
        /\ RClaim' = RClaim - 1 /\ RInside' = RInside + 1
    BY <1>2, ReaderMoves, CountsAreNat DEF ReadClaim, One
  <2>0. RClaim > 0
    BY <1>2, CountsAreNat DEF ReadClaim, Goto
  <2>2. /\ Slot(next_read_slot_) \in (1 - NUM_SLOTS) .. (NUM_SLOTS - 1)
        /\ next_read_slot_ <= IntMax => Slot(next_read_slot_) \in Slots
    BY SlotType, SlotInRange
  <2>3. next_read_slot_ < next_write_slot_
    BY <1>a, <1>e, <2>0, <2>1, CountsAreNat
  <2>4. TypeOK'
    BY <1>2, <1>b, <2>2 DEF ReadClaim, Goto
  <2>5. FaultOnlyAfterWrap'
    BY <1>2, <1>b, <1>d, <2>2, <2>3, IntMaxAssumption DEF ReadClaim, Goto, FaultOnlyAfterWrap, Alive
  <2>6. InBound' /\ Accounts' /\ NoOverrun'
    BY <1>2, <1>a, <1>e, <2>0, <2>1, CountsAreNat DEF ReadClaim, NoOverrun
  <2> QED
    BY <1>d, <1>f, <2>4, <2>5, <2>6
<1>3. CASE ReadLoad(t)
  <2>1. Goto(t, "load", "post") /\ UNCHANGED <<shared, slot, i>>
    BY <1>3 DEF ReadLoad
  <2>2. /\ WClaim' = WClaim /\ WInside' = WInside
        /\ RClaim' = RClaim /\ RInside' = RInside
    BY <2>1, ReaderMoves, CountsAreNat DEF One
  <2>3. value' \in [Readers -> Values \cup {Zero, Garbage}]
    BY <1>3 DEF ReadLoad
  <2>4. TypeOK' /\ FaultOnlyAfterWrap'
    BY <1>b, <1>d, <2>1, <2>3 DEF Goto, shared, FaultOnlyAfterWrap, Alive
  <2>5. InBound' /\ Accounts' /\ NoOverrun'
    BY <1>a, <1>e, <2>1, <2>2 DEF shared, NoOverrun
  <2> QED
    BY <1>d, <1>f, <2>4, <2>5
<1>4. CASE ReadPost(t)
  <2>1. /\ WClaim' = WClaim /\ WInside' = WInside
        /\ RClaim' = RClaim /\ RInside' = RInside - 1
    BY <1>4, ReaderMoves, CountsAreNat DEF ReadPost, One
  <2>0. RInside > 0
    BY <1>4, CountsAreNat DEF ReadPost, Goto
  <2>2. 0 \in Slots /\ 0 \in (1 - NUM_SLOTS) .. (NUM_SLOTS - 1)
    BY DEF Slots
  <2>3. InBound' /\ Accounts' /\ NoOverrun'
    BY <1>4, <1>a, <1>e, <2>0, <2>1, CountsAreNat DEF ReadPost, NoOverrun
  <2>4. sem_write_' \in 0 .. NUM_SLOTS
    BY <1>4, <1>a, <1>e, <2>0, <2>1, CountsAreNat DEF ReadPost
  <2>5. TypeOK' /\ FaultOnlyAfterWrap'
    BY <1>4, <1>b, <1>d, <2>2, <2>4 DEF ReadPost, Goto, FaultOnlyAfterWrap, Alive
  <2> QED
    BY <1>d, <1>f, <2>3, <2>5
<1> QED
  BY <1>1, <1>2, <1>3, <1>4 DEF ReaderThread

LEMMA StepIndInv ==
  ASSUME IndInv, [Next]_vars
  PROVE  IndInv'
<1>1. ASSUME NEW t \in Writers, WriterThread(t)
      PROVE  IndInv'
  BY <1>1, WriterIndInv, FaultIndInv DEF Threads
<1>2. ASSUME NEW t \in Readers, ReaderThread(t)
      PROVE  IndInv'
  BY <1>2, ReaderIndInv, FaultIndInv DEF Threads
<1>3. CASE UNCHANGED vars
  BY <1>3 DEF vars, shared, IndInv, TypeOK, InBound, Roles, Alive, Tokens, Accounts, NoOverrun,
              FaultOnlyAfterWrap, Unread, At
<1> QED
  BY <1>1, <1>2, <1>3 DEF Next, Finished

\* TypeOK as a theorem: every variable of mmap4_sem.cc keeps its type, for any
\* number of threads and slots, before and after the counters wrap.
THEOREM TypeCorrect == Spec => []TypeOK
<1>1. IndInv => TypeOK
  BY DEF IndInv
<1> QED
  BY <1>1, InitIndInv, StepIndInv, PTL DEF Spec

\* The semaphores account for every slot (Tokens), whatever the interleaving of
\* any number of writers and readers, until a fault kills them.
THEOREM TokensConserved == Spec => []Tokens
<1>1. IndInv => Tokens
  BY DEF IndInv
<1> QED
  BY <1>1, InitIndInv, StepIndInv, PTL DEF Spec

\* The counters never run more than NUM_SLOTS apart, nor does the read counter
\* overtake the write counter (NoOverrun).
THEOREM NeverOverrun == Spec => []NoOverrun
<1>1. IndInv => NoOverrun
  BY DEF IndInv
<1> QED
  BY <1>1, InitIndInv, StepIndInv, PTL DEF Spec

\* Until next_write_slot_ has passed INT_MAX no thread has a slot outside the
\* ring and none is killed (FaultOnlyAfterWrap): the fetch_add that passes it
\* is the first that can.
THEOREM SafeUntilWrap == Spec => []FaultOnlyAfterWrap
<1>1. IndInv => FaultOnlyAfterWrap
  BY DEF IndInv
<1> QED
  BY <1>1, InitIndInv, StepIndInv, PTL DEF Spec

\* Counters that have not wrapped leave no slot outside the ring.
LEMMA BelowTheWrap ==
  ASSUME Early, IndInv
  PROVE  NoWrapInv
<1>1. \A t \in Threads: pc[t] # "dead" /\ slot[t] \in Slots
  BY IntMaxAssumption DEF Early, IndInv, TypeOK, FaultOnlyAfterWrap
<1> QED
  BY <1>1 DEF IndInv, NoWrapInv, InRange, Tokens, Alive

\* With the bound of NoWrap they never do.
LEMMA NoWrapIsEarly ==
  ASSUME NoWrap, IndInv
  PROVE  Early
BY CountsAreNat, BoundAssumption, IntMaxAssumption
   DEF IndInv, TypeOK, InBound, NoWrap, Early, WClaim

-----------------------------------------------------------------------------
(* One writer and one reader: SemRing implements BoundedFifo.              *)

Pair(w, r) == Writers = {w} /\ Readers = {r}

\* With a single thread of a role, a count of threads is 0 or 1.
LEMMA CountOfOne ==
  ASSUME NEW t, NEW C, C \subseteq {t}, NEW B, t \in C <=> B
  PROVE  Cardinality(C) = One(B)
<1>1. Cardinality({t}) = 1
  BY FS_Singleton, Zenon
<1>2. Cardinality({}) = 0
  BY FS_EmptySet, Zenon
<1>3. C = IF t \in C THEN {t} ELSE {}
  OBVIOUS
<1> QED
  BY <1>1, <1>2, <1>3 DEF One

LEMMA PairCounts ==
  ASSUME NEW w, NEW r, Pair(w, r)
  PROVE  /\ Cardinality(At(Writers, {"store"})) = One(pc[w] = "store")
         /\ Cardinality(At(Readers, {"load"})) = One(pc[r] = "load")
         /\ WClaim = One(pc[w] = "claim") /\ RClaim = One(pc[r] = "claim")
         /\ WInside = One(pc[w] \in {"store", "post"})
         /\ RInside = One(pc[r] \in {"load", "post"})
<1>1. /\ At(Writers, {"store"}) \subseteq {w} /\ (w \in At(Writers, {"store"}) <=> pc[w] = "store")
      /\ At(Readers, {"load"}) \subseteq {r} /\ (r \in At(Readers, {"load"}) <=> pc[r] = "load")
      /\ At(Writers, {"claim"}) \subseteq {w} /\ (w \in At(Writers, {"claim"}) <=> pc[w] = "claim")
      /\ At(Readers, {"claim"}) \subseteq {r} /\ (r \in At(Readers, {"claim"}) <=> pc[r] = "claim")
      /\ At(Writers, {"store", "post"}) \subseteq {w}
      /\ w \in At(Writers, {"store", "post"}) <=> pc[w] \in {"store", "post"}
      /\ At(Readers, {"load", "post"}) \subseteq {r}
      /\ r \in At(Readers, {"load", "post"}) <=> pc[r] \in {"load", "post"}
  BY DEF At, Pair
<1>2. /\ Cardinality(At(Writers, {"store"})) = One(pc[w] = "store")
      /\ Cardinality(At(Readers, {"load"})) = One(pc[r] = "load")
  BY <1>1, CountOfOne, Zenon
<1>3. /\ Cardinality(At(Writers, {"claim"})) = One(pc[w] = "claim")
      /\ Cardinality(At(Readers, {"claim"})) = One(pc[r] = "claim")
  BY <1>1, CountOfOne, Zenon
<1>4. Cardinality(At(Writers, {"store", "post"})) = One(pc[w] \in {"store", "post"})
  <2> DEFINE C == At(Writers, {"store", "post"})
             B == pc[w] \in {"store", "post"}
  <2>1. C \subseteq {w} /\ (w \in C <=> B)
    BY <1>1
  <2> HIDE DEF C, B
  <2>2. Cardinality(C) = One(B)
    BY <2>1, CountOfOne
  <2> QED
    BY <2>2 DEF C, B
<1>5. Cardinality(At(Readers, {"load", "post"})) = One(pc[r] \in {"load", "post"})
  <2> DEFINE C == At(Readers, {"load", "post"})
             B == pc[r] \in {"load", "post"}
  <2>1. C \subseteq {r} /\ (r \in C <=> B)
    BY <1>1
  <2> HIDE DEF C, B
  <2>2. Cardinality(C) = One(B)
    BY <2>1, CountOfOne
  <2> QED
    BY <2>2 DEF C, B
<1> QED
  BY <1>2, <1>3, <1>4, <1>5 DEF WClaim, RClaim, WInside, RInside

\* The ends of the queue, and the room that the tokens leave between them.
LEMMA PairBounds ==
  ASSUME NoWrapInv, PairInv, NEW w, NEW r, Pair(w, r)
  PROVE  /\ First = next_read_slot_ - One(pc[r] = "load")
         /\ End = next_write_slot_ - One(pc[w] = "store")
         /\ First \in Nat /\ End \in Nat
         /\ End - First \in 0 .. NUM_SLOTS
         /\ pc[w] = "store" => End - First < NUM_SLOTS
         /\ pc[r] = "load" => End - First > 0
<1>1. /\ Cardinality(At(Writers, {"store"})) = One(pc[w] = "store")
      /\ Cardinality(At(Readers, {"load"})) = One(pc[r] = "load")
      /\ WClaim = One(pc[w] = "claim") /\ RClaim = One(pc[r] = "claim")
      /\ WInside = One(pc[w] \in {"store", "post"})
      /\ RInside = One(pc[r] \in {"load", "post"})
  BY PairCounts
<1>3. /\ Unread = NUM_SLOTS - sem_write_ - WClaim - RInside
      /\ Unread = sem_read_ + WInside + RClaim
      /\ sem_write_ \in 0 .. NUM_SLOTS /\ sem_read_ \in 0 .. NUM_SLOTS
      /\ next_write_slot_ \in Nat /\ next_read_slot_ \in Nat
  BY DEF NoWrapInv, TypeOK, Accounts, WClaim, RClaim, WInside, RInside
<1>4. /\ pc[w] = "store" => next_write_slot_ > 0
      /\ pc[r] = "load" => next_read_slot_ > 0
  BY DEF PairInv, Pair
<1> QED
  BY <1>1, <1>3, <1>4, BoundAssumption DEF First, End, Unread, One

LEMMA PairEnds ==
  ASSUME NEW w, NEW r, Pair(w, r)
  PROVE  /\ First' = next_read_slot_' - One(pc'[r] = "load")
         /\ End' = next_write_slot_' - One(pc'[w] = "store")
<1>1. /\ At(Writers, {"store"})' \subseteq {w}
      /\ w \in At(Writers, {"store"})' <=> pc'[w] = "store"
      /\ At(Readers, {"load"})' \subseteq {r}
      /\ r \in At(Readers, {"load"})' <=> pc'[r] = "load"
  BY DEF At, Pair
<1>2. /\ Cardinality(At(Writers, {"store"})') = One(pc'[w] = "store")
      /\ Cardinality(At(Readers, {"load"})') = One(pc'[r] = "load")
  BY <1>1, CountOfOne, Zenon
<1> QED
  BY <1>2 DEF First, End

LEMMA StepPairInv ==
  ASSUME NoWrapInv, PairInv, NEW w, NEW r, Pair(w, r), [Next]_vars
  PROVE  PairInv'
<1> USE ThreadsAssumption DEF PairInv, Pair, NoWrapInv, TypeOK, Roles, Threads, Goto
<1>1. CASE WriteWait(w)
  BY <1>1 DEF WriteWait
<1>2. CASE WriteClaim(w)
  BY <1>2 DEF WriteClaim
<1>3. CASE WriteStore(w)
  BY <1>3 DEF WriteStore, Fault, shared
<1>4. CASE WritePost(w)
  BY <1>4 DEF WritePost
<1>5. CASE ReadWait(r)
  BY <1>5 DEF ReadWait
<1>6. CASE ReadClaim(r)
  BY <1>6 DEF ReadClaim
<1>7. CASE ReadLoad(r)
  BY <1>7 DEF ReadLoad, Fault, shared
<1>8. CASE ReadPost(r)
  BY <1>8 DEF ReadPost
<1>9. CASE UNCHANGED vars
  BY <1>9 DEF vars, shared
<1> QED
  BY <1>1, <1>2, <1>3, <1>4, <1>5, <1>6, <1>7, <1>8, <1>9
     DEF Next, WriterThread, ReaderThread, Finished

\* Below INT_MAX a slot is the remainder of its count.
LEMMA SlotIsRemainder ==
  ASSUME NEW n \in Nat, n <= IntMax
  PROVE  Slot(n) = n % NUM_SLOTS /\ Slot(n) \in Slots
<1>1. AsInt(n) = n
  BY IntMaxAssumption DEF AsInt, Ints, IntMin
<1> QED
  BY <1>1, SlotInRange DEF Slot, Rem

LEMMA PairQueueIsSeq ==
  ASSUME Early, NoWrapInv, PairInv, NEW w, NEW r, Pair(w, r)
  PROVE  StoredUnread \in Seq(Values \cup {Zero}) /\ Len(StoredUnread) = End - First
<1>1. First \in Nat /\ End \in Nat /\ End - First \in Nat
  BY PairBounds
<1>3. End <= IntMax + 1
  BY PairBounds, IntMaxAssumption DEF NoWrapInv, TypeOK, Early, One
<1>4. \A k \in 1 .. End - First: memory_[Slot(First + k - 1)] \in Values \cup {Zero}
  <2> TAKE k \in 1 .. End - First
  <2>1. First + k - 1 \in Nat /\ First + k - 1 <= IntMax
    BY <1>1, <1>3, IntMaxAssumption
  <2> QED
    BY <2>1, SlotIsRemainder DEF NoWrapInv, TypeOK
<1> QED
  BY <1>1, <1>4 DEF StoredUnread

\* A step that moves neither end of the queue, nor a slot, nor a count of
\* stores, nor a reader's result is a stutter of the queue.
LEMMA Stutter ==
  ASSUME First' = First, End' = End, memory_' = memory_, Stores' = Stores,
         value' = value
  PROVE  UNCHANGED Fifo!vars
BY DEF Fifo!vars, StoredUnread

\* A store appends the value of the call to the queue, and the queue is not full.
LEMMA StoreIsPut ==
  ASSUME Early, NoWrapInv, PairInv, NEW w, NEW r, Pair(w, r),
         WriteStore(w)
  PROVE  Fifo!Put(w)
<1> USE BoundAssumption, IntMaxAssumption
<1>1. w \in Writers /\ r \in Readers /\ w # r /\ w \in Threads /\ slot[w] \in Slots
  BY ThreadsAssumption DEF Pair, NoWrapInv, InRange, Threads
<1>2. /\ pc[w] = "store"
      /\ memory_' = [memory_ EXCEPT ![slot[w]] = <<w, i[w]>>]
      /\ pc' = [pc EXCEPT ![w] = "post"]
      /\ UNCHANGED <<next_write_slot_, next_read_slot_, slot, i, value>>
  BY <1>1 DEF WriteStore, Fault, Goto
<1>3. pc'[w] = "post" /\ pc'[r] = pc[r]
  BY <1>1, <1>2 DEF NoWrapInv, TypeOK
<1>4. /\ First' = First /\ End = next_write_slot_ - 1 /\ End' = End + 1
  <2>1. /\ First' = next_read_slot_' - One(pc'[r] = "load")
        /\ End' = next_write_slot_' - One(pc'[w] = "store")
    BY PairEnds
  <2>2. /\ First = next_read_slot_ - One(pc[r] = "load")
        /\ End = next_write_slot_ - One(pc[w] = "store")
        /\ next_write_slot_ \in Nat
    BY PairBounds DEF NoWrapInv, TypeOK
  <2> QED
    BY <2>1, <2>2, <1>2, <1>3 DEF One
<1> DEFINE n == End - First
<1>5. First \in Nat /\ End \in Nat /\ n \in 0 .. NUM_SLOTS - 1 /\ n + 1 = End' - First'
  BY <1>2, <1>4, PairBounds
<1>6. End <= IntMax
  BY <1>4 DEF Early, NoWrapInv, TypeOK
<1>7. slot[w] = Slot(End)
  BY <1>1, <1>2, <1>4 DEF PairInv
<1>8. \A k \in 1 .. n: memory_'[Slot(First + k - 1)] = memory_[Slot(First + k - 1)]
  <2> TAKE k \in 1 .. n
  <2>1. First + k - 1 \in Nat /\ First + k - 1 < End /\ End - (First + k - 1) < NUM_SLOTS
    BY <1>4, <1>5
  <2>2. End % NUM_SLOTS # (First + k - 1) % NUM_SLOTS
    BY <2>1, <1>5, DistinctSlots
  <2>3. Slot(First + k - 1) # Slot(End) /\ Slot(First + k - 1) \in Slots
    <3>1. Slot(End) = End % NUM_SLOTS
      BY <1>5, <1>6, SlotIsRemainder
    <3>2. First + k - 1 <= IntMax
      BY <2>1, <1>5, <1>6, IntMaxAssumption
    <3>3. /\ Slot(First + k - 1) = (First + k - 1) % NUM_SLOTS
          /\ Slot(First + k - 1) \in Slots
      BY <2>1, <3>2, SlotIsRemainder
    <3> QED
      BY <2>2, <3>1, <3>3, Zenon
  <2> QED
    BY <1>2, <1>7, <2>3 DEF NoWrapInv, TypeOK
<1>9. memory_'[Slot(First + (n + 1) - 1)] = <<w, i[w]>>
  BY <1>1, <1>2, <1>5, <1>7 DEF NoWrapInv, TypeOK
<1>10. /\ StoredUnread = [k \in 1 .. n |-> memory_[Slot(First + k - 1)]]
       /\ StoredUnread' = [k \in 1 .. n + 1 |-> memory_'[Slot(First + k - 1)]]
  BY <1>4, <1>5 DEF StoredUnread
<1>11. Stores[w] = i[w] /\ Stores' = [Stores EXCEPT ![w] = @ + 1]
  BY <1>1, <1>2, <1>3 DEF Stores, Pair, NoWrapInv, TypeOK
<1>12. StoredUnread \in Seq(Values \cup {Zero}) /\ Len(StoredUnread) = n
  BY PairQueueIsSeq
<1>13. StoredUnread' = Append(StoredUnread, <<w, Stores[w]>>)
  <2>1. \A k \in 1 .. n: StoredUnread'[k] = StoredUnread[k]
    <3> TAKE k \in 1 .. n
    <3>1. k \in 1 .. n + 1
      BY <1>5
    <3>2. StoredUnread'[k] = memory_'[Slot(First + k - 1)]
      BY <1>10, <3>1
    <3>3. StoredUnread[k] = memory_[Slot(First + k - 1)]
      BY <1>10
    <3> QED
      BY <1>8, <3>2, <3>3
  <2>2. StoredUnread'[n + 1] = <<w, Stores[w]>>
    BY <1>5, <1>9, <1>10, <1>11
  <2>3. StoredUnread' = [k \in 1 .. n + 1 |-> StoredUnread'[k]]
    BY <1>10
  <2>4. <<w, Stores[w]>> \in Values \cup {Zero}
    BY <1>1, <1>11 DEF Values, NoWrapInv, TypeOK
  <2> HIDE DEF n
  <2> QED
    BY <1>12, <2>1, <2>2, <2>3, <2>4, AppendIsExtension
<1> QED
  BY <1>2, <1>5, <1>11, <1>12, <1>13 DEF Fifo!Put

\* A load takes the head of the queue, and the queue is not empty.
LEMMA LoadIsGet ==
  ASSUME Early, NoWrapInv, PairInv, NEW w, NEW r, Pair(w, r), ReadLoad(r)
  PROVE  Fifo!Get(r)
<1> USE BoundAssumption, IntMaxAssumption
<1>1. w \in Writers /\ r \in Readers /\ w # r /\ r \in Threads /\ slot[r] \in Slots
  BY ThreadsAssumption DEF Pair, NoWrapInv, InRange, Threads
<1>2. /\ pc[r] = "load"
      /\ value' = [value EXCEPT ![r] = memory_[slot[r]]]
      /\ pc' = [pc EXCEPT ![r] = "post"]
      /\ UNCHANGED <<memory_, next_write_slot_, next_read_slot_, slot, i>>
  BY <1>1 DEF ReadLoad, Fault, Goto, shared
<1>3. pc'[r] = "post" /\ pc'[w] = pc[w]
  BY <1>1, <1>2 DEF NoWrapInv, TypeOK
<1>4. First = next_read_slot_ - 1 /\ First' = First + 1 /\ End' = End
  <2>1. /\ First' = next_read_slot_' - One(pc'[r] = "load")
        /\ End' = next_write_slot_' - One(pc'[w] = "store")
    BY PairEnds
  <2>2. /\ First = next_read_slot_ - One(pc[r] = "load")
        /\ End = next_write_slot_ - One(pc[w] = "store")
        /\ next_read_slot_ \in Nat
    BY PairBounds DEF NoWrapInv, TypeOK
  <2> QED
    BY <2>1, <2>2, <1>2, <1>3 DEF One
<1> DEFINE n == End - First
<1>5. First \in Nat /\ n \in 1 .. NUM_SLOTS /\ n - 1 = End' - First'
  BY <1>2, <1>4, PairBounds
<1>6. slot[r] = Slot(First)
  BY <1>1, <1>2, <1>4 DEF PairInv
<1>7. /\ StoredUnread = [k \in 1 .. n |-> memory_[Slot(First + k - 1)]]
      /\ StoredUnread' = [k \in 1 .. n - 1 |-> memory_[Slot(First + 1 + k - 1)]]
  BY <1>2, <1>4, <1>5 DEF StoredUnread
<1>8. StoredUnread \in Seq(Values \cup {Zero}) /\ Len(StoredUnread) = n
  BY PairQueueIsSeq
<1> HIDE DEF n
<1>9. StoredUnread # <<>> /\ Head(StoredUnread) = memory_[slot[r]]
  <2>1. StoredUnread # <<>>
    BY <1>5, <1>8
  <2>2. StoredUnread[1] = memory_[slot[r]]
    BY <1>5, <1>6, <1>7
  <2> QED
    BY <2>1, <2>2, <1>8
<1>10. StoredUnread' = Tail(StoredUnread)
  <2>1. \A k \in 1 .. n - 1: StoredUnread'[k] = StoredUnread[k + 1]
    BY <1>5, <1>7
  <2>2. StoredUnread' = [k \in 1 .. n - 1 |-> StoredUnread'[k]]
    BY <1>7
  <2> QED
    BY <1>8, <1>9, <2>1, <2>2, TailIsShift
<1>11. Stores' = Stores
  BY <1>1, <1>2, <1>3 DEF Stores, Pair
<1> QED
  BY <1>2, <1>9, <1>10, <1>11 DEF Fifo!Get

\* Every other step is a stutter of the queue.
LEMMA OtherSteps ==
  ASSUME NoWrapInv, PairInv, NEW w, NEW r, Pair(w, r),
         \/ WriteWait(w) \/ WriteClaim(w) \/ WritePost(w)
         \/ ReadWait(r) \/ ReadClaim(r) \/ ReadPost(r)
         \/ UNCHANGED vars
  PROVE  UNCHANGED Fifo!vars
<1>1. /\ w # r /\ pc \in [{w, r} -> {"wait", "claim", "store", "load", "post", "dead"}]
      /\ next_write_slot_ \in Nat /\ next_read_slot_ \in Nat /\ i \in [{w} -> Nat]
  BY ThreadsAssumption DEF Pair, NoWrapInv, TypeOK, Threads
<1>2. /\ First' = next_read_slot_' - One(pc'[r] = "load")
      /\ End' = next_write_slot_' - One(pc'[w] = "store")
  BY PairEnds
<1>3. /\ First = next_read_slot_ - One(pc[r] = "load")
      /\ End = next_write_slot_ - One(pc[w] = "store")
  BY PairBounds
<1>4. /\ Stores = [t \in {w} |-> i[t] + IF pc[t] = "post" THEN 1 ELSE 0]
      /\ Stores' = [t \in {w} |-> i'[t] + IF pc'[t] = "post" THEN 1 ELSE 0]
  BY DEF Stores, Pair
<1> USE DEF Goto, One
<1>5. CASE WriteWait(w)
  BY <1>5, <1>1, <1>2, <1>3, <1>4, Stutter DEF WriteWait
<1>6. CASE WriteClaim(w)
  BY <1>6, <1>1, <1>2, <1>3, <1>4, Stutter DEF WriteClaim
<1>7. CASE WritePost(w)
  BY <1>7, <1>1, <1>2, <1>3, <1>4, Stutter DEF WritePost
<1>8. CASE ReadWait(r)
  BY <1>8, <1>1, <1>2, <1>3, <1>4, Stutter DEF ReadWait
<1>9. CASE ReadClaim(r)
  BY <1>9, <1>1, <1>2, <1>3, <1>4, Stutter DEF ReadClaim
<1>10. CASE ReadPost(r)
  BY <1>10, <1>1, <1>2, <1>3, <1>4, Stutter DEF ReadPost
<1>11. CASE UNCHANGED vars
  BY <1>11, <1>2, <1>3, <1>4, Stutter DEF vars, shared
<1> QED
  BY <1>5, <1>6, <1>7, <1>8, <1>9, <1>10, <1>11

LEMMA PairInit ==
  ASSUME NEW w, NEW r, Pair(w, r), Init
  PROVE  IndInv /\ PairInv /\ Fifo!Init
<1>1. IndInv /\ PairInv /\ Early
  BY InitIndInv, IntMaxAssumption DEF Init, PairInv, Threads, Early
<1>2. First = 0 /\ End = 0
  BY <1>1, BelowTheWrap, PairBounds DEF Init, One, Threads, Pair
<1> QED
  BY <1>1, <1>2 DEF Init, Fifo!Init, StoredUnread, Stores, Threads

LEMMA PairFifoStep ==
  ASSUME NEW w, NEW r, Pair(w, r), Early, IndInv, PairInv, [Next]_vars
  PROVE  [Fifo!Next]_(Fifo!vars)
<1>1. CASE WriteStore(w)
  BY <1>1, BelowTheWrap, StoreIsPut DEF Fifo!Next, Pair
<1>2. CASE ReadLoad(r)
  BY <1>2, BelowTheWrap, LoadIsGet DEF Fifo!Next, Pair
<1>3. CASE ~WriteStore(w) /\ ~ReadLoad(r)
  <2>1. \/ WriteWait(w) \/ WriteClaim(w) \/ WritePost(w)
        \/ ReadWait(r) \/ ReadClaim(r) \/ ReadPost(r)
        \/ UNCHANGED vars
    BY <1>3 DEF Next, WriterThread, ReaderThread, Finished, Pair
  <2>2. UNCHANGED Fifo!vars
    BY <2>1, BelowTheWrap, OtherSteps
  <2> QED
    BY <2>2
<1> QED
  BY <1>1, <1>2, <1>3

\* With one writer and one reader, and counters that do not wrap, the semaphores
\* alone make the ring a bounded queue (IsFifo).
THEOREM PairImplementsFifo ==
  ASSUME NoWrap, NEW w, NEW r, Pair(w, r)
  PROVE  Spec => IsFifo
<1> DEFINE Inv == IndInv /\ PairInv
<1>1. Init => Inv /\ Fifo!Init
  BY PairInit
<1>2. Inv /\ [Next]_vars => Inv'
  BY NoWrapIsEarly, BelowTheWrap, StepIndInv, StepPairInv
<1>3. Inv /\ [Next]_vars => [Fifo!Next]_(Fifo!vars)
  BY NoWrapIsEarly, PairFifoStep
<1> QED
  BY <1>1, <1>2, <1>3, PTL DEF Spec, IsFifo, Fifo!Spec

\* The loops of the program never end, so its counters do wrap.  Until then, and
\* the slot of INT_MAX itself included, every step of one writer and one reader is
\* one of the bounded queue or none (fetch_add, lines 49, 61).
THEOREM PairFifoUntilWrap ==
  ASSUME NEW w, NEW r, Pair(w, r)
  PROVE  Spec => Fifo!Init /\ [][Early => [Fifo!Next]_(Fifo!vars)]_vars
<1> DEFINE Inv == IndInv /\ (Early => PairInv)
<1>1. Init => Inv /\ Fifo!Init
  BY PairInit
<1>2. ASSUME Inv, [Next]_vars
      PROVE  Inv'
  <2>1. IndInv'
    BY <1>2, StepIndInv
  <2>2. ASSUME Early'
        PROVE  PairInv'
    <3>1. next_write_slot_' >= next_write_slot_
      BY <1>2 DEF IndInv, TypeOK, Next, WriterThread, ReaderThread, Finished, vars, shared,
                  WriteWait, WriteClaim, WriteStore, WritePost,
                  ReadWait, ReadClaim, ReadLoad, ReadPost, Fault
    <3>2. Early
      BY <1>2, <2>1, <2>2, <3>1, IntMaxAssumption DEF Early, IndInv, TypeOK
    <3> QED
      BY <1>2, <3>2, BelowTheWrap, StepPairInv
  <2> QED
    BY <2>1, <2>2
<1>3. Inv /\ [Next]_vars => [Early => [Fifo!Next]_(Fifo!vars)]_vars
  BY PairFifoStep
<1> QED
  BY <1>1, <1>2, <1>3, PTL DEF Spec
=============================================================================
