-------------------------- MODULE NamedSemRingProofs --------------------------
(***************************************************************************)
(* Theorems about NamedSemRing, for any threads, slots and number of kills.*)
(***************************************************************************)
EXTENDS NamedSemRing, RingLemmas

Flying == {"claim", "store", "load", "post"}

-----------------------------------------------------------------------------
(* How many threads of a process are at some points, and how that changes. *)

LEMMA CountIsNat ==
  ASSUME NEW S \in {Writers, Readers}, NEW P
  PROVE  /\ IsFiniteSet(At(S, P)) /\ IsFiniteSet(At(S, P)')
         /\ Cardinality(At(S, P)) \in Nat /\ Cardinality(At(S, P))' \in Nat
<1>1. IsFiniteSet(At(S, P)) /\ IsFiniteSet(At(S, P)')
  BY ThreadsAssumption, FS_Subset DEF At
<1> QED
  BY <1>1, FS_CardinalityType

\* Threads that stay at the points, or away from them, leave their number as it is.
LEMMA CountStill ==
  ASSUME NEW S \in {Writers, Readers}, NEW P,
         \A t \in S: pc'[t] \in P <=> pc[t] \in P
  PROVE  Cardinality(At(S, P))' = Cardinality(At(S, P))
<1>1. At(S, P)' = At(S, P)
  BY DEF At
<1> QED
  BY <1>1

\* A thread that moves comes to the points or leaves them alone.
LEMMA CountMoves ==
  ASSUME TypeOK, NEW S \in {Writers, Readers}, NEW P, NEW t \in S,
         NEW from, NEW to, Goto(t, from, to)
  PROVE  Cardinality(At(S, P))' = Cardinality(At(S, P)) - One(from \in P) + One(to \in P)
<1> DEFINE C == At(S, P)
           D == At(S, P)'
<1>1. /\ pc \in [Threads -> Points]
      /\ pc[t] = from /\ pc' = [pc EXCEPT ![t] = to]
      /\ S \subseteq Threads
  BY DEF TypeOK, Goto, Threads
<1>2. IsFiniteSet(C) /\ IsFiniteSet(D)
  BY CountIsNat
<1>3. D \ {t} = C \ {t}
  BY <1>1 DEF At
<1>4. /\ t \in C <=> from \in P
      /\ t \in D <=> to \in P
  BY <1>1 DEF At
<1>5. Cardinality(At(S, P)) = Cardinality(C) /\ Cardinality(At(S, P))' = Cardinality(D)
  OBVIOUS
<1> HIDE DEF C, D
<1>6. Cardinality(D) = Cardinality(C) - One(t \in C) + One(t \in D)
  BY <1>2, <1>3, CardinalityMove
<1>7. One(t \in C) = One(from \in P) /\ One(t \in D) = One(to \in P)
  BY <1>4 DEF One
<1> QED
  BY <1>5, <1>6, <1>7

LEMMA InFlightIsNat ==
  ASSUME NEW S \in {Writers, Readers}
  PROVE  InFlight(S) \in Nat
BY CountIsNat DEF InFlight

LEMMA InFlightStill ==
  ASSUME NEW S \in {Writers, Readers}, \A t \in S: pc'[t] = pc[t]
  PROVE  InFlight(S)' = InFlight(S)
BY CountStill DEF InFlight

\* A process without threads has none in flight.
LEMMA NoneInFlight ==
  ASSUME NEW S \in {Writers, Readers}
  PROVE  /\ (\A t \in S: pc[t] \in {"off", "wait"}) => InFlight(S) = 0
         /\ (\A t \in S: pc'[t] \in {"off", "wait"}) => InFlight(S)' = 0
<1>1. (\A t \in S: pc[t] \in {"off", "wait"}) => At(S, Flying) = {}
  BY DEF At, Flying
<1>2. (\A t \in S: pc'[t] \in {"off", "wait"}) => At(S, Flying)' = {}
  BY DEF At, Flying
<1>3. Cardinality({}) = 0
  BY FS_EmptySet
<1> QED
  BY <1>1, <1>2, <1>3 DEF InFlight, Flying

LEMMA InFlightMoves ==
  ASSUME TypeOK, NEW S \in {Writers, Readers}, NEW t \in S,
         NEW from, NEW to, Goto(t, from, to)
  PROVE  InFlight(S)' = InFlight(S) - One(from \in Flying) + One(to \in Flying)
<1>1. /\ InFlight(S) = Cardinality(At(S, Flying))
      /\ InFlight(S)' = Cardinality(At(S, Flying))'
  BY DEF InFlight, Flying
<1> QED
  BY <1>1, CountMoves

\* A move of a thread leaves the other process's threads alone.
LEMMA WriterMoves ==
  ASSUME TypeOK, NEW t \in Writers, NEW from, NEW to, Goto(t, from, to)
  PROVE  /\ InFlight(Writers)' = InFlight(Writers) - One(from \in Flying) + One(to \in Flying)
         /\ InFlight(Readers)' = InFlight(Readers)
<1>1. \A u \in Readers: pc'[u] = pc[u]
  BY ThreadsAssumption DEF Goto, TypeOK, Threads
<1> QED
  BY <1>1, InFlightMoves, InFlightStill

LEMMA ReaderMoves ==
  ASSUME TypeOK, NEW t \in Readers, NEW from, NEW to, Goto(t, from, to)
  PROVE  /\ InFlight(Readers)' = InFlight(Readers) - One(from \in Flying) + One(to \in Flying)
         /\ InFlight(Writers)' = InFlight(Writers)
<1>1. \A u \in Writers: pc'[u] = pc[u]
  BY ThreadsAssumption DEF Goto, TypeOK, Threads
<1> QED
  BY <1>1, InFlightMoves, InFlightStill

-----------------------------------------------------------------------------

LEMMA InitIndInv == Init => IndInv
BY ThreadsAssumption, BoundAssumption
   DEF Init, IndInv, TypeOK, Created, Running, Slots, Threads, Constructor, Points

\* A process that starts.
LEMMA StartIndInv ==
  ASSUME IndInv, \/ WriterShmOpen \/ WriterStarts \/ ReaderShmOpen \/ ReaderStarts
  PROVE  IndInv'
<1> USE ThreadsAssumption, BoundAssumption, AbsentAssumption
    DEF IndInv, TypeOK, Created, Running, Constructor, Points, Slots, Threads,
        system, counters, threads
<1>1. CASE WriterShmOpen
  BY <1>1 DEF WriterShmOpen
<1>2. CASE WriterFtruncate
  BY <1>2 DEF WriterFtruncate
<1>3. CASE WriterSemWrite
  BY <1>3 DEF WriterSemWrite
<1>4. CASE WriterSemRead
  BY <1>4 DEF WriterSemRead
<1>5. CASE WriterRun
  BY <1>5 DEF WriterRun
<1>6. CASE ReaderShmOpen
  BY <1>6 DEF ReaderShmOpen
<1>7. CASE ReaderSemWrite
  BY <1>7 DEF ReaderSemWrite
<1>8. CASE ReaderExits
  BY <1>8 DEF ReaderExits
<1>9. CASE ReaderRun
  BY <1>9 DEF ReaderRun
<1> QED
  BY <1>1, <1>2, <1>3, <1>4, <1>5, <1>6, <1>7, <1>8, <1>9 DEF WriterStarts, ReaderStarts

\* A thread inside Write or Read.
LEMMA ThreadIndInv ==
  ASSUME IndInv, \/ \E t \in Writers: WriterThread(t)
                 \/ \E t \in Readers: ReaderThread(t)
  PROVE  IndInv'
<1> USE ThreadsAssumption, BoundAssumption, AbsentAssumption
    DEF IndInv, TypeOK, Created, Running, Points, Threads, system, counters, Goto
<1>0. \A n \in Slots: Following(n) \in Slots
  <2> TAKE n \in Slots
  <2>1. n + 1 \in Nat
    BY DEF Slots
  <2> QED
    BY <2>1, RemainderInRange DEF Slots, Following
<1>1. ASSUME NEW t \in Writers, WriteWait(t)
      PROVE  IndInv'
  BY <1>1 DEF WriteWait
<1>2. ASSUME NEW t \in Writers, WriteClaim(t)
      PROVE  IndInv'
  BY <1>2, <1>0 DEF WriteClaim
<1>3. ASSUME NEW t \in Writers, WriteStore(t)
      PROVE  IndInv'
  BY <1>3 DEF WriteStore
<1>4. ASSUME NEW t \in Writers, WritePost(t)
      PROVE  IndInv'
  BY <1>4 DEF WritePost
<1>5. ASSUME NEW t \in Readers, ReadWait(t)
      PROVE  IndInv'
  BY <1>5 DEF ReadWait
<1>6. ASSUME NEW t \in Readers, ReadClaim(t)
      PROVE  IndInv'
  BY <1>6, <1>0 DEF ReadClaim
<1>7. ASSUME NEW t \in Readers, ReadLoad(t)
      PROVE  IndInv'
  BY <1>7 DEF ReadLoad
<1>8. ASSUME NEW t \in Readers, ReadPost(t)
      PROVE  IndInv'
  BY <1>8 DEF ReadPost
<1> QED
  BY <1>1, <1>2, <1>3, <1>4, <1>5, <1>6, <1>7, <1>8, Zenon DEF WriterThread, ReaderThread

LEMMA StepIndInv == IndInv /\ [Next]_vars => IndInv'
<1> SUFFICES ASSUME IndInv, [Next]_vars
             PROVE  IndInv'
  OBVIOUS
<1>1. CASE WriterShmOpen \/ WriterStarts \/ ReaderShmOpen \/ ReaderStarts
  BY <1>1, StartIndInv
<1>2. CASE (\E t \in Writers: WriterThread(t)) \/ (\E t \in Readers: ReaderThread(t))
  BY <1>2, ThreadIndInv
<1>3. CASE KillWriter
  BY <1>3, ThreadsAssumption, BoundAssumption
     DEF KillWriter, KillThreads, IndInv, TypeOK, Created, Running, Constructor, Points,
         Slots, Threads, system, counters
<1>4. CASE KillReader
  BY <1>4, ThreadsAssumption, BoundAssumption
     DEF KillReader, KillThreads, IndInv, TypeOK, Created, Running, Constructor, Points,
         Slots, Threads, system, counters
<1>5. CASE UNCHANGED vars
  BY <1>5 DEF vars, system, counters, threads, IndInv, TypeOK, Created, Running
<1> QED
  BY <1>1, <1>2, <1>3, <1>4, <1>5, Zenon DEF Next

-----------------------------------------------------------------------------

\* What a semaphore holds, or will hold when it is created.
SemWrite == IF sem_write_ = Absent THEN NUM_SLOTS ELSE sem_write_
SemRead == IF sem_read_ = Absent THEN 0 ELSE sem_read_

LEMMA TotalIsSum ==
  ASSUME TypeOK
  PROVE  /\ Total = SemWrite + SemRead + InFlight(Writers) + InFlight(Readers)
         /\ Total' = SemWrite' + SemRead' + InFlight(Writers)' + InFlight(Readers)'
         /\ SemWrite \in Nat /\ SemRead \in Nat
         /\ InFlight(Writers) \in Nat /\ InFlight(Readers) \in Nat
         /\ Total \in Nat
<1>1. /\ SemWrite \in Nat /\ SemRead \in Nat
  BY BoundAssumption DEF TypeOK, SemWrite, SemRead
<1>2. InFlight(Writers) \in Nat /\ InFlight(Readers) \in Nat
  BY InFlightIsNat
<1>3. /\ Total = SemWrite + SemRead + InFlight(Writers) + InFlight(Readers)
      /\ Total' = SemWrite' + SemRead' + InFlight(Writers)' + InFlight(Readers)'
  BY DEF Total, SemWrite, SemRead
<1> QED
  BY <1>1, <1>2, <1>3

Kept == \/ Total' = Total
        \/ KillWriter /\ Total' = Total - InFlight(Writers)
        \/ KillReader /\ Total' = Total - InFlight(Readers)

\* Starting a process makes no token and loses none.
LEMMA StartKeeps ==
  ASSUME IndInv, \/ WriterShmOpen \/ WriterStarts \/ ReaderShmOpen \/ ReaderStarts
  PROVE  Total' = Total
<1> USE ThreadsAssumption, BoundAssumption, AbsentAssumption
<1>1. SemWrite' = SemWrite /\ SemRead' = SemRead
  BY DEF WriterShmOpen, WriterStarts, ReaderShmOpen, ReaderStarts, WriterFtruncate,
         WriterSemWrite, WriterSemRead, WriterRun, ReaderSemWrite, ReaderExits, ReaderRun,
         SemWrite, SemRead, system
<1>2. CASE pc' = pc
  <2>1. InFlight(Writers)' = InFlight(Writers) /\ InFlight(Readers)' = InFlight(Readers)
    BY <1>2, InFlightStill
  <2> QED
    BY <1>1, <2>1, TotalIsSum DEF IndInv
<1>3. CASE WriterRun
  <2>1. /\ \A t \in Writers: pc[t] \in {"off", "wait"} /\ pc'[t] \in {"off", "wait"}
        /\ \A t \in Readers: pc'[t] = pc[t]
    BY <1>3 DEF WriterRun, IndInv, Running, Threads
  <2>2. InFlight(Writers)' = InFlight(Writers) /\ InFlight(Readers)' = InFlight(Readers)
    BY <2>1, NoneInFlight, InFlightStill
  <2> QED
    BY <1>1, <2>2, TotalIsSum DEF IndInv
<1>4. CASE ReaderRun
  <2>1. /\ \A t \in Readers: pc[t] \in {"off", "wait"} /\ pc'[t] \in {"off", "wait"}
        /\ \A t \in Writers: pc'[t] = pc[t]
    BY <1>4 DEF ReaderRun, IndInv, Running, Threads
  <2>2. InFlight(Writers)' = InFlight(Writers) /\ InFlight(Readers)' = InFlight(Readers)
    BY <2>1, NoneInFlight, InFlightStill
  <2> QED
    BY <1>1, <2>2, TotalIsSum DEF IndInv
<1>5. pc' = pc \/ WriterRun \/ ReaderRun
  BY DEF WriterShmOpen, WriterStarts, ReaderShmOpen, ReaderStarts, WriterFtruncate,
         WriterSemWrite, WriterSemRead, ReaderSemWrite, ReaderExits, threads
<1> QED
  BY <1>2, <1>3, <1>4, <1>5

\* A thread takes a token into its hands, keeps it, or puts it into a semaphore.
LEMMA ThreadKeeps ==
  ASSUME IndInv, \/ \E t \in Writers: WriterThread(t)
                 \/ \E t \in Readers: ReaderThread(t)
  PROVE  Total' = Total
<1> USE DEF Flying
<1>0. TypeOK /\ Running /\ Created
  BY DEF IndInv
<1>1. ASSUME NEW t \in Writers, WriterThread(t)
      PROVE  Total' = Total
  <2>1. Goto(t, pc[t], pc'[t]) /\ t \in Threads
    BY <1>1, <1>0 DEF WriterThread, WriteWait, WriteClaim, WriteStore, WritePost, Goto, Threads, TypeOK
  <2>2. /\ InFlight(Writers)' = InFlight(Writers) - One(pc[t] \in Flying) + One(pc'[t] \in Flying)
        /\ InFlight(Readers)' = InFlight(Readers)
    BY <2>1, <1>0, WriterMoves
  <2>3. sem_write_ # Absent /\ sem_read_ # Absent
    BY <1>0, <1>1 DEF Running, Created, WriterThread, WriteWait, WriteClaim, WriteStore,
                      WritePost, Goto
  <2>4. SemWrite' + SemRead' = SemWrite + SemRead + One(pc[t] \in Flying) - One(pc'[t] \in Flying)
    BY <1>0, <1>1, <2>1, <2>3, AbsentAssumption
       DEF WriterThread, WriteWait, WriteClaim, WriteStore, WritePost, Goto, SemWrite, SemRead,
           One, TypeOK, system
  <2>5. SemWrite' \in Int /\ SemRead' \in Int
    BY <1>0, <1>1, <2>3, AbsentAssumption
       DEF WriterThread, WriteWait, WriteClaim, WriteStore, WritePost, SemWrite, SemRead,
           TypeOK, system
  <2>6. One(pc[t] \in Flying) \in Int /\ One(pc'[t] \in Flying) \in Int
    BY DEF One
  <2> HIDE DEF Flying
  <2> QED
    BY <2>2, <2>4, <2>5, <2>6, <1>0, TotalIsSum
<1>2. ASSUME NEW t \in Readers, ReaderThread(t)
      PROVE  Total' = Total
  <2>1. Goto(t, pc[t], pc'[t]) /\ t \in Threads
    BY <1>2, <1>0 DEF ReaderThread, ReadWait, ReadClaim, ReadLoad, ReadPost, Goto, Threads, TypeOK
  <2>2. /\ InFlight(Readers)' = InFlight(Readers) - One(pc[t] \in Flying) + One(pc'[t] \in Flying)
        /\ InFlight(Writers)' = InFlight(Writers)
    BY <2>1, <1>0, ReaderMoves
  <2>3. sem_write_ # Absent /\ sem_read_ # Absent
    BY <1>0, <1>2 DEF Running, Created, ReaderThread, ReadWait, ReadClaim, ReadLoad,
                      ReadPost, Goto
  <2>4. SemWrite' + SemRead' = SemWrite + SemRead + One(pc[t] \in Flying) - One(pc'[t] \in Flying)
    BY <1>0, <1>2, <2>1, <2>3, AbsentAssumption
       DEF ReaderThread, ReadWait, ReadClaim, ReadLoad, ReadPost, Goto, SemWrite, SemRead,
           One, TypeOK, system
  <2>5. SemWrite' \in Int /\ SemRead' \in Int
    BY <1>0, <1>2, <2>3, AbsentAssumption
       DEF ReaderThread, ReadWait, ReadClaim, ReadLoad, ReadPost, SemWrite, SemRead,
           TypeOK, system
  <2>6. One(pc[t] \in Flying) \in Int /\ One(pc'[t] \in Flying) \in Int
    BY DEF One
  <2> HIDE DEF Flying
  <2> QED
    BY <2>2, <2>4, <2>5, <2>6, <1>0, TotalIsSum
<1> QED
  BY <1>1, <1>2

LEMMA StepKeeps == IndInv /\ [Next]_vars => Kept
<1> SUFFICES ASSUME IndInv, [Next]_vars
             PROVE  Kept
  OBVIOUS
<1>0. TypeOK
  BY DEF IndInv
<1>1. CASE WriterShmOpen \/ WriterStarts \/ ReaderShmOpen \/ ReaderStarts
  BY <1>1, StartKeeps DEF Kept
<1>2. CASE (\E t \in Writers: WriterThread(t)) \/ (\E t \in Readers: ReaderThread(t))
  BY <1>2, ThreadKeeps DEF Kept
<1>3. CASE KillWriter
  <2>1. /\ \A t \in Writers: pc'[t] \in {"off", "wait"}
        /\ \A t \in Readers: pc'[t] = pc[t]
        /\ SemWrite' = SemWrite /\ SemRead' = SemRead
    BY <1>3, ThreadsAssumption DEF KillWriter, KillThreads, Threads, system, SemWrite, SemRead
  <2>2. InFlight(Writers)' = 0 /\ InFlight(Readers)' = InFlight(Readers)
    BY <2>1, NoneInFlight, InFlightStill
  <2>3. Total' = Total - InFlight(Writers)
    BY <2>1, <2>2, <1>0, TotalIsSum
  <2> QED
    BY <1>3, <2>3 DEF Kept
<1>4. CASE KillReader
  <2>1. /\ \A t \in Readers: pc'[t] \in {"off", "wait"}
        /\ \A t \in Writers: pc'[t] = pc[t]
        /\ SemWrite' = SemWrite /\ SemRead' = SemRead
    BY <1>4, ThreadsAssumption DEF KillReader, KillThreads, Threads, system, SemWrite, SemRead
  <2>2. InFlight(Readers)' = 0 /\ InFlight(Writers)' = InFlight(Writers)
    BY <2>1, NoneInFlight, InFlightStill
  <2>3. Total' = Total - InFlight(Readers)
    BY <2>1, <2>2, <1>0, TotalIsSum
  <2> QED
    BY <1>4, <2>3 DEF Kept
<1>5. CASE UNCHANGED vars
  <2>1. /\ SemWrite' = SemWrite /\ SemRead' = SemRead
        /\ InFlight(Writers)' = InFlight(Writers) /\ InFlight(Readers)' = InFlight(Readers)
    BY <1>5, InFlightStill DEF vars, system, threads, SemWrite, SemRead
  <2> QED
    BY <2>1, <1>0, TotalIsSum DEF Kept
<1> QED
  BY <1>1, <1>2, <1>3, <1>4, <1>5, Zenon DEF Next

-----------------------------------------------------------------------------
(* The counters and the slots until the first kill.                        *)

Storing == Cardinality(At(Writers, {"store", "post"}))
Claiming == Cardinality(At(Readers, {"claim"}))

LEMMA UnclaimedIsSum ==
  ASSUME TypeOK
  PROVE  /\ Unclaimed = SemRead + Claiming + Storing
         /\ Unclaimed' = SemRead' + Claiming' + Storing'
         /\ SemRead \in Nat
         /\ Storing \in Nat /\ Claiming \in Nat /\ Storing' \in Nat /\ Claiming' \in Nat
         /\ Unclaimed \in Nat
BY TotalIsSum, CountIsNat DEF Unclaimed, Takeable, SemRead, Storing, Claiming

\* What is unclaimed stays if nobody comes to these points or leaves them.
LEMMA UnclaimedStays ==
  ASSUME TypeOK, SemRead' = SemRead,
         \A t \in Writers: pc'[t] \in {"store", "post"} <=> pc[t] \in {"store", "post"},
         \A t \in Readers: pc'[t] = "claim" <=> pc[t] = "claim"
  PROVE  Unclaimed' = Unclaimed
<1>1. Storing' = Storing
  BY CountStill DEF Storing
<1>2. Claiming' = Claiming
  BY CountStill DEF Claiming
<1> QED
  BY <1>1, <1>2, UnclaimedIsSum

LEMMA WriterClaims ==
  ASSUME TypeOK, NEW t \in Writers, NEW from, NEW to, Goto(t, from, to)
  PROVE  /\ Storing' = Storing - One(from \in {"store", "post"}) + One(to \in {"store", "post"})
         /\ Claiming' = Claiming
<1>1. \A u \in Readers: pc'[u] = pc[u]
  BY ThreadsAssumption DEF Goto, TypeOK, Threads
<1>2. Claiming' = Claiming
  BY <1>1, CountStill DEF Claiming
<1> QED
  BY <1>2, CountMoves DEF Storing

LEMMA ReaderClaims ==
  ASSUME TypeOK, NEW t \in Readers, NEW from, NEW to, Goto(t, from, to)
  PROVE  /\ Claiming' = Claiming - One(from \in {"claim"}) + One(to \in {"claim"})
         /\ Storing' = Storing
<1>1. \A u \in Writers: pc'[u] = pc[u]
  BY ThreadsAssumption DEF Goto, TypeOK, Threads
<1>2. Storing' = Storing
  BY <1>1, CountStill DEF Storing
<1> QED
  BY <1>2, CountMoves DEF Claiming

\* Steps that leave the counters and what is unclaimed as they are.
LEMMA AgreeStays ==
  ASSUME AgreeInv, kills' = kills, Unclaimed' = Unclaimed,
         next_read_slot_' = next_read_slot_, next_write_slot_' = next_write_slot_,
         writer = "run" => writer' = "run", reader = "run" => reader' = "run"
  PROVE  AgreeInv'
BY DEF AgreeInv

\* The slots that are counted from a reader's counter once it has moved.
LEMMA SlotsAfterClaim ==
  ASSUME NEW n \in Nat
  PROVE  \A k \in Nat: (Following(n) + k) % NUM_SLOTS = (n + (k + 1)) % NUM_SLOTS
<1> TAKE k \in Nat
<1>1. (((n + 1) % NUM_SLOTS) + k) % NUM_SLOTS = ((n + 1) + k) % NUM_SLOTS
  <2>1. n + 1 \in Int /\ k \in Int
    OBVIOUS
  <2> QED
    BY <2>1, BoundAssumption, RemainderOfSum
<1>2. (n + 1) + k = n + (k + 1)
  OBVIOUS
<1> QED
  BY <1>1, <1>2 DEF Following

\* What is unclaimed, as the threads move.
LEMMA WriterUnclaimed ==
  ASSUME IndInv, NEW t \in Writers, WriterThread(t)
  PROVE  /\ writer = "run" /\ UNCHANGED <<writer, reader, kills, next_read_slot_>>
         /\ WriteClaim(t) => Unclaimed' = Unclaimed + 1
         /\ ~WriteClaim(t) => Unclaimed' = Unclaimed /\ next_write_slot_' = next_write_slot_
<1>0. /\ TypeOK /\ Created /\ Running
      /\ writer = "run" /\ UNCHANGED <<writer, reader, kills, next_read_slot_>>
      /\ sem_read_ \in Nat /\ sem_read_ # Absent
  BY AbsentAssumption
     DEF IndInv, TypeOK, Created, Running, WriterThread, WriteWait, WriteClaim, WriteStore,
         WritePost, Goto, counters
<1>1. CASE WriteWait(t)
  <2>1. Storing' = Storing /\ Claiming' = Claiming
    BY <1>0, <1>1, WriterClaims, UnclaimedIsSum DEF WriteWait, One
  <2>2. ~WriteClaim(t)
    BY <1>1 DEF WriteWait, WriteClaim, Goto
  <2> QED
    BY <1>0, <1>1, <2>1, <2>2, UnclaimedIsSum DEF WriteWait, SemRead, counters
<1>2. CASE WriteClaim(t)
  <2>1. Storing' = Storing + 1 /\ Claiming' = Claiming
    BY <1>0, <1>2, WriterClaims, UnclaimedIsSum DEF WriteClaim, One
  <2> QED
    BY <1>0, <1>2, <2>1, UnclaimedIsSum DEF WriteClaim, SemRead, system
<1>3. CASE WriteStore(t)
  <2>1. Storing' = Storing /\ Claiming' = Claiming
    BY <1>0, <1>3, WriterClaims, UnclaimedIsSum DEF WriteStore, One
  <2>2. ~WriteClaim(t)
    BY <1>3 DEF WriteStore, WriteClaim, Goto
  <2> QED
    BY <1>0, <1>3, <2>1, <2>2, UnclaimedIsSum DEF WriteStore, SemRead, counters
<1>4. CASE WritePost(t)
  <2>1. Storing' = Storing - 1 /\ Claiming' = Claiming
    BY <1>0, <1>4, WriterClaims, UnclaimedIsSum DEF WritePost, One
  <2>2. ~WriteClaim(t)
    BY <1>4 DEF WritePost, WriteClaim, Goto
  <2> QED
    BY <1>0, <1>4, <2>1, <2>2, UnclaimedIsSum, AbsentAssumption DEF WritePost, SemRead, counters
<1> QED
  BY <1>1, <1>2, <1>3, <1>4 DEF WriterThread

LEMMA ReaderUnclaimed ==
  ASSUME IndInv, NEW t \in Readers, ReaderThread(t)
  PROVE  /\ reader = "run" /\ UNCHANGED <<writer, reader, kills, next_write_slot_>>
         /\ ReadClaim(t) => Unclaimed' = Unclaimed - 1 /\ Unclaimed \in Nat \ {0}
         /\ ~ReadClaim(t) => Unclaimed' = Unclaimed /\ next_read_slot_' = next_read_slot_
         /\ \A u \in Writers: u # t /\ pc'[u] = pc[u] /\ slot'[u] = slot[u]
<1>0. /\ TypeOK /\ Created /\ Running
      /\ reader = "run" /\ UNCHANGED <<writer, reader, kills, next_write_slot_>>
      /\ sem_read_ \in Nat /\ sem_read_ # Absent
      /\ \A u \in Writers: u # t /\ pc'[u] = pc[u] /\ slot'[u] = slot[u]
  BY AbsentAssumption, ThreadsAssumption
     DEF IndInv, TypeOK, Created, Running, ReaderThread, ReadWait, ReadClaim, ReadLoad,
         ReadPost, Goto, counters, system, Threads
<1>1. CASE ReadWait(t)
  <2>1. Claiming' = Claiming + 1 /\ Storing' = Storing
    BY <1>0, <1>1, ReaderClaims, UnclaimedIsSum DEF ReadWait, One
  <2>2. ~ReadClaim(t)
    BY <1>1 DEF ReadWait, ReadClaim, Goto
  <2> QED
    BY <1>0, <1>1, <2>1, <2>2, UnclaimedIsSum, AbsentAssumption DEF ReadWait, SemRead, counters
<1>2. CASE ReadClaim(t)
  <2>1. Claiming' = Claiming - 1 /\ Storing' = Storing
    BY <1>0, <1>2, ReaderClaims, UnclaimedIsSum DEF ReadClaim, One
  <2> QED
    BY <1>0, <1>2, <2>1, UnclaimedIsSum DEF ReadClaim, SemRead, system
<1>3. CASE ReadLoad(t) \/ ReadPost(t)
  <2>1. Claiming' = Claiming /\ Storing' = Storing
    BY <1>0, <1>3, ReaderClaims, UnclaimedIsSum DEF ReadLoad, ReadPost, One
  <2>2. ~ReadClaim(t)
    BY <1>3 DEF ReadLoad, ReadPost, ReadClaim, Goto
  <2> QED
    BY <1>0, <1>3, <2>1, <2>2, UnclaimedIsSum DEF ReadLoad, ReadPost, SemRead, counters
<1> QED
  BY <1>1, <1>2, <1>3 DEF ReaderThread

LEMMA WriterAgree ==
  ASSUME IndInv, AgreeInv, NEW t \in Writers, WriterThread(t)
  PROVE  AgreeInv'
<1>0. /\ writer = "run" /\ UNCHANGED <<writer, reader, kills, next_read_slot_>>
      /\ WriteClaim(t) => Unclaimed' = Unclaimed + 1
      /\ ~WriteClaim(t) => Unclaimed' = Unclaimed /\ next_write_slot_' = next_write_slot_
  BY WriterUnclaimed
<1>1. CASE WriteClaim(t)
  <2> SUFFICES ASSUME kills = 0
               PROVE  AgreeInv'
    BY <1>0 DEF AgreeInv
  <2>1. /\ next_read_slot_ \in Nat /\ Unclaimed \in Nat
        /\ next_write_slot_ = (next_read_slot_ + Unclaimed) % NUM_SLOTS
    BY UnclaimedIsSum DEF IndInv, AgreeInv, TypeOK, Slots
  <2>2. next_write_slot_' = (next_write_slot_ + 1) % NUM_SLOTS
    BY <1>1 DEF WriteClaim, Following
  <2>3. (((next_read_slot_ + Unclaimed) % NUM_SLOTS) + 1) % NUM_SLOTS
           = ((next_read_slot_ + Unclaimed) + 1) % NUM_SLOTS
    <3>1. next_read_slot_ + Unclaimed \in Int
      BY <2>1
    <3> QED
      BY <3>1, BoundAssumption, RemainderOfSum
  <2>4. (next_read_slot_ + Unclaimed) + 1 = next_read_slot_ + Unclaimed'
    BY <1>0, <1>1, <2>1
  <2>5. next_write_slot_' = (next_read_slot_' + Unclaimed') % NUM_SLOTS
    BY <1>0, <2>1, <2>2, <2>3, <2>4
  <2> QED
    BY <1>0, <2>5 DEF AgreeInv
<1> QED
  BY <1>0, <1>1, AgreeStays

LEMMA ReaderAgree ==
  ASSUME IndInv, AgreeInv, NEW t \in Readers, ReaderThread(t)
  PROVE  AgreeInv'
<1>0. /\ reader = "run" /\ UNCHANGED <<writer, reader, kills, next_write_slot_>>
      /\ ReadClaim(t) => Unclaimed' = Unclaimed - 1 /\ Unclaimed \in Nat \ {0}
      /\ ~ReadClaim(t) => Unclaimed' = Unclaimed /\ next_read_slot_' = next_read_slot_
  BY ReaderUnclaimed
<1>1. CASE ReadClaim(t)
  <2> SUFFICES ASSUME kills = 0
               PROVE  AgreeInv'
    BY <1>0 DEF AgreeInv
  <2>1. /\ next_read_slot_ \in Nat
        /\ next_read_slot_' = Following(next_read_slot_)
    BY <1>1 DEF ReadClaim, IndInv, TypeOK, Slots
  <2>2. \A k \in Nat: (next_read_slot_' + k) % NUM_SLOTS = (next_read_slot_ + (k + 1)) % NUM_SLOTS
    BY <2>1, SlotsAfterClaim
  <2>3. Unclaimed' \in Nat /\ Unclaimed' + 1 = Unclaimed
    BY <1>0, <1>1
  <2>4. next_write_slot_' = (next_read_slot_' + Unclaimed') % NUM_SLOTS
    BY <1>0, <2>2, <2>3 DEF AgreeInv
  <2>5. writer = "run"
    BY <1>0, <1>1 DEF AgreeInv
  <2> QED
    BY <1>0, <2>4, <2>5 DEF AgreeInv
<1> QED
  BY <1>0, <1>1, AgreeStays

\* Steps of a constructor: nothing is claimed or taken before the process runs.
LEMMA StartUnclaimed ==
  ASSUME IndInv, \/ WriterShmOpen \/ WriterStarts \/ ReaderShmOpen \/ ReaderStarts
  PROVE  /\ Unclaimed' = Unclaimed /\ kills' = kills
         /\ writer = "run" => writer' = "run" /\ next_write_slot_' = next_write_slot_
         /\ reader = "run" => reader' = "run" /\ next_read_slot_' = next_read_slot_
         /\ next_write_slot_' \in {0, next_write_slot_}
         /\ next_read_slot_' \in {0, next_read_slot_}
         /\ unread' = unread \/ (writer # "run" /\ unread' = {})
         /\ \A t \in Threads: /\ pc'[t] = pc[t] \/ (pc[t] = "off" /\ pc'[t] = "wait")
                              /\ slot'[t] = slot[t]
<1> DEFINE Rest == \/ WriterShmOpen \/ WriterSemWrite \/ WriterSemRead
                   \/ ReaderShmOpen \/ ReaderSemWrite \/ ReaderExits
           Counting == /\ writer = "run" => writer' = "run" /\ next_write_slot_' = next_write_slot_
                       /\ reader = "run" => reader' = "run" /\ next_read_slot_' = next_read_slot_
                       /\ next_write_slot_' \in {0, next_write_slot_}
                       /\ next_read_slot_' \in {0, next_read_slot_}
                       /\ unread' = unread \/ (writer # "run" /\ unread' = {})
           Places == \A t \in Threads: /\ pc'[t] = pc[t] \/ (pc[t] = "off" /\ pc'[t] = "wait")
                                       /\ slot'[t] = slot[t]
<1>0. TypeOK /\ Running /\ (WriterRun \/ ReaderRun \/ WriterFtruncate \/ Rest)
  BY DEF IndInv, WriterStarts, ReaderStarts
<1>1. CASE WriterRun
  <2>1. writer = "sem_read"
    BY <1>1 DEF WriterRun
  <2>2. Places
    <3> SUFFICES ASSUME NEW t \in Threads
                 PROVE  /\ pc'[t] = pc[t] \/ (pc[t] = "off" /\ pc'[t] = "wait")
                        /\ slot'[t] = slot[t]
      OBVIOUS
    <3>1. t \in Writers => pc[t] = "off"
      BY <1>0, <2>1 DEF Running
    <3> QED
      BY <1>1, <3>1 DEF WriterRun
  <2>3. Counting /\ kills' = kills /\ SemRead' = SemRead
    BY <1>1, <2>1 DEF WriterRun, SemRead
  <2> QED
    BY <1>0, <2>2, <2>3, UnclaimedStays DEF Threads
<1>2. CASE ReaderRun
  <2>1. reader = "sem_write"
    BY <1>2 DEF ReaderRun
  <2>2. Places
    <3> SUFFICES ASSUME NEW t \in Threads
                 PROVE  /\ pc'[t] = pc[t] \/ (pc[t] = "off" /\ pc'[t] = "wait")
                        /\ slot'[t] = slot[t]
      OBVIOUS
    <3>1. t \in Readers => pc[t] = "off"
      BY <1>0, <2>1 DEF Running
    <3> QED
      BY <1>2, <3>1 DEF ReaderRun
  <2>3. Counting /\ kills' = kills /\ SemRead' = SemRead
    BY <1>2, <2>1 DEF ReaderRun, SemRead, system
  <2> QED
    BY <1>0, <2>2, <2>3, UnclaimedStays DEF Threads
<1>3. CASE WriterFtruncate
  <2>1. Counting /\ Places /\ kills' = kills /\ SemRead' = SemRead
    BY <1>3 DEF WriterFtruncate, SemRead, counters, threads
  <2> QED
    BY <1>0, <2>1, UnclaimedStays DEF Threads
<1>4. CASE Rest
  <2>1. UNCHANGED <<unread, counters, threads, kills>> /\ SemRead' = SemRead
    BY <1>4, AbsentAssumption
       DEF WriterShmOpen, WriterSemWrite, WriterSemRead, ReaderShmOpen, ReaderSemWrite,
           ReaderExits, SemRead, system
  <2>2. (writer = "run" => writer' = "run") /\ (reader = "run" => reader' = "run")
    BY <1>4 DEF WriterShmOpen, WriterSemWrite, WriterSemRead, ReaderShmOpen, ReaderSemWrite,
                ReaderExits
  <2>3. Counting /\ Places /\ kills' = kills
    BY <2>1, <2>2 DEF counters, threads
  <2> QED
    BY <1>0, <2>1, <2>3, UnclaimedStays DEF Threads
<1> QED
  BY <1>0, <1>1, <1>2, <1>3, <1>4

LEMMA StartAgree ==
  ASSUME IndInv, AgreeInv,
         \/ WriterShmOpen \/ WriterStarts \/ ReaderShmOpen \/ ReaderStarts
  PROVE  AgreeInv'
<1>1. /\ Unclaimed' = Unclaimed /\ kills' = kills
      /\ writer = "run" => writer' = "run" /\ next_write_slot_' = next_write_slot_
      /\ reader = "run" => reader' = "run" /\ next_read_slot_' = next_read_slot_
      /\ next_write_slot_' \in {0, next_write_slot_}
      /\ next_read_slot_' \in {0, next_read_slot_}
  BY StartUnclaimed
<1>2. kills = 0 => /\ next_write_slot_' = next_write_slot_
                   /\ next_read_slot_' = next_read_slot_
  BY <1>1 DEF AgreeInv
<1> QED
  BY <1>1, <1>2 DEF AgreeInv

LEMMA InitAgree == Init => AgreeInv
<1> SUFFICES ASSUME Init
             PROVE  AgreeInv
  OBVIOUS
<1>1. At(Writers, {"store", "post"}) = {} /\ At(Readers, {"claim"}) = {}
  BY DEF Init, At, Threads
<1>2. Unclaimed = 0
  BY <1>1, FS_EmptySet DEF Init, Unclaimed, Takeable
<1>3. 0 % NUM_SLOTS = 0
  <2>1. NUM_SLOTS * 0 + 0 = 0 /\ 0 \in 0 .. NUM_SLOTS - 1
    BY BoundAssumption
  <2> QED
    BY <2>1, BoundAssumption, RemainderIsUnique
<1> QED
  BY <1>2, <1>3 DEF Init, AgreeInv

\* A kill ends what is said of the counters.
LEMMA StepAgree == IndInv /\ AgreeInv /\ [Next]_vars => AgreeInv'
<1> SUFFICES ASSUME IndInv, AgreeInv, [Next]_vars
             PROVE  AgreeInv'
  OBVIOUS
<1>1. CASE KillWriter \/ KillReader
  BY <1>1 DEF KillWriter, KillReader, KillThreads, IndInv, TypeOK, AgreeInv
<1>2. CASE UNCHANGED vars
  BY <1>2 DEF vars, system, counters, threads, AgreeInv, Unclaimed, Takeable, At
<1> QED
  BY <1>1, <1>2, StartAgree, WriterAgree, ReaderAgree, Zenon DEF Next

-----------------------------------------------------------------------------
(* The slots until the first kill, with one reader.                        *)

\* The k-th unclaimed slot is unread, or about to be stored into.
Covered(k) == LET s == (next_read_slot_ + k) % NUM_SLOTS
              IN  s \in unread \/ \E t \in Writers: pc[t] = "store" /\ slot[t] = s

LEMMA WriterFound ==
  ASSUME IndInv, AgreeInv, FoundInv, NEW t \in Writers, WriterThread(t)
  PROVE  FoundInv'
<1>0. /\ UNCHANGED <<kills, next_read_slot_>>
      /\ WriteClaim(t) => Unclaimed' = Unclaimed + 1
      /\ ~WriteClaim(t) => Unclaimed' = Unclaimed
  BY WriterUnclaimed
<1>1. /\ TypeOK /\ Unclaimed \in Nat
      /\ \A u \in Threads \ {t}: pc'[u] = pc[u] /\ slot'[u] = slot[u]
  BY UnclaimedIsSum
     DEF IndInv, TypeOK, Threads, WriterThread, WriteWait, WriteClaim, WriteStore, WritePost, Goto
<1> SUFFICES ASSUME kills = 0
             PROVE  FoundInv'
  BY <1>0 DEF FoundInv
<1>2. \A u \in Readers: pc'[u] = "load" => Following(slot'[u]) = next_read_slot_'
  BY <1>0, <1>1, ThreadsAssumption DEF FoundInv, Threads
<1>3. ASSUME NEW k \in 0 .. Unclaimed - 1
      PROVE  Covered(k)'
  <2>1. Covered(k)
    BY <1>3 DEF FoundInv, Covered
  <2>2. unread \subseteq unread'
    BY DEF WriterThread, WriteWait, WriteClaim, WriteStore, WritePost, system
  <2>3. pc[t] = "store" => slot[t] \in unread'
    BY DEF WriterThread, WriteWait, WriteClaim, WriteStore, WritePost, Goto
  <2> QED
    BY <1>0, <1>1, <2>1, <2>2, <2>3 DEF Covered, Threads
<1>4. ASSUME WriteClaim(t), NEW k, k = Unclaimed
      PROVE  Covered(k)'
  <2>1. pc'[t] = "store" /\ slot'[t] = next_write_slot_
    BY <1>1, <1>4 DEF WriteClaim, Goto, TypeOK, Threads
  <2>2. next_write_slot_ = (next_read_slot_ + k) % NUM_SLOTS
    BY <1>4 DEF AgreeInv
  <2> QED
    BY <1>0, <2>1, <2>2 DEF Covered
<1>5. ASSUME NEW k \in 0 .. Unclaimed' - 1
      PROVE  Covered(k)'
  <2>1. CASE WriteClaim(t)
    <3>1. Unclaimed' = Unclaimed + 1
      BY <1>0, <2>1
    <3>2. k \in 0 .. Unclaimed - 1 \/ k = Unclaimed
      BY <1>1, <3>1
    <3> QED
      BY <1>3, <1>4, <2>1, <3>2
  <2>2. CASE ~WriteClaim(t)
    <3>1. Unclaimed' = Unclaimed
      BY <1>0, <2>2
    <3> QED
      BY <1>3, <3>1
  <2> QED
    BY <2>1, <2>2
<1> QED
  BY <1>2, <1>5 DEF FoundInv, Covered

\* While the one reader loads, its token leaves at most NUM_SLOTS - 1 to others.
LEMMA LoadingLeavesOne ==
  ASSUME IndInv, TokensBounded, NEW r, Readers = {r}, pc[r] = "load"
  PROVE  Unclaimed <= NUM_SLOTS - 1
<1>1. /\ Total = SemWrite + SemRead + InFlight(Writers) + InFlight(Readers)
      /\ SemWrite \in Nat /\ SemRead \in Nat
      /\ InFlight(Writers) \in Nat /\ InFlight(Readers) \in Nat
      /\ Unclaimed = SemRead + Claiming + Storing
      /\ Storing \in Nat /\ Claiming \in Nat
  BY TotalIsSum, UnclaimedIsSum DEF IndInv
<1>2. Claiming = 0
  <2>1. At(Readers, {"claim"}) = {}
    BY DEF At
  <2> QED
    BY <2>1, FS_EmptySet DEF Claiming
<1>3. InFlight(Readers) # 0
  <2>1. r \in At(Readers, Flying) /\ IsFiniteSet(At(Readers, Flying))
    BY CountIsNat DEF At, Flying
  <2> QED
    BY <2>1, FS_EmptySet DEF InFlight, Flying
<1>4. Storing <= InFlight(Writers)
  <2>1. /\ At(Writers, {"store", "post"}) \subseteq At(Writers, Flying)
        /\ IsFiniteSet(At(Writers, Flying))
    BY CountIsNat DEF At, Flying
  <2>2. Cardinality(At(Writers, {"store", "post"})) <= Cardinality(At(Writers, Flying))
    BY <2>1, FS_Subset
  <2> QED
    BY <2>2 DEF Storing, InFlight, Flying
<1> QED
  BY <1>1, <1>2, <1>3, <1>4, BoundAssumption DEF TokensBounded

\* The slot before the counter is none of those that are counted from it.
LEMMA SlotBefore ==
  ASSUME NEW n \in Slots, NEW k \in 0 .. NUM_SLOTS - 2
  PROVE  (Following(n) + k) % NUM_SLOTS # n
<1>1. n \in Nat /\ n \in 0 .. NUM_SLOTS - 1 /\ k \in Nat /\ NUM_SLOTS \in Nat \ {0}
  BY BoundAssumption DEF Slots
<1>2. (Following(n) + k) % NUM_SLOTS = (n + (k + 1)) % NUM_SLOTS
  BY <1>1, SlotsAfterClaim
<1>3. (n + (k + 1)) % NUM_SLOTS # n % NUM_SLOTS
  <2>1. n + (k + 1) \in Nat /\ n < n + (k + 1) /\ (n + (k + 1)) - n < NUM_SLOTS
    BY <1>1
  <2> QED
    BY <1>1, <2>1, DistinctSlots
<1>4. n % NUM_SLOTS = n
  <2>1. (NUM_SLOTS * 0 + n) % NUM_SLOTS = n
    BY <1>1, RemainderIsUnique
  <2>2. NUM_SLOTS * 0 + n = n
    BY <1>1
  <2> QED
    BY <2>1, <2>2
<1> QED
  BY <1>2, <1>3, <1>4

LEMMA ReaderFound ==
  ASSUME IndInv, FoundInv, TokensBounded, NEW t, Readers = {t}, ReaderThread(t)
  PROVE  FoundInv'
<1>0. /\ t \in Readers /\ UNCHANGED <<kills, next_write_slot_>>
      /\ ReadClaim(t) => Unclaimed' = Unclaimed - 1 /\ Unclaimed \in Nat \ {0}
      /\ ~ReadClaim(t) => Unclaimed' = Unclaimed /\ next_read_slot_' = next_read_slot_
      /\ \A u \in Writers: u # t /\ pc'[u] = pc[u] /\ slot'[u] = slot[u]
  BY ReaderUnclaimed
<1>1. /\ TypeOK /\ Unclaimed \in Nat /\ next_read_slot_ \in Nat /\ t \in Threads
  BY <1>0, UnclaimedIsSum DEF IndInv, TypeOK, Threads, Slots
<1> SUFFICES ASSUME kills = 0
             PROVE  FoundInv'
  BY <1>0 DEF FoundInv
<1>2. CASE ReadWait(t) \/ ReadPost(t)
  <2>1. unread' = unread /\ pc'[t] # "load" /\ ~ReadClaim(t)
    BY <1>1, <1>2 DEF ReadWait, ReadPost, ReadClaim, Goto, TypeOK
  <2> QED
    BY <1>0, <2>1 DEF FoundInv
<1>3. CASE ReadClaim(t)
  <2>1. /\ unread' = unread /\ slot'[t] = next_read_slot_
        /\ next_read_slot_' = Following(next_read_slot_)
    BY <1>1, <1>3 DEF ReadClaim, TypeOK, system
  <2>2. ASSUME NEW k \in 0 .. Unclaimed' - 1
        PROVE  Covered(k)'
    <3>1. k + 1 \in 0 .. Unclaimed - 1 /\ k \in Nat
      BY <1>0, <1>3
    <3>2. Covered(k + 1)
      BY <3>1 DEF FoundInv, Covered
    <3>3. (next_read_slot_' + k) % NUM_SLOTS = (next_read_slot_ + (k + 1)) % NUM_SLOTS
      BY <1>1, <2>1, <3>1, SlotsAfterClaim
    <3> QED
      BY <1>0, <2>1, <3>2, <3>3 DEF Covered
  <2>3. Following(slot[t])' = next_read_slot_'
    BY <2>1 DEF Following
  <2> QED
    BY <2>2, <2>3 DEF FoundInv, Covered
<1>4. CASE ReadLoad(t)
  <2>1. /\ unread' = unread \ {slot[t]} /\ pc[t] = "load" /\ pc'[t] # "load" /\ ~ReadClaim(t)
    BY <1>1, <1>4 DEF ReadLoad, ReadClaim, Goto, TypeOK
  <2>2. slot[t] \in Slots /\ Following(slot[t]) = next_read_slot_
    BY <1>0, <1>1, <2>1 DEF FoundInv, TypeOK
  <2>3. Unclaimed <= NUM_SLOTS - 1
    BY <2>1, LoadingLeavesOne
  <2>4. ASSUME NEW k \in 0 .. Unclaimed' - 1
        PROVE  Covered(k)'
    <3>1. k \in 0 .. Unclaimed - 1 /\ k \in 0 .. NUM_SLOTS - 2
      BY <1>0, <1>1, <2>1, <2>3, BoundAssumption
    <3>2. (next_read_slot_ + k) % NUM_SLOTS # slot[t]
      BY <2>2, <3>1, SlotBefore
    <3>3. Covered(k)
      BY <3>1 DEF FoundInv, Covered
    <3> QED
      BY <1>0, <2>1, <3>2, <3>3 DEF Covered
  <2> QED
    BY <2>1, <2>4 DEF FoundInv, Covered
<1> QED
  BY <1>2, <1>3, <1>4 DEF ReaderThread

LEMMA StartFound ==
  ASSUME IndInv, AgreeInv, FoundInv,
         \/ WriterShmOpen \/ WriterStarts \/ ReaderShmOpen \/ ReaderStarts
  PROVE  FoundInv'
<1>1. /\ Unclaimed' = Unclaimed /\ kills' = kills
      /\ next_read_slot_' \in {0, next_read_slot_}
      /\ reader = "run" => next_read_slot_' = next_read_slot_
      /\ unread' = unread \/ (writer # "run" /\ unread' = {})
      /\ \A t \in Threads: /\ pc'[t] = pc[t] \/ (pc[t] = "off" /\ pc'[t] = "wait")
                           /\ slot'[t] = slot[t]
  BY StartUnclaimed
<1> SUFFICES ASSUME kills = 0
             PROVE  FoundInv'
  BY <1>1 DEF FoundInv
<1>2. next_read_slot_' = next_read_slot_
  BY <1>1 DEF AgreeInv
<1>3. unread' = unread \/ Unclaimed = 0
  BY <1>1 DEF AgreeInv
<1> QED
  BY <1>1, <1>2, <1>3 DEF FoundInv, Threads, Following

LEMMA InitFound == Init => FoundInv
<1> SUFFICES ASSUME Init
             PROVE  FoundInv
  OBVIOUS
<1>1. Unclaimed = 0
  BY InitAgree DEF AgreeInv, Init
<1> QED
  BY <1>1 DEF Init, FoundInv, Threads

LEMMA StepFound ==
  ASSUME NEW r, Readers = {r}
  PROVE  IndInv /\ AgreeInv /\ FoundInv /\ TokensBounded /\ [Next]_vars => FoundInv'
<1> SUFFICES ASSUME IndInv, AgreeInv, FoundInv, TokensBounded, [Next]_vars
             PROVE  FoundInv'
  OBVIOUS
<1>1. CASE KillWriter \/ KillReader
  BY <1>1 DEF KillWriter, KillReader, KillThreads, IndInv, TypeOK, FoundInv
<1>2. CASE UNCHANGED vars
  BY <1>2 DEF vars, system, counters, threads, FoundInv, Unclaimed, Takeable, At
<1>3. ASSUME NEW t \in Readers, ReaderThread(t)
      PROVE  FoundInv'
  BY <1>3, ReaderFound
<1> QED
  BY <1>1, <1>2, <1>3, StartFound, WriterFound, Zenon DEF Next

-----------------------------------------------------------------------------

\* Every variable keeps its type through every kill and restart.
THEOREM TypeCorrect == Spec => []TypeOK
<1>1. IndInv => TypeOK
  BY DEF IndInv
<1> QED
  BY <1>1, InitIndInv, StepIndInv, PTL DEF Spec

\* A reader process past its constructor has mapped memory that has its size,
\* wherever the writer process was killed in its own constructor.
THEOREM ReaderMapsItsMemory == Spec => []ReaderMapsMemory
<1>1. IndInv => ReaderMapsMemory
  BY DEF IndInv, Created, ReaderMapsMemory
<1> QED
  BY <1>1, InitIndInv, StepIndInv, PTL DEF Spec

\* Nothing makes a token, and only a kill loses tokens: exactly those of the
\* threads it stops between their sem_wait and their sem_post.
THEOREM OnlyKillsLoseTokens == Spec => TokensKept
<1>1. IndInv /\ [Next]_vars => Kept
  BY StepKeeps
<1>2. Kept => [\/ Total' = Total
               \/ KillWriter /\ Total' = Total - InFlight(Writers)
               \/ KillReader /\ Total' = Total - InFlight(Readers)]_vars
  BY DEF Kept
<1> QED
  BY <1>1, <1>2, InitIndInv, StepIndInv, PTL DEF Spec, TokensKept

\* No history of kills and restarts lets more threads in than there are slots.
THEOREM TokensStayBounded == Spec => []TokensBounded
<1> DEFINE Inv == IndInv /\ TokensBounded
<1>1. Init => Inv
  <2> SUFFICES ASSUME Init
               PROVE  TokensBounded
    BY InitIndInv
  <2>1. \A t \in Threads: pc[t] = "off"
    BY DEF Init
  <2>2. InFlight(Writers) = 0 /\ InFlight(Readers) = 0
    BY <2>1, NoneInFlight DEF Threads
  <2> QED
    BY <2>2, BoundAssumption DEF Init, TokensBounded, Total
<1>2. Inv /\ [Next]_vars => Inv'
  <2> SUFFICES ASSUME Inv, [Next]_vars
               PROVE  TokensBounded'
    BY StepIndInv
  <2>1. Kept
    BY StepKeeps
  <2>2. Total \in Nat /\ InFlight(Writers) \in Nat /\ InFlight(Readers) \in Nat
    BY TotalIsSum DEF IndInv
  <2> QED
    BY <2>1, <2>2, BoundAssumption DEF Kept, TokensBounded
<1> QED
  BY <1>1, <1>2, PTL DEF Spec

\* Until the first kill the slots the two processes count to are apart by what is
\* unclaimed, for any numbers of threads, although no counter is shared.
THEOREM CountersAgree == Spec => []InStep
<1>1. AgreeInv => InStep
  BY DEF AgreeInv, InStep
<1> QED
  BY <1>1, InitIndInv, StepIndInv, InitAgree, StepAgree, PTL DEF Spec

\* With one reader, as the program has: until the first kill, while no writer is
\* inside Write, the reader's counter is where the unread values lie.
THEOREM ReaderFindsUnread ==
  ASSUME NEW r, Readers = {r}
  PROVE  Spec => []UnreadIsFound
<1>1. IndInv /\ FoundInv => UnreadIsFound
  <2> SUFFICES ASSUME IndInv, FoundInv, kills = 0, InFlight(Writers) = 0,
                      NEW k \in 0 .. Takeable - 1
               PROVE  (next_read_slot_ + k) % NUM_SLOTS \in unread
    BY DEF UnreadIsFound
  <2>1. At(Writers, Flying) = {}
    <3>1. IsFiniteSet(At(Writers, Flying)) /\ Cardinality(At(Writers, Flying)) = 0
      BY CountIsNat DEF InFlight, Flying
    <3> QED
      BY <3>1, FS_EmptySet
  <2>2. \A t \in Writers: pc[t] # "store"
    BY <2>1 DEF At, Flying
  <2>3. k \in 0 .. Unclaimed - 1
    <3>1. Unclaimed = Takeable + Storing /\ Storing \in Nat /\ Takeable \in Nat
      BY UnclaimedIsSum, CountIsNat, TotalIsSum
         DEF IndInv, Unclaimed, Takeable, Storing, Claiming, SemRead
    <3> QED
      BY <3>1
  <2> QED
    BY <2>2, <2>3 DEF FoundInv
<1>2. IndInv /\ AgreeInv /\ FoundInv /\ TokensBounded /\ [Next]_vars => FoundInv'
  BY StepFound
<1> QED
  BY <1>1, <1>2, InitIndInv, StepIndInv, InitAgree, StepAgree, InitFound, TokensStayBounded, PTL
     DEF Spec
=============================================================================
