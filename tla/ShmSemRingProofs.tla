-------------------------- MODULE ShmSemRingProofs --------------------------
(***************************************************************************)
(* Theorems about ShmSemRing, for any writers, slots, calls, starts and    *)
(* kills.                                                                  *)
(***************************************************************************)
EXTENDS ShmSemRing, RingLemmas

Flying == {"claim", "post"}

Points == {"off", "wait", "asleep", "forgotten", "claim", "post", "end"}

-----------------------------------------------------------------------------
(* How many threads of a process are at some points, and how that changes. *)

LEMMA CountIsNat ==
  ASSUME NEW S \in {Writers, {Reader}}, NEW P
  PROVE  /\ IsFiniteSet(At(S, P)) /\ IsFiniteSet(At(S, P)')
         /\ Cardinality(At(S, P)) \in Nat /\ Cardinality(At(S, P))' \in Nat
<1>1. IsFiniteSet(S)
  <2>1. IsFiniteSet(Writers) /\ IsFiniteSet({Reader})
    BY ThreadsAssumption, FS_Singleton, Zenon
  <2> QED
    BY <2>1
<1>2. IsFiniteSet(At(S, P)) /\ IsFiniteSet(At(S, P)')
  BY <1>1, FS_Subset DEF At
<1> QED
  BY <1>2, FS_CardinalityType

\* Threads that stay at the points, or away from them, leave their number as it is.
LEMMA CountStill ==
  ASSUME NEW S \in {Writers, {Reader}}, NEW P,
         \A t \in S: pc'[t] \in P <=> pc[t] \in P
  PROVE  Cardinality(At(S, P))' = Cardinality(At(S, P))
<1>1. At(S, P)' = At(S, P)
  BY DEF At
<1> QED
  BY <1>1

\* A thread that moves comes to the points or leaves them alone.
LEMMA CountMoves ==
  ASSUME TypeOK, NEW S \in {Writers, {Reader}}, NEW P, NEW t \in S,
         NEW from, NEW to, Goto(t, from, to)
  PROVE  Cardinality(At(S, P))' = Cardinality(At(S, P)) - One(from \in P) + One(to \in P)
<1> DEFINE C == At(S, P)
           D == At(S, P)'
<1>1. /\ pc \in [Threads -> Points]
      /\ pc[t] = from /\ pc' = [pc EXCEPT ![t] = to]
      /\ S \subseteq Threads
  BY DEF TypeOK, Goto, Threads, Points
<1>2. IsFiniteSet(C) /\ IsFiniteSet(D)
  BY CountIsNat
<1>3. D \ {t} = C \ {t}
  BY <1>1 DEF At
<1>4. /\ t \in C <=> from \in P
      /\ t \in D <=> to \in P
  BY <1>1 DEF At
<1>5. Cardinality(At(S, P)) = Cardinality(C) /\ Cardinality(At(S, P))' = Cardinality(D)
  OBVIOUS
<1> HIDE DEF C, D
<1>6. Cardinality(D) = Cardinality(C) - One(t \in C) + One(t \in D)
  BY <1>2, <1>3, CardinalityMove
<1>7. One(t \in C) = One(from \in P) /\ One(t \in D) = One(to \in P)
  BY <1>4 DEF One
<1> QED
  BY <1>5, <1>6, <1>7

LEMMA InFlightIsNat ==
  ASSUME NEW S \in {Writers, {Reader}}
  PROVE  InFlight(S) \in Nat /\ InFlight(S)' \in Nat
BY CountIsNat DEF InFlight

LEMMA InFlightStill ==
  ASSUME NEW S \in {Writers, {Reader}},
         \A t \in S: pc'[t] \in Flying <=> pc[t] \in Flying
  PROVE  InFlight(S)' = InFlight(S)
BY CountStill DEF InFlight, Flying

LEMMA NoneInFlight ==
  ASSUME NEW S \in {Writers, {Reader}}, \A t \in S: pc'[t] \notin Flying
  PROVE  InFlight(S)' = 0
<1>1. At(S, Flying)' = {}
  BY DEF At
<1> QED
  BY <1>1, FS_EmptySet DEF InFlight, Flying

LEMMA InFlightMoves ==
  ASSUME TypeOK, NEW S \in {Writers, {Reader}}, NEW t \in S,
         NEW from, NEW to, Goto(t, from, to)
  PROVE  InFlight(S)' = InFlight(S) - One(from \in Flying) + One(to \in Flying)
<1>1. /\ InFlight(S) = Cardinality(At(S, Flying))
      /\ InFlight(S)' = Cardinality(At(S, Flying))'
  BY DEF InFlight, Flying
<1> QED
  BY <1>1, CountMoves

LEMMA WriterMoves ==
  ASSUME TypeOK, NEW t \in Writers, NEW from, NEW to, Goto(t, from, to)
  PROVE  /\ InFlight(Writers)' = InFlight(Writers) - One(from \in Flying) + One(to \in Flying)
         /\ InFlight({Reader})' = InFlight({Reader})
<1>1. pc'[Reader] = pc[Reader]
  BY ThreadsAssumption DEF Goto, TypeOK, Threads
<1> QED
  BY <1>1, InFlightMoves, InFlightStill

LEMMA ReaderMoves ==
  ASSUME TypeOK, NEW from, NEW to, Goto(Reader, from, to)
  PROVE  /\ InFlight({Reader})' = InFlight({Reader}) - One(from \in Flying) + One(to \in Flying)
         /\ InFlight(Writers)' = InFlight(Writers)
<1>1. \A u \in Writers: pc'[u] = pc[u]
  BY ThreadsAssumption DEF Goto, TypeOK, Threads
<1> QED
  BY <1>1, InFlightMoves, InFlightStill

-----------------------------------------------------------------------------
(* Types, and who is where.                                                *)

\* A process has threads only while it runs, and a writer inside Write has a
\* call left.
Running == /\ writer # "run" => \A t \in Writers: pc[t] = "off"
           /\ reader = "off" => pc[Reader] = "off"
           /\ \A t \in Writers: pc[t] \in {"wait", "claim", "post"} => i[t] < Calls

Shape == TypeOK /\ Running

LEMMA InitShape == Init => Shape
BY ThreadsAssumption, BoundAssumption DEF Init, Shape, TypeOK, Running, Slots, Threads

LEMMA SlotFollows ==
  ASSUME NEW n \in Slots
  PROVE  Following(n) \in Slots
BY BoundAssumption, RemainderInRange DEF Slots, Following

LEMMA WriterShape ==
  ASSUME Shape, NEW t \in Writers, WriterThread(t)
  PROVE  Shape'
<1> USE ThreadsAssumption, BoundAssumption, SlotFollows
    DEF Shape, TypeOK, Running, Threads, Goto, semaphores, counters
<1>1. CASE WriteWait(t)
  BY <1>1 DEF WriteWait
<1>2. CASE WriteClaim(t)
  BY <1>2 DEF WriteClaim
<1>3. CASE WritePost(t)
  BY <1>3 DEF WritePost
<1> QED
  BY <1>1, <1>2, <1>3 DEF WriterThread

LEMMA ReaderShape ==
  ASSUME Shape, ReaderThread
  PROVE  Shape'
<1> USE ThreadsAssumption, BoundAssumption, SlotFollows
    DEF Shape, TypeOK, Running, Threads, Goto, semaphores, counters
<1>1. CASE ReadTake
  BY <1>1 DEF ReadTake
<1>2. CASE ReadSleep
  BY <1>2 DEF ReadSleep
<1>3. CASE ReadFault
  BY <1>3 DEF ReadFault
<1>4. CASE ReadClaim
  BY <1>4 DEF ReadClaim
<1>5. CASE ReadPost
  BY <1>5 DEF ReadPost
<1> QED
  BY <1>1, <1>2, <1>3, <1>4, <1>5 DEF ReaderThread

Starts == WriterShmOpen \/ WriterProcess \/ ReaderShmOpen

LEMMA StartShape ==
  ASSUME Shape, Starts
  PROVE  Shape'
<1> USE ThreadsAssumption, BoundAssumption
    DEF Shape, TypeOK, Running, Threads, Slots, Off, semaphores, counters
<1>1. CASE WriterShmOpen
  BY <1>1 DEF WriterShmOpen
<1>2. CASE WriterFtruncate
  BY <1>2 DEF WriterFtruncate
<1>3. CASE WriterSemWrite
  BY <1>3 DEF WriterSemWrite
<1>4. CASE WriterSemRead
  BY <1>4 DEF WriterSemRead, At
<1>5. CASE WriterExit
  BY <1>5 DEF WriterExit
<1>6. CASE ReaderShmOpen
  BY <1>6 DEF ReaderShmOpen
<1> QED
  BY <1>1, <1>2, <1>3, <1>4, <1>5, <1>6 DEF Starts, WriterProcess

LEMMA KillShape ==
  ASSUME Shape, KillWriter \/ KillReader
  PROVE  Shape'
<1> USE ThreadsAssumption, BoundAssumption
    DEF Shape, TypeOK, Running, Threads, Off, semaphores, counters
<1>1. CASE KillWriter
  BY <1>1 DEF KillWriter
<1>2. CASE KillReader
  BY <1>2 DEF KillReader
<1> QED
  BY <1>1, <1>2

LEMMA StepShape == Shape /\ [Next]_vars => Shape'
<1> SUFFICES ASSUME Shape, [Next]_vars
             PROVE  Shape'
  OBVIOUS
<1>1. CASE Starts
  BY <1>1, StartShape
<1>2. ASSUME NEW t \in Writers, WriterThread(t)
      PROVE  Shape'
  BY <1>2, WriterShape
<1>3. CASE ReaderThread
  BY <1>3, ReaderShape
<1>4. CASE KillWriter \/ KillReader
  BY <1>4, KillShape
<1>5. CASE UNCHANGED vars
  BY <1>5 DEF vars, semaphores, counters, Shape, TypeOK, Running
<1> QED
  BY <1>1, <1>2, <1>3, <1>4, <1>5, Zenon DEF Next, Starts

-----------------------------------------------------------------------------
(* How a step changes the number of tokens.                                *)

LEMMA TotalIsNat ==
  ASSUME TypeOK
  PROVE  /\ InFlight(Writers) \in Nat /\ InFlight({Reader}) \in Nat
         /\ InFlight(Writers)' \in Nat /\ InFlight({Reader})' \in Nat
         /\ Total \in Nat
BY InFlightIsNat DEF Total, TypeOK

\* A thread takes a token into its hands, keeps it, or puts it into a semaphore;
\* only a reader that faults would lose one, and it has none yet.
LEMMA WriterKeeps ==
  ASSUME TypeOK, NEW t \in Writers, WriterThread(t)
  PROVE  Total' = Total
<1> DEFINE from == pc[t]
           to == pc'[t]
<1>1. Goto(t, from, to)
  BY DEF WriterThread, WriteWait, WriteClaim, WritePost, Goto, TypeOK, Threads
<1>2. /\ InFlight(Writers)' = InFlight(Writers) - One(from \in Flying) + One(to \in Flying)
      /\ InFlight({Reader})' = InFlight({Reader})
  BY <1>1, WriterMoves
<1>3. /\ sem_write' + sem_read' = sem_write + sem_read + One(from \in Flying) - One(to \in Flying)
      /\ sem_write' \in Int /\ sem_read' \in Int
  BY DEF WriterThread, WriteWait, WriteClaim, WritePost, Goto, TypeOK, Threads, semaphores,
         Flying, One
<1>4. One(from \in Flying) \in Int /\ One(to \in Flying) \in Int
  BY DEF One
<1> HIDE DEF from, to
<1> QED
  BY <1>2, <1>3, <1>4, TotalIsNat DEF Total, TypeOK

LEMMA ReaderKeeps ==
  ASSUME TypeOK, ReaderThread
  PROVE  Total' = Total
<1> DEFINE from == pc[Reader]
           to == pc'[Reader]
<1>1. Goto(Reader, from, to)
  BY DEF ReaderThread, ReadTake, ReadSleep, ReadFault, ReadClaim, ReadPost, Goto, TypeOK, Threads
<1>2. /\ InFlight({Reader})' = InFlight({Reader}) - One(from \in Flying) + One(to \in Flying)
      /\ InFlight(Writers)' = InFlight(Writers)
  BY <1>1, ReaderMoves
<1>3. /\ sem_write' + sem_read' = sem_write + sem_read + One(from \in Flying) - One(to \in Flying)
      /\ sem_write' \in Int /\ sem_read' \in Int
  BY DEF ReaderThread, ReadTake, ReadSleep, ReadFault, ReadClaim, ReadPost, Goto, TypeOK, Threads,
         semaphores, Flying, One
<1>4. One(from \in Flying) \in Int /\ One(to \in Flying) \in Int
  BY DEF One
<1> HIDE DEF from, to
<1> QED
  BY <1>2, <1>3, <1>4, TotalIsNat DEF Total, TypeOK

-----------------------------------------------------------------------------
(* The bound.  A writer that is started has not yet made the tokens that   *)
(* its start is good for: until it initializes the first semaphore there   *)
(* are those of the earlier starts at most.                                *)

Spent == IF writer \in {"opened", "sized"} THEN starts - 1 ELSE starts

BoundInv == /\ writer # "off" => starts > 0
            /\ Total <= Spent * NUM_SLOTS

LEMMA Distributes ==
  ASSUME NEW m \in Int
  PROVE  /\ m * NUM_SLOTS \in Int
         /\ (m + 1) * NUM_SLOTS = m * NUM_SLOTS + NUM_SLOTS
BY BoundAssumption

\* Steps that make no token and leave the writer's constructor where it is.
LEMMA BoundStays ==
  ASSUME TypeOK, BoundInv, Total' <= Total, Total' \in Int, starts' = starts,
         Spent' = Spent, writer' # "off" => writer # "off"
  PROVE  BoundInv'
<1>1. Spent \in Int /\ Spent * NUM_SLOTS \in Int
  BY Distributes DEF Spent, TypeOK
<1>2. Total \in Nat
  BY TotalIsNat
<1> QED
  BY <1>1, <1>2 DEF BoundInv

LEMMA StartBound ==
  ASSUME Shape, BoundInv, Starts
  PROVE  BoundInv'
<1> USE DEF Shape
<1>1. CASE WriterShmOpen
  <2>1. Total' = Total
    <3>1. InFlight(Writers)' = InFlight(Writers) /\ InFlight({Reader})' = InFlight({Reader})
      BY <1>1, InFlightStill DEF WriterShmOpen
    <3> QED
      BY <1>1, <3>1 DEF WriterShmOpen, Total, semaphores
  <2>2. Spent = starts /\ Spent' = starts /\ starts' = starts + 1 /\ starts \in Nat
    BY <1>1 DEF WriterShmOpen, Spent, TypeOK
  <2> QED
    BY <2>1, <2>2 DEF BoundInv
<1>2. CASE WriterFtruncate
  <2>1. Total' = Total
    <3>1. InFlight(Writers)' = InFlight(Writers) /\ InFlight({Reader})' = InFlight({Reader})
      BY <1>2, InFlightStill DEF WriterFtruncate
    <3> QED
      BY <1>2, <3>1 DEF WriterFtruncate, Total, semaphores
  <2>2. Spent' = Spent /\ starts' = starts /\ writer # "off" /\ Total \in Nat
    BY <1>2, TotalIsNat DEF WriterFtruncate, Spent
  <2> QED
    BY <2>1, <2>2, BoundStays
<1>3. CASE WriterSemWrite
  <2>1. InFlight(Writers)' = InFlight(Writers) /\ InFlight({Reader})' = InFlight({Reader})
    BY <1>3, InFlightStill DEF WriterSemWrite
  <2>2. Total' = Total - sem_write + NUM_SLOTS /\ sem_write \in Nat
    BY <1>3, <2>1, TotalIsNat, BoundAssumption DEF WriterSemWrite, Total, TypeOK
  <2>3. Spent = starts - 1 /\ Spent' = starts /\ starts' = starts /\ starts > 0
    BY <1>3 DEF WriterSemWrite, Spent, BoundInv
  <2>4. starts * NUM_SLOTS = (starts - 1) * NUM_SLOTS + NUM_SLOTS /\ (starts - 1) * NUM_SLOTS \in Int
    <3>1. starts - 1 \in Int /\ starts = (starts - 1) + 1
      BY DEF TypeOK
    <3> QED
      BY <3>1, Distributes
  <2>5. Total \in Nat /\ Total <= (starts - 1) * NUM_SLOTS
    BY <2>3, TotalIsNat DEF BoundInv
  <2> QED
    BY <2>2, <2>3, <2>4, <2>5, BoundAssumption DEF BoundInv
<1>4. CASE WriterSemRead
  <2>1. /\ \A t \in Writers: pc[t] = "off" /\ pc'[t] = "wait"
        /\ \/ pc'[Reader] = pc[Reader]
           \/ pc[Reader] = "asleep" /\ pc'[Reader] = "forgotten"
    BY <1>4, ThreadsAssumption DEF WriterSemRead, Running, Threads, At
  <2>2. InFlight(Writers)' = InFlight(Writers) /\ InFlight({Reader})' = InFlight({Reader})
    BY <2>1, InFlightStill DEF Flying
  <2>3. Total' = Total - sem_read /\ sem_read \in Nat
    BY <1>4, <2>2, TotalIsNat DEF WriterSemRead, Total, TypeOK
  <2>4. Spent' = Spent /\ starts' = starts /\ writer # "off" /\ Total \in Nat
    BY <1>4, TotalIsNat DEF WriterSemRead, Spent
  <2> QED
    BY <2>3, <2>4, BoundStays
<1>5. CASE WriterExit
  <2>1. /\ \A t \in Writers: pc[t] = "end" /\ pc'[t] = "off"
        /\ pc'[Reader] = pc[Reader]
    BY <1>5, ThreadsAssumption DEF WriterExit, Off, At, Threads
  <2>2. InFlight(Writers)' = InFlight(Writers) /\ InFlight({Reader})' = InFlight({Reader})
    BY <2>1, InFlightStill DEF Flying
  <2>3. Total' = Total /\ Total \in Nat
    BY <1>5, <2>2, TotalIsNat DEF WriterExit, Total, semaphores
  <2>4. Spent' = Spent /\ starts' = starts /\ writer' = "off"
    BY <1>5 DEF WriterExit, Spent
  <2> QED
    BY <2>3, <2>4, BoundStays
<1>6. CASE ReaderShmOpen
  <2>1. /\ \A t \in Writers: pc'[t] = pc[t]
        /\ pc[Reader] = "off" /\ pc'[Reader] = "wait"
    BY <1>6, ThreadsAssumption DEF ReaderShmOpen, Running, TypeOK, Threads
  <2>2. InFlight(Writers)' = InFlight(Writers) /\ InFlight({Reader})' = InFlight({Reader})
    BY <2>1, InFlightStill DEF Flying
  <2>3. Total' = Total /\ Total \in Nat
    BY <1>6, <2>2, TotalIsNat DEF ReaderShmOpen, Total, semaphores
  <2>4. Spent' = Spent /\ starts' = starts /\ writer' = writer
    BY <1>6 DEF ReaderShmOpen, Spent
  <2> QED
    BY <2>3, <2>4, BoundStays
<1> QED
  BY <1>1, <1>2, <1>3, <1>4, <1>5, <1>6 DEF Starts, WriterProcess

LEMMA ThreadBound ==
  ASSUME Shape, BoundInv, ReaderThread \/ \E t \in Writers: WriterThread(t)
  PROVE  BoundInv'
<1>1. Total' = Total /\ Total \in Nat
  BY WriterKeeps, ReaderKeeps, TotalIsNat DEF Shape
<1>2. writer' = writer /\ starts' = starts
  BY DEF WriterThread, WriteWait, WriteClaim, WritePost, ReaderThread, ReadTake, ReadSleep,
         ReadFault, ReadClaim, ReadPost
<1>3. Spent' = Spent
  BY <1>2 DEF Spent
<1> QED
  BY <1>1, <1>2, <1>3, BoundStays DEF Shape

\* A kill takes tokens with it, and gives back nothing.
LEMMA KillBound ==
  ASSUME Shape, BoundInv, KillWriter \/ KillReader
  PROVE  BoundInv'
<1> USE DEF Shape
<1>1. CASE KillWriter
  <2>1. (\A t \in Writers: pc'[t] = "off") /\ pc'[Reader] = pc[Reader]
    BY <1>1, ThreadsAssumption DEF KillWriter, Off, Threads
  <2>2. InFlight(Writers)' = 0 /\ InFlight({Reader})' = InFlight({Reader})
    BY <2>1, NoneInFlight, InFlightStill DEF Flying
  <2>3. Total' = Total - InFlight(Writers) /\ Total \in Nat /\ InFlight(Writers) \in Nat
    BY <1>1, <2>2, TotalIsNat DEF KillWriter, Total, TypeOK, semaphores
  <2>4. Spent \in Int /\ starts \in Int /\ Spent <= starts
    BY DEF Spent, TypeOK
  <2>5. Spent * NUM_SLOTS <= starts * NUM_SLOTS
        /\ Spent * NUM_SLOTS \in Int /\ starts * NUM_SLOTS \in Int
    <3>1. Spent = starts \/ Spent = starts - 1
      BY DEF Spent
    <3>2. (starts - 1) * NUM_SLOTS \in Int
          /\ starts * NUM_SLOTS = (starts - 1) * NUM_SLOTS + NUM_SLOTS
      <4>1. starts - 1 \in Int /\ starts = (starts - 1) + 1
        BY <2>4
      <4> QED
        BY <4>1, Distributes
    <3> QED
      BY <3>1, <3>2, BoundAssumption
  <2>6. writer' = "off" /\ starts' = starts /\ Spent' = starts
    BY <1>1 DEF KillWriter, Spent
  <2> QED
    BY <2>3, <2>5, <2>6 DEF BoundInv
<1>2. CASE KillReader
  <2>1. (\A t \in Writers: pc'[t] = pc[t]) /\ pc'[Reader] = "off"
    BY <1>2, ThreadsAssumption DEF KillReader, Off, Threads
  <2>2. InFlight(Writers)' = InFlight(Writers) /\ InFlight({Reader})' = 0
    BY <2>1, NoneInFlight, InFlightStill DEF Flying
  <2>3. Total' = Total - InFlight({Reader}) /\ Total \in Nat /\ InFlight({Reader}) \in Nat
    BY <1>2, <2>2, TotalIsNat DEF KillReader, Total, TypeOK, semaphores
  <2>4. Spent' = Spent /\ starts' = starts /\ writer' = writer
    BY <1>2 DEF KillReader, Spent
  <2> QED
    BY <2>3, <2>4, BoundStays
<1> QED
  BY <1>1, <1>2

-----------------------------------------------------------------------------
(* The counters of the two processes in their first lives.                 *)

Posting == Cardinality(At(Writers, {"post"}))
Claiming == Cardinality(At({Reader}, {"claim"}))

LEMMA UnclaimedIsSum ==
  ASSUME TypeOK
  PROVE  /\ Unclaimed = sem_read + Posting + Claiming
         /\ Unclaimed' = sem_read' + Posting' + Claiming'
         /\ Posting \in Nat /\ Claiming \in Nat /\ Posting' \in Nat /\ Claiming' \in Nat
         /\ Unclaimed \in Nat
BY CountIsNat DEF Unclaimed, Posting, Claiming, TypeOK

\* What is unclaimed stays if nobody comes to these points or leaves them.
LEMMA UnclaimedStays ==
  ASSUME TypeOK, sem_read' = sem_read,
         \A t \in Writers: pc'[t] = "post" <=> pc[t] = "post",
         pc'[Reader] = "claim" <=> pc[Reader] = "claim"
  PROVE  Unclaimed' = Unclaimed
<1>1. Posting' = Posting
  BY CountStill DEF Posting
<1>2. Claiming' = Claiming
  BY CountStill DEF Claiming
<1> QED
  BY <1>1, <1>2, UnclaimedIsSum

LEMMA WriterClaims ==
  ASSUME TypeOK, NEW t \in Writers, NEW from, NEW to, Goto(t, from, to)
  PROVE  /\ Posting' = Posting - One(from = "post") + One(to = "post")
         /\ Claiming' = Claiming
<1>1. pc'[Reader] = pc[Reader]
  BY ThreadsAssumption DEF Goto, TypeOK, Threads
<1>2. Posting' = Posting - One(from \in {"post"}) + One(to \in {"post"})
  BY CountMoves DEF Posting
<1>3. Claiming' = Claiming
  BY <1>1, CountStill DEF Claiming
<1> QED
  BY <1>2, <1>3 DEF One

LEMMA ReaderClaims ==
  ASSUME TypeOK, NEW from, NEW to, Goto(Reader, from, to)
  PROVE  /\ Claiming' = Claiming - One(from = "claim") + One(to = "claim")
         /\ Posting' = Posting
<1>1. \A u \in Writers: pc'[u] = pc[u]
  BY ThreadsAssumption DEF Goto, TypeOK, Threads
<1>2. Claiming' = Claiming - One(from \in {"claim"}) + One(to \in {"claim"})
  BY CountMoves DEF Claiming
<1>3. Posting' = Posting
  BY <1>1, CountStill DEF Posting
<1> QED
  BY <1>2, <1>3 DEF One

LEMMA WriterStep ==
  ASSUME Shape, StepInv, FirstLife, NEW t \in Writers, WriterThread(t)
  PROVE  StepInv'
<1> USE DEF Shape
<1>1. /\ writer = "run" /\ writer' = writer /\ starts # 0 /\ starts' = starts
      /\ reader' = reader /\ object' = object /\ next_read_slot_' = next_read_slot_
  BY DEF WriterThread, WriteWait, WriteClaim, WritePost, Goto, Running, StepInv, counters,
         semaphores
<1>2. next_write_slot_' = (next_read_slot_' + Unclaimed') % NUM_SLOTS
  <2> USE UnclaimedIsSum
  <2>1. CASE WriteWait(t)
    <3>1. Posting' = Posting /\ Claiming' = Claiming
      BY <2>1, WriterClaims DEF WriteWait, One
    <3>2. sem_read' = sem_read /\ next_write_slot_' = next_write_slot_
      BY <2>1 DEF WriteWait, counters
    <3>3. Unclaimed' = Unclaimed
      BY <3>1, <3>2
    <3> QED
      BY <1>1, <3>2, <3>3 DEF StepInv
  <2>2. CASE WriteClaim(t)
    <3>1. Posting' = Posting + 1 /\ Claiming' = Claiming
      BY <2>2, WriterClaims DEF WriteClaim, One
    <3>2. sem_read' = sem_read /\ next_write_slot_' = (next_write_slot_ + 1) % NUM_SLOTS
      BY <2>2 DEF WriteClaim, semaphores, Following
    <3>3. Unclaimed' = Unclaimed + 1 /\ Unclaimed \in Nat
      BY <3>1, <3>2 DEF TypeOK
    <3>4. next_write_slot_ = (next_read_slot_ + Unclaimed) % NUM_SLOTS
      BY DEF StepInv
    <3>5. next_read_slot_ \in Nat
      BY DEF TypeOK, Slots
    <3>6. (((next_read_slot_ + Unclaimed) % NUM_SLOTS) + 1) % NUM_SLOTS
             = ((next_read_slot_ + Unclaimed) + 1) % NUM_SLOTS
      <4>1. next_read_slot_ + Unclaimed \in Int
        BY <3>3, <3>5
      <4> QED
        BY <4>1, BoundAssumption, RemainderOfSum
    <3>7. (next_read_slot_ + Unclaimed) + 1 = next_read_slot_ + Unclaimed'
      BY <3>3, <3>5
    <3> QED
      BY <1>1, <3>2, <3>4, <3>6, <3>7
  <2>3. CASE WritePost(t)
    <3>1. Posting' = Posting - 1 /\ Claiming' = Claiming
      BY <2>3, WriterClaims DEF WritePost, One
    <3>2. sem_read' = sem_read + 1 /\ next_write_slot_' = next_write_slot_
      BY <2>3 DEF WritePost, counters
    <3>3. Unclaimed' = Unclaimed
      BY <3>1, <3>2 DEF TypeOK
    <3> QED
      BY <1>1, <3>2, <3>3 DEF StepInv
  <2> QED
    BY <2>1, <2>2, <2>3 DEF WriterThread
<1> QED
  BY <1>1, <1>2 DEF StepInv

LEMMA ReaderStep ==
  ASSUME Shape, StepInv, FirstLife, ReaderThread
  PROVE  StepInv'
<1> USE UnclaimedIsSum DEF Shape
<1>0. /\ writer' = writer /\ starts' = starts /\ object' = object
      /\ next_write_slot_' = next_write_slot_ /\ reader = "run"
  BY DEF ReaderThread, ReadTake, ReadSleep, ReadFault, ReadClaim, ReadPost, Goto, Running,
         TypeOK, counters
<1>1. CASE ReadTake
  <2>1. Claiming' = Claiming + 1 /\ Posting' = Posting
    BY <1>1, ReaderClaims DEF ReadTake, One
  <2>2. sem_read' = sem_read - 1 /\ next_read_slot_' = next_read_slot_ /\ reader' = reader
    BY <1>1 DEF ReadTake, counters
  <2>3. Unclaimed' = Unclaimed
    BY <2>1, <2>2 DEF TypeOK
  <2> QED
    BY <1>0, <2>2, <2>3 DEF StepInv
<1>2. CASE ReadSleep \/ ReadPost
  <2>1. Claiming' = Claiming /\ Posting' = Posting
    BY <1>2, ReaderClaims DEF ReadSleep, ReadPost, One
  <2>2. sem_read' = sem_read /\ next_read_slot_' = next_read_slot_ /\ reader' = reader
    BY <1>2 DEF ReadSleep, ReadPost, counters, semaphores
  <2>3. Unclaimed' = Unclaimed
    BY <2>1, <2>2
  <2> QED
    BY <1>0, <2>2, <2>3 DEF StepInv
<1>3. CASE ReadFault
  <2>1. Claiming' = Claiming /\ Posting' = Posting
    BY <1>3, ReaderClaims DEF ReadFault, One
  <2>2. sem_read' = sem_read /\ next_read_slot_' = next_read_slot_ /\ object = "empty"
    BY <1>3 DEF ReadFault, counters, semaphores
  <2>3. Unclaimed' = Unclaimed
    BY <2>1, <2>2
  <2>4. next_read_slot_ = 0
    BY <2>2 DEF StepInv
  <2> QED
    BY <1>0, <2>2, <2>3, <2>4 DEF StepInv
<1>4. CASE ReadClaim
  <2>1. Claiming' = Claiming - 1 /\ Posting' = Posting
    BY <1>4, ReaderClaims DEF ReadClaim, One
  <2>2. /\ sem_read' = sem_read /\ reader' = reader
        /\ next_read_slot_' = (next_read_slot_ + 1) % NUM_SLOTS
    BY <1>4 DEF ReadClaim, semaphores, Following
  <2>3. Unclaimed' = Unclaimed - 1 /\ Unclaimed \in Nat \ {0}
    BY <2>1, <2>2 DEF TypeOK
  <2>4. next_read_slot_ \in Nat
    BY DEF TypeOK, Slots
  <2>5. (((next_read_slot_ + 1) % NUM_SLOTS) + Unclaimed') % NUM_SLOTS
           = ((next_read_slot_ + 1) + Unclaimed') % NUM_SLOTS
    <3>1. next_read_slot_ + 1 \in Int /\ Unclaimed' \in Int
      BY <2>3, <2>4
    <3> QED
      BY <3>1, BoundAssumption, RemainderOfSum
  <2>6. (next_read_slot_ + 1) + Unclaimed' = next_read_slot_ + Unclaimed
    BY <2>3, <2>4
  <2> QED
    BY <1>0, <2>2, <2>3, <2>5, <2>6 DEF StepInv
<1> QED
  BY <1>1, <1>2, <1>3, <1>4 DEF ReaderThread

LEMMA StartStep ==
  ASSUME Shape, StepInv, FirstLife, FirstLife', Starts
  PROVE  StepInv'
<1> USE DEF Shape
<1>1. CASE WriterShmOpen
  <2>1. starts = 0 /\ starts' = 1 /\ writer' = "opened"
    BY <1>1 DEF WriterShmOpen, FirstLife, TypeOK
  <2>2. Unclaimed' = Unclaimed
    BY <1>1, UnclaimedStays DEF WriterShmOpen, semaphores
  <2> QED
    BY <1>1, <2>1, <2>2 DEF WriterShmOpen, StepInv, FirstLife, counters
<1>2. CASE WriterFtruncate
  <2>1. Unclaimed' = Unclaimed
    BY <1>2, UnclaimedStays DEF WriterFtruncate, semaphores
  <2> QED
    BY <1>2, <2>1 DEF WriterFtruncate, StepInv, FirstLife, counters
<1>3. CASE WriterSemWrite
  <2>1. Unclaimed' = Unclaimed
    BY <1>3, UnclaimedStays DEF WriterSemWrite
  <2> QED
    BY <1>3, <2>1 DEF WriterSemWrite, StepInv, FirstLife
<1>4. CASE WriterSemRead
  <2>1. /\ \A t \in Writers: pc[t] = "off" /\ pc'[t] = "wait"
        /\ \/ pc'[Reader] = pc[Reader]
           \/ pc[Reader] = "asleep" /\ pc'[Reader] = "forgotten"
    BY <1>4, ThreadsAssumption DEF WriterSemRead, Running, Threads, At
  <2>2. Unclaimed = 0
    BY <1>4 DEF WriterSemRead, StepInv
  <2>3. sem_read' = sem_read
    BY <1>4, <2>2, UnclaimedIsSum DEF WriterSemRead, TypeOK
  <2>4. Unclaimed' = Unclaimed
    BY <2>1, <2>3, UnclaimedStays
  <2> QED
    BY <1>4, <2>4 DEF WriterSemRead, StepInv, FirstLife, counters
<1>5. CASE WriterExit
  <2>1. /\ \A t \in Writers: pc[t] = "end" /\ pc'[t] = "off"
        /\ pc'[Reader] = pc[Reader]
    BY <1>5, ThreadsAssumption DEF WriterExit, Off, At, Threads
  <2>2. Unclaimed' = Unclaimed
    BY <1>5, <2>1, UnclaimedStays DEF WriterExit, semaphores
  <2> QED
    BY <1>5, <2>2 DEF WriterExit, StepInv, FirstLife, counters
<1>6. CASE ReaderShmOpen
  <2>1. /\ \A t \in Writers: pc'[t] = pc[t]
        /\ pc[Reader] = "off" /\ pc'[Reader] = "wait"
    BY <1>6, ThreadsAssumption DEF ReaderShmOpen, Running, TypeOK, Threads
  <2>2. Unclaimed' = Unclaimed
    BY <1>6, <2>1, UnclaimedStays DEF ReaderShmOpen, semaphores
  <2> QED
    BY <1>6, <2>2 DEF ReaderShmOpen, StepInv, FirstLife
<1> QED
  BY <1>1, <1>2, <1>3, <1>4, <1>5, <1>6 DEF Starts, WriterProcess

LEMMA InitStep == Init => StepInv
<1> SUFFICES ASSUME Init
             PROVE  StepInv
  OBVIOUS
<1>1. At(Writers, {"post"}) = {} /\ At({Reader}, {"claim"}) = {}
  BY DEF Init, At, Threads
<1>2. Unclaimed = 0
  BY <1>1, FS_EmptySet DEF Init, Unclaimed
<1>3. 0 % NUM_SLOTS = 0
  <2>1. NUM_SLOTS * 0 + 0 = 0 /\ 0 \in 0 .. NUM_SLOTS - 1
    BY BoundAssumption
  <2> QED
    BY <2>1, BoundAssumption, RemainderIsUnique
<1> QED
  BY <1>2, <1>3 DEF Init, StepInv

\* No step leads back into the first lives.
LEMMA NextStep == Shape /\ StepInv /\ [Next]_vars => StepInv'
<1> SUFFICES ASSUME Shape, StepInv, [Next]_vars, FirstLife'
             PROVE  StepInv'
  BY DEF StepInv
<1>0. FirstLife
  BY DEF FirstLife, Shape, TypeOK, Next, WriterShmOpen, WriterProcess, WriterFtruncate,
         WriterSemWrite, WriterSemRead, WriterExit, ReaderShmOpen, ReaderThread, ReadTake,
         ReadSleep, ReadFault, ReadClaim, ReadPost, WriterThread, WriteWait, WriteClaim,
         WritePost, KillWriter, KillReader, vars
<1>1. CASE Starts
  BY <1>0, <1>1, StartStep
<1>2. ASSUME NEW t \in Writers, WriterThread(t)
      PROVE  StepInv'
  BY <1>0, <1>2, WriterStep
<1>3. CASE ReaderThread
  BY <1>0, <1>3, ReaderStep
<1>4. CASE KillWriter \/ KillReader
  BY <1>4 DEF KillWriter, KillReader, FirstLife, Shape, TypeOK
<1>5. CASE UNCHANGED vars
  BY <1>5 DEF vars, semaphores, counters, StepInv, FirstLife, Unclaimed, At
<1> QED
  BY <1>1, <1>2, <1>3, <1>4, <1>5, Zenon DEF Next, Starts

-----------------------------------------------------------------------------

\* Every variable keeps its type through every start, kill and fault.
THEOREM TypeCorrect == Spec => []TypeOK
<1>1. Shape => TypeOK
  BY DEF Shape
<1> QED
  BY <1>1, InitShape, StepShape, PTL DEF Spec

\* Whenever the writer is started and whoever is killed, there are never more
\* tokens than one ring for each start.
THEOREM TokensStayBounded == Spec => []TokensBounded
<1> DEFINE Inv == Shape /\ BoundInv
<1>1. Init => Inv
  <2> SUFFICES ASSUME Init
               PROVE  BoundInv
    BY InitShape
  <2>1. At(Writers, Flying) = {} /\ At({Reader}, Flying) = {}
    BY DEF Init, At, Threads, Flying
  <2>2. InFlight(Writers) = 0 /\ InFlight({Reader}) = 0
    BY <2>1, FS_EmptySet DEF InFlight, Flying
  <2> QED
    BY <2>2, BoundAssumption DEF Init, BoundInv, Spent, Total
<1>2. Inv /\ [Next]_vars => Inv'
  <2> SUFFICES ASSUME Inv, [Next]_vars
               PROVE  BoundInv'
    BY StepShape
  <2>1. CASE Starts
    BY <2>1, StartBound
  <2>2. CASE ReaderThread \/ \E t \in Writers: WriterThread(t)
    BY <2>2, ThreadBound
  <2>3. CASE KillWriter \/ KillReader
    BY <2>3, KillBound
  <2>4. CASE UNCHANGED vars
    BY <2>4 DEF vars, semaphores, BoundInv, Spent, Total, InFlight, At
  <2> QED
    BY <2>1, <2>2, <2>3, <2>4, Zenon DEF Next, Starts
<1>3. Inv => TokensBounded
  <2> SUFFICES ASSUME Inv
               PROVE  TokensBounded
    OBVIOUS
  <2>1. starts \in Int /\ Spent \in {starts, starts - 1} /\ Total \in Nat
    BY TotalIsNat DEF Shape, TypeOK, Spent
  <2>2. (starts - 1) * NUM_SLOTS \in Int
        /\ starts * NUM_SLOTS = (starts - 1) * NUM_SLOTS + NUM_SLOTS
    <3>1. starts - 1 \in Int /\ starts = (starts - 1) + 1
      BY <2>1
    <3> QED
      BY <3>1, Distributes
  <2> QED
    BY <2>1, <2>2, BoundAssumption DEF BoundInv, TokensBounded
<1> QED
  BY <1>1, <1>2, <1>3, PTL DEF Spec

\* In their first lives the two processes agree on the slots, wherever the reader
\* comes into the writer's constructor.
THEOREM CountersAgree == Spec => []InStep
<1>1. Shape /\ StepInv => InStep
  <2> SUFFICES ASSUME Shape, StepInv, FirstLife
               PROVE  (next_write_slot_ - next_read_slot_) % NUM_SLOTS = Unclaimed % NUM_SLOTS
    BY DEF InStep, FirstLife, Unclaimed
  <2>1. next_write_slot_ = (next_read_slot_ + Unclaimed) % NUM_SLOTS
    BY DEF StepInv
  <2>2. next_read_slot_ \in Int /\ Unclaimed \in Int
    BY UnclaimedIsSum DEF Shape, TypeOK, Slots
  <2>3. next_read_slot_ + Unclaimed \in Int /\ -next_read_slot_ \in Int
    BY <2>2
  <2>4. (((next_read_slot_ + Unclaimed) % NUM_SLOTS) + (-next_read_slot_)) % NUM_SLOTS
          = ((next_read_slot_ + Unclaimed) + (-next_read_slot_)) % NUM_SLOTS
    BY <2>3, BoundAssumption, RemainderOfSum
  <2>5. /\ (next_read_slot_ + Unclaimed) + (-next_read_slot_) = Unclaimed
        /\ next_write_slot_ + (-next_read_slot_) = next_write_slot_ - next_read_slot_
    BY <2>1, <2>2, <2>3, BoundAssumption, IntDivision
  <2> QED
    BY <2>1, <2>4, <2>5
<1> QED
  BY <1>1, InitShape, StepShape, InitStep, NextStep, PTL DEF Spec
=============================================================================
