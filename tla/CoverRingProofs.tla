--------------------------- MODULE CoverRingProofs ---------------------------
(***************************************************************************)
(* Theorems about CoverRing, and about the lives of its programs in        *)
(* CoverLives, for any number of writers, slots, calls, starts and kills.  *)
(***************************************************************************)
EXTENDS CoverLives, RingLemmas

Groups == {WritingThreads, {Reader}}

\* Where a call of Write has claimed a slot and not yet posted, and where a call
\* of Read has taken a token and not yet claimed a slot.
Posting == {"store", "post"}
Claiming == {"check", "compare", "exchange", "claim"}

LEMMA ThreadsDisjoint == Reader \notin WritingThreads
BY ThreadsAssumption DEF WritingThreads

LEMMA GroupsFinite ==
  ASSUME NEW S \in Groups
  PROVE  IsFiniteSet(S) /\ S \subseteq Threads
<1>1. IsFiniteSet({Main}) /\ IsFiniteSet({Reader})
  BY FS_Singleton
<1>2. IsFiniteSet(WritingThreads)
  BY <1>1, FS_Union, ThreadsAssumption DEF WritingThreads
<1> QED
  BY <1>1, <1>2 DEF Groups, Threads

LEMMA Count ==
  ASSUME NEW S \in Groups, NEW P
  PROVE  Cardinality(At(S, P)) \in Nat
<1>1. IsFiniteSet(At(S, P))
  BY GroupsFinite, FS_Subset DEF At
<1> QED
  BY <1>1, FS_CardinalityType

\* A thread that moves enters or leaves a set of control points alone.
LEMMA Moves ==
  ASSUME TypeOK, NEW t \in Threads, NEW from, NEW to, Goto(t, from, to),
         NEW S \in Groups, NEW P
  PROVE  Cardinality(At(S, P))' = Cardinality(At(S, P)) - One(t \in S /\ from \in P)
                                                       + One(t \in S /\ to \in P)
<1> DEFINE C == {u \in S: pc[u] \in P}
           D == {u \in S: pc'[u] \in P}
<1>1. /\ pc \in [Threads -> Points]
      /\ pc[t] = from /\ pc' = [pc EXCEPT ![t] = to]
      /\ S \subseteq Threads /\ IsFiniteSet(S)
  BY GroupsFinite DEF TypeOK, Goto
<1>2. IsFiniteSet(C) /\ IsFiniteSet(D)
  BY <1>1, FS_Subset
<1>3. D \ {t} = C \ {t}
  BY <1>1
<1>4. /\ t \in C <=> t \in S /\ from \in P
      /\ t \in D <=> t \in S /\ to \in P
  BY <1>1
<1>5. At(S, P) = C /\ At(S, P)' = D
  BY DEF At
<1> HIDE DEF C, D
<1>6. Cardinality(D) = Cardinality(C) - One(t \in C) + One(t \in D)
  BY <1>2, <1>3, CardinalityMove
<1>7. /\ One(t \in C) = One(t \in S /\ from \in P)
      /\ One(t \in D) = One(t \in S /\ to \in P)
  BY <1>4 DEF One
<1> QED
  BY <1>5, <1>6, <1>7

-----------------------------------------------------------------------------

LEMMA InitType == Init => TypeOK
BY BoundAssumption DEF Init, MemoryInit, LocalsInit, TypeOK, Slots, RWStatus, Points

LEMMA StepType ==
  ASSUME TypeOK, [Next]_vars
  PROVE  TypeOK'
<1> USE DEF TypeOK, Points, RWStatus, memory, locals, Goto
<1>a. \A n \in Nat: Slot(n) \in Slots
  BY RemainderInRange, BoundAssumption DEF Slots, Slot
<1>b. 0 \in Slots
  BY BoundAssumption DEF Slots
<1>c. /\ WritingThreads \subseteq Threads
      /\ Reader \in Threads
  BY DEF Threads
<1>1. ASSUME NEW t \in Threads, Load(t) \/ Compare(t)
      PROVE  TypeOK'
  BY <1>1 DEF Load, Compare
<1>2. ASSUME NEW t \in Threads, NEW status \in RWStatus, Exchange(t, status)
      PROVE  TypeOK'
  BY <1>2 DEF Exchange
<1>3. ASSUME NEW t \in WritingThreads, WriteCall(t) \/ WriteEnd(t) \/ WritePost(t)
      PROVE  TypeOK'
  BY <1>3, <1>c DEF WriteCall, WriteEnd, WritePost
<1>4. ASSUME NEW t \in WritingThreads, WriteClaim(t)
      PROVE  TypeOK'
  BY <1>4, <1>a, <1>c DEF WriteClaim
<1>5. ASSUME NEW t \in WritingThreads, WriteStore(t)
      PROVE  TypeOK'
  BY <1>5, <1>c DEF WriteStore, Value
<1>6. ASSUME NEW t \in WritingThreads, WriteRelease(t)
      PROVE  TypeOK'
  BY <1>6, <1>b, <1>c DEF WriteRelease
<1>7. CASE ReadWait \/ ReadLoad \/ ReadEnd
  <2>1. should_continue' \in BOOLEAN
    BY <1>7, Zenon DEF ReadWait, ReadLoad, ReadEnd
  <2> QED
    BY <1>7, <1>c, <2>1 DEF ReadWait, ReadLoad, ReadEnd
<1>8. CASE ReadClaim
  BY <1>8, <1>a, <1>c DEF ReadClaim
<1>9. CASE ReadRelease
  BY <1>9, <1>b, <1>c DEF ReadRelease
<1>10. CASE UNCHANGED vars
  BY <1>10 DEF vars
<1>11. "WRITING" \in RWStatus /\ "READING" \in RWStatus
  OBVIOUS
<1> QED
  BY <1>1, <1>2, <1>3, <1>4, <1>5, <1>6, <1>7, <1>8, <1>9, <1>10, <1>11, <1>c, Zenon
     DEF Next, WriterThread, ReaderThread

-----------------------------------------------------------------------------

LEMMA InitReads == Init => ReadsFollowWrites
<1> SUFFICES ASSUME Init
             PROVE  ReadsFollowWrites
  OBVIOUS
<1>1. /\ At(WritingThreads, {"store", "post"}) = {}
      /\ At({Reader}, {"check", "compare", "exchange", "claim"}) = {}
  BY DEF Init, MemoryInit, LocalsInit, At, Threads
<1>2. /\ Cardinality(At(WritingThreads, {"store", "post"})) = 0
      /\ Cardinality(At({Reader}, {"check", "compare", "exchange", "claim"})) = 0
  BY <1>1, FS_EmptySet, Zenon
<1> QED
  BY <1>2 DEF Init, MemoryInit, LocalsInit, ReadsFollowWrites

\* The calls of Write that are neither in the semaphore, nor on their way there,
\* nor with the reader; and the same without those that are with the reader.
W == Cardinality(At(WritingThreads, Posting))
R == Cardinality(At({Reader}, Claiming))
Balance == next_write_slot_ - next_read_slot_ - sem_read - W - R
Surplus == next_write_slot_ - sem_read - W

LEMMA CountsAreNat == W \in Nat /\ R \in Nat
BY Count DEF W, R, Groups

\* A step moves one thread, and the semaphore and the counters with it.
LEMMA StepBalance ==
  ASSUME TypeOK, [Next]_vars
  PROVE  Balance' = Balance /\ Surplus' >= Surplus /\ W' \in Int /\ R' \in Int
<1> DEFINE Goal == Balance' = Balance /\ Surplus' >= Surplus /\ W' \in Int /\ R' \in Int
<1> USE DEF Balance, Surplus
<1>b. W \in Nat /\ R \in Nat
  BY CountsAreNat
<1>c. next_write_slot_ \in Nat /\ next_read_slot_ \in Nat /\ sem_read \in Nat
  BY DEF TypeOK
<1>d. ASSUME NEW t \in WritingThreads, NEW from, NEW to, Goto(t, from, to)
      PROVE  W' = W - One(from \in Posting) + One(to \in Posting) /\ R' = R
  <2>1. t \in Threads /\ t \notin {Reader}
    BY ThreadsDisjoint DEF Threads
  <2>2. /\ W' = W - One(t \in WritingThreads /\ from \in Posting)
                  + One(t \in WritingThreads /\ to \in Posting)
        /\ R' = R - One(t \in {Reader} /\ from \in Claiming)
                  + One(t \in {Reader} /\ to \in Claiming)
    BY <1>d, <2>1, Moves DEF Groups, W, R
  <2> QED
    BY <1>b, <2>1, <2>2 DEF One
<1>e. ASSUME NEW from, NEW to, Goto(Reader, from, to)
      PROVE  R' = R - One(from \in Claiming) + One(to \in Claiming) /\ W' = W
  <2>1. Reader \in Threads /\ Reader \notin WritingThreads
    BY ThreadsDisjoint DEF Threads
  <2>2. /\ W' = W - One(Reader \in WritingThreads /\ from \in Posting)
                  + One(Reader \in WritingThreads /\ to \in Posting)
        /\ R' = R - One(Reader \in {Reader} /\ from \in Claiming)
                  + One(Reader \in {Reader} /\ to \in Claiming)
    BY <1>e, <2>1, Moves DEF Groups, W, R
  <2> QED
    BY <1>b, <2>1, <2>2 DEF One
<1>1. ASSUME NEW t \in WritingThreads, WriterThread(t)
      PROVE  Goal
  <2>1. CASE WriteClaim(t)
    <3>1. W' = W + 1 /\ R' = R
      BY <2>1, <1>b, <1>d DEF WriteClaim, Posting, One
    <3> QED
      BY <2>1, <3>1, <1>b, <1>c DEF WriteClaim
  <2>2. CASE WritePost(t)
    <3>1. W' = W - 1 /\ R' = R
      BY <2>2, <1>b, <1>d DEF WritePost, Posting, One
    <3> QED
      BY <2>2, <3>1, <1>b, <1>c DEF WritePost
  <2>3. CASE WriteStore(t)
    <3>1. W' = W /\ R' = R
      BY <2>3, <1>b, <1>d DEF WriteStore, Posting, One
    <3> QED
      BY <2>3, <3>1, <1>b, <1>c DEF WriteStore
  <2>4. CASE WriteCall(t) \/ WriteRelease(t) \/ WriteEnd(t) \/ Load(t) \/ Compare(t)
    <3>1. W' = W /\ R' = R
      BY <2>4, <1>b, <1>d DEF WriteCall, WriteRelease, WriteEnd, Load, Compare, Posting, One
    <3> QED
      BY <2>4, <3>1, <1>b, <1>c DEF WriteCall, WriteRelease, WriteEnd, Load, Compare, memory
  <2>5. CASE Exchange(t, "WRITING")
    <3>1. W' = W /\ R' = R
      BY <2>5, <1>b, <1>d DEF Exchange, Posting, One
    <3> QED
      BY <2>5, <3>1, <1>b, <1>c DEF Exchange
  <2> QED
    BY <1>1, <2>1, <2>2, <2>3, <2>4, <2>5 DEF WriterThread
<1>2. CASE ReaderThread
  <2>1. CASE ReadWait
    <3>1. W' = W /\ R' = R + 1
      BY <2>1, <1>b, <1>e DEF ReadWait, Claiming, One
    <3> QED
      BY <2>1, <3>1, <1>b, <1>c DEF ReadWait
  <2>2. CASE ReadClaim
    <3>1. W' = W /\ R' = R - 1
      BY <2>2, <1>b, <1>e DEF ReadClaim, Claiming, One
    <3> QED
      BY <2>2, <3>1, <1>b, <1>c DEF ReadClaim
  <2>3. CASE Load(Reader) \/ Compare(Reader)
    <3>1. W' = W /\ R' = R
      BY <2>3, <1>b, <1>e DEF Load, Compare, Claiming, One
    <3> QED
      BY <2>3, <3>1, <1>b, <1>c DEF Load, Compare, memory
  <2>4. CASE Exchange(Reader, "READING")
    <3>1. W' = W /\ R' = R
      BY <2>4, <1>b, <1>e DEF Exchange, Claiming, One
    <3> QED
      BY <2>4, <3>1, <1>b, <1>c DEF Exchange
  <2>5. CASE ReadLoad \/ ReadRelease \/ ReadEnd
    <3>1. W' = W /\ R' = R
      BY <2>5, <1>b, <1>e DEF ReadLoad, ReadRelease, ReadEnd, Claiming, One
    <3> QED
      BY <2>5, <3>1, <1>b, <1>c DEF ReadLoad, ReadRelease, ReadEnd, memory
  <2> QED
    BY <1>2, <2>1, <2>2, <2>3, <2>4, <2>5 DEF ReaderThread
<1>3. CASE UNCHANGED vars
  <2>1. W' = W /\ R' = R
    BY <1>3 DEF vars, W, R, At
  <2> QED
    BY <1>3, <2>1, <1>b, <1>c DEF vars, memory
<1> QED
  BY <1>1, <1>2, <1>3 DEF Next

LEMMA StepAhead ==
  ASSUME TypeOK, [Next]_vars
  PROVE  /\ sem_read + W <= next_write_slot_ => sem_read' + W' <= next_write_slot_'
         /\ next_read_slot_ + sem_read + W + R <= next_write_slot_
              => next_read_slot_' + sem_read' + W' + R' <= next_write_slot_'
<1>1. TypeOK'
  BY StepType
<1> DEFINE n == next_write_slot_'
           r == next_read_slot_'
           s == sem_read'
           v == W'
           u == R'
<1>2. n \in Nat /\ r \in Nat /\ s \in Nat /\ v \in Int /\ u \in Int
  BY <1>1, StepBalance DEF TypeOK
<1>3. /\ n - s - v >= next_write_slot_ - sem_read - W
      /\ n - r - s - v - u = next_write_slot_ - next_read_slot_ - sem_read - W - R
  BY StepBalance DEF Balance, Surplus
<1> HIDE DEF n, r, s, v, u
<1>4. /\ sem_read + W <= next_write_slot_ => s + v <= n
      /\ next_read_slot_ + sem_read + W + R <= next_write_slot_ => r + s + v + u <= n
  BY <1>2, <1>3, CountsAreNat DEF TypeOK
<1> QED
  BY <1>4 DEF n, r, s, v, u

LEMMA StepReads ==
  ASSUME TypeOK, ReadsFollowWrites, [Next]_vars
  PROVE  ReadsFollowWrites'
<1>1. /\ ReadsFollowWrites <=> next_write_slot_ = next_read_slot_ + sem_read + W + R
      /\ ReadsFollowWrites' <=> next_write_slot_' = next_read_slot_' + sem_read' + W' + R'
  BY DEF ReadsFollowWrites, Posting, Claiming, W, R
<1>2. TypeOK'
  BY StepType
<1> QED
  BY <1>1, <1>2, StepBalance, CountsAreNat DEF Balance, TypeOK

-----------------------------------------------------------------------------

\* The status is set by a thread on its way to claim, and a thread that leaves
\* its call stores IDLE: only the thread that moves may leave the owners.
LEMMA StepStatus ==
  ASSUME TypeOK, StatusHasOwner, [Next]_vars
  PROVE  StatusHasOwner'
<1> DEFINE Owners == {"claim", "store", "post", "load", "release"}
<1>a. StatusHasOwner
        <=> /\ rw_status = "WRITING" => \E u \in WritingThreads: pc[u] \in {"claim", "store", "post", "release"}
            /\ rw_status = "READING" => pc[Reader] \in {"claim", "load", "release"}
  BY DEF StatusHasOwner, At
<1>b. StatusHasOwner'
        <=> /\ rw_status' = "WRITING" => \E u \in WritingThreads: pc'[u] \in {"claim", "store", "post", "release"}
            /\ rw_status' = "READING" => pc'[Reader] \in {"claim", "load", "release"}
  BY DEF StatusHasOwner, At
<1>c. /\ WritingThreads \subseteq Threads /\ Reader \in Threads
      /\ Reader \notin WritingThreads /\ pc \in [Threads -> Points]
  BY ThreadsDisjoint DEF Threads, TypeOK
<1>1. ASSUME NEW t \in Threads,
             Load(t) \/ Compare(t) \/ (t \in WritingThreads /\ (WriteCall(t) \/ WriteEnd(t)))
      PROVE  StatusHasOwner'
  <2>1. rw_status' = rw_status
    BY <1>1 DEF Load, Compare, WriteCall, WriteEnd, memory
  <2>2. \A u \in Threads: pc[u] \in Owners => pc'[u] = pc[u]
    BY <1>1, <1>c DEF Load, Compare, WriteCall, WriteEnd, Goto
  <2> QED
    BY <1>a, <1>b, <1>c, <2>1, <2>2
<1>2. ASSUME NEW t \in WritingThreads, Exchange(t, "WRITING")
      PROVE  StatusHasOwner'
  BY <1>2, <1>a, <1>b, <1>c DEF Exchange, Goto
<1>3. ASSUME NEW t \in WritingThreads, WriteClaim(t) \/ WriteStore(t) \/ WritePost(t)
      PROVE  StatusHasOwner'
  <2>1. /\ pc'[t] \in {"store", "post", "release"}
        /\ pc'[Reader] = pc[Reader] /\ rw_status' = rw_status
    BY <1>3, <1>c DEF WriteClaim, WriteStore, WritePost, Goto
  <2> QED
    BY <1>a, <1>b, <2>1
<1>4. ASSUME NEW t \in WritingThreads, WriteRelease(t)
      PROVE  StatusHasOwner'
  BY <1>4, <1>b DEF WriteRelease
<1>5. CASE Exchange(Reader, "READING")
  BY <1>5, <1>a, <1>b, <1>c DEF Exchange, Goto
<1>6. CASE ReadWait \/ ReadEnd
  <2>1. /\ rw_status' = rw_status /\ pc[Reader] = "start"
        /\ \A u \in WritingThreads: pc'[u] = pc[u]
    BY <1>6, <1>c DEF ReadWait, ReadEnd, Goto, memory
  <2> QED
    BY <1>a, <1>b, <2>1
<1>7. CASE ReadClaim \/ ReadLoad
  <2>1. /\ rw_status' = rw_status /\ pc'[Reader] \in {"load", "release"}
        /\ \A u \in WritingThreads: pc'[u] = pc[u]
    BY <1>7, <1>c DEF ReadClaim, ReadLoad, Goto, memory
  <2> QED
    BY <1>a, <1>b, <2>1
<1>8. CASE ReadRelease
  BY <1>8, <1>b DEF ReadRelease
<1>9. CASE UNCHANGED vars
  BY <1>9, <1>a, <1>b DEF vars, memory
<1> QED
  BY <1>1, <1>2, <1>3, <1>4, <1>5, <1>6, <1>7, <1>8, <1>9, <1>c, Zenon
     DEF Next, WriterThread, ReaderThread

-----------------------------------------------------------------------------

\* Every variable keeps its type, for any number of covering writers.
THEOREM TypeCorrect == Spec => []TypeOK
<1>1. TypeOK /\ [Next]_vars => TypeOK'
  BY StepType
<1> QED
  BY <1>1, InitType, PTL DEF Spec

\* The reader reads only slots that a call of Write has claimed and posted.
THEOREM ReadsFollow == Spec => []ReadsFollowWrites
<1> DEFINE Inv == TypeOK /\ ReadsFollowWrites
<1>1. Init => Inv
  BY InitType, InitReads
<1>2. Inv /\ [Next]_vars => Inv'
  BY StepType, StepReads
<1> QED
  BY <1>1, <1>2, PTL DEF Spec

\* A status that is set has an owner that is on its way to store IDLE.
THEOREM StatusIsOwned == Spec => []StatusHasOwner
<1> DEFINE Inv == TypeOK /\ StatusHasOwner
<1>1. Init => Inv
  BY InitType DEF Init, MemoryInit, LocalsInit, StatusHasOwner
<1>2. Inv /\ [Next]_vars => Inv'
  BY StepType, StepStatus
<1> QED
  BY <1>1, <1>2, PTL DEF Spec

-----------------------------------------------------------------------------
(* CoverLives: early readers, ends, kills and starts.                      *)

LEMMA LivesThreads == /\ WritingThreads \subseteq Threads /\ Main \in WritingThreads
                      /\ Writers \subseteq WritingThreads
                      /\ Reader \in Threads /\ Reader \notin WritingThreads
                      /\ Threads = WritingThreads \cup {Reader}
BY ThreadsDisjoint DEF Threads, WritingThreads

LEMMA NeverAheadIs ==
  /\ NeverAhead <=> /\ writer = "run" => sem_read + W <= next_write_slot_
                    /\ starts <= 1 => next_read_slot_ + sem_read + W + R <= next_write_slot_
  /\ NeverAhead' <=> /\ writer' = "run" => sem_read' + W' <= next_write_slot_'
                     /\ starts' <= 1 => next_read_slot_' + sem_read' + W' + R'
                                           <= next_write_slot_'
BY DEF NeverAhead, W, R, Posting, Claiming

\* Without its threads a process holds no call; the counts are those of pc.
LEMMA NoneLeft ==
  /\ (\A t \in WritingThreads: pc[t] \notin Posting) => W = 0
  /\ pc[Reader] \notin Claiming => R = 0
  /\ (\A t \in WritingThreads: pc'[t] \notin Posting) => W' = 0
  /\ pc'[Reader] \notin Claiming => R' = 0
<1>1. ASSUME \A t \in WritingThreads: pc[t] \notin Posting
      PROVE  W = 0
  <2>1. At(WritingThreads, Posting) = {}
    BY <1>1 DEF At
  <2> QED
    BY <2>1, FS_EmptySet, Zenon DEF W
<1>2. ASSUME pc[Reader] \notin Claiming
      PROVE  R = 0
  <2>1. At({Reader}, Claiming) = {}
    BY <1>2 DEF At
  <2> QED
    BY <2>1, FS_EmptySet, Zenon DEF R
<1>3. ASSUME \A t \in WritingThreads: pc'[t] \notin Posting
      PROVE  W' = 0
  <2>1. At(WritingThreads, Posting)' = {}
    BY <1>3 DEF At
  <2>2. Cardinality(At(WritingThreads, Posting)') = 0
    BY <2>1, FS_EmptySet, Zenon
  <2> QED
    BY <2>2 DEF W
<1>4. ASSUME pc'[Reader] \notin Claiming
      PROVE  R' = 0
  <2>1. At({Reader}, Claiming)' = {}
    BY <1>4 DEF At
  <2>2. Cardinality(At({Reader}, Claiming)') = 0
    BY <2>1, FS_EmptySet, Zenon
  <2> QED
    BY <2>2 DEF R
<1> QED
  BY <1>1, <1>2, <1>3, <1>4

\* The threads of the other process keep their counts.
LEMMA SameThreads ==
  /\ (\A t \in WritingThreads: pc'[t] = pc[t]) => W' = W
  /\ pc'[Reader] = pc[Reader] => R' = R
<1>1. ASSUME \A t \in WritingThreads: pc'[t] = pc[t]
      PROVE  W' = W
  <2>1. At(WritingThreads, Posting)' = At(WritingThreads, Posting)
    BY <1>1 DEF At
  <2> QED
    BY <2>1 DEF W
<1>2. ASSUME pc'[Reader] = pc[Reader]
      PROVE  R' = R
  <2>1. At({Reader}, Claiming)' = At({Reader}, Claiming)
    BY <1>2 DEF At
  <2> QED
    BY <2>1 DEF R
<1> QED
  BY <1>1, <1>2

\* The status and its owners, in terms of pc.
LEMMA StatusIs ==
  /\ StatusHasOwner
       <=> /\ rw_status = "WRITING" => \E t \in WritingThreads:
                                         pc[t] \in {"claim", "store", "post", "release"}
           /\ rw_status = "READING" => pc[Reader] \in {"claim", "load", "release"}
  /\ StatusHasOwner'
       <=> /\ rw_status' = "WRITING" => \E t \in WritingThreads:
                                          pc'[t] \in {"claim", "store", "post", "release"}
           /\ rw_status' = "READING" => pc'[Reader] \in {"claim", "load", "release"}
BY DEF StatusHasOwner, At

LEMMA LivesInitInv == LivesInit => LivesInv
<1> SUFFICES ASSUME LivesInit
             PROVE  LivesInv
  OBVIOUS
<1> USE LivesThreads DEF LivesInit, MemoryInit, LocalsInit
<1>1. LivesType
  <2>1. TypeOK
    BY BoundAssumption DEF TypeOK, Slots, RWStatus, Points
  <2> QED
    BY <2>1 DEF LivesType
<1>2. Running /\ FirstLife
  BY DEF Running, FirstLife, Fresh, Constructing
<1>3. W = 0 /\ R = 0
  BY NoneLeft DEF Posting, Claiming
<1>4. NeverAhead
  BY <1>3, NeverAheadIs
<1>5. OrphanedByKill
  BY StatusIs DEF OrphanedByKill
<1> QED
  BY <1>1, <1>2, <1>4, <1>5 DEF LivesInv

\* A step of a thread of CoverRing: its invariants carry over.
LEMMA LivesThreadStep ==
  ASSUME LivesInv, UNCHANGED lives, Next,
         \/ \E t \in WritingThreads: WriterThread(t)
         \/ ReaderThread
  PROVE  LivesInv'
<1> USE LivesThreads DEF lives
<1>1. TypeOK /\ TypeOK'
  BY StepType DEF LivesInv, LivesType
<1>2. LivesType'
  BY <1>1 DEF LivesInv, LivesType
<1>3. OrphanedByKill'
  BY <1>1, StepStatus DEF LivesInv, OrphanedByKill
<1>5. NeverAhead'
  BY <1>1, StepAhead, NeverAheadIs DEF LivesInv
<1>6. CASE \E t \in WritingThreads: WriterThread(t)
  <2>1. PICK t \in WritingThreads: WriterThread(t)
    BY <1>6
  <2>2. /\ pc[t] # "off" /\ pc'[t] # "off"
        /\ \A u \in Threads: u # t => pc'[u] = pc[u]
        /\ pc[t] = "end" => FALSE
    BY <2>1, <1>1 DEF WriterThread, WriteCall, Load, Compare, Exchange, WriteClaim, WriteStore,
                      WritePost, WriteRelease, WriteEnd, Goto, TypeOK
  <2>3. writer = "run"
    BY <2>2 DEF LivesInv, Running
  <2>4. (pc'[Main] = "start" /\ i'[Main] = 0) \/ Joined'
    <3>1. CASE Joined
      BY <2>2, <3>1 DEF Joined
    <3>2. CASE ~Joined /\ t = Main
      <4>1. pc[Main] = "start" /\ i[Main] = 0
        BY <2>3, <3>2 DEF LivesInv, Running
      <4> QED
        BY <2>1, <3>2, <4>1 DEF WriterThread, WriteCall, Load, Compare, Exchange, WriteClaim,
                               WriteStore, WritePost, WriteRelease, WriteEnd, Goto, Limit
    <3>3. CASE ~Joined /\ t # Main
      <4>1. pc[Main] = "start" /\ i[Main] = 0
        BY <2>3, <3>3 DEF LivesInv, Running
      <4>2. i'[Main] = i[Main]
        BY <2>1, <3>3, <1>1 DEF WriterThread, WriteCall, Load, Compare, Exchange, WriteClaim,
                               WriteStore, WritePost, WriteRelease, WriteEnd, locals, TypeOK
      <4> QED
        BY <2>2, <3>3, <4>1, <4>2
    <3> QED
      BY <3>1, <3>2, <3>3
  <2>5. Running'
    BY <2>2, <2>3, <2>4 DEF LivesInv, Running
  <2>6. FirstLife'
    BY <2>3 DEF LivesInv, FirstLife, Constructing
  <2> QED
    BY <1>2, <1>3, <1>5, <2>5, <2>6 DEF LivesInv
<1>7. CASE ReaderThread
  <2>1. /\ pc[Reader] # "off" /\ pc'[Reader] # "off"
        /\ \A t \in WritingThreads: pc'[t] = pc[t]
        /\ i' = i
    BY <1>1, <1>7 DEF ReaderThread, ReadWait, Load, Compare, Exchange, ReadClaim, ReadLoad,
                      ReadRelease, ReadEnd, Goto, TypeOK, locals
  <2>2. reader = "run"
    BY <2>1 DEF LivesInv, LivesType, Running
  <2>3. Running'
    BY <2>1, <2>2 DEF LivesInv, Running, Joined
  <2>4. sem_read = 0 => sem_read' = 0
    BY <1>7 DEF ReaderThread, ReadWait, Load, Compare, Exchange, ReadClaim, ReadLoad,
                ReadRelease, ReadEnd, memory
  <2>5. Fresh => Fresh'
    BY <1>1, <1>7 DEF Fresh, ReaderThread, ReadWait, Load, Compare, Exchange, ReadClaim,
                      ReadLoad, ReadRelease, ReadEnd, Goto, memory, TypeOK
  <2>6. FirstLife'
    BY <2>2, <2>4, <2>5 DEF LivesInv, FirstLife
  <2> QED
    BY <1>2, <1>3, <1>5, <2>3, <2>6 DEF LivesInv
<1> QED
  BY <1>6, <1>7

\* In the first life nothing is counted before the writer's threads run.
LEMMA FreshAhead ==
  ASSUME Fresh', pc'[Reader] \notin Claiming, writer' # "run",
         \A t \in WritingThreads: pc'[t] \notin Posting
  PROVE  NeverAhead'
<1>1. W' = 0 /\ R' = 0
  BY NoneLeft
<1> QED
  BY <1>1, NeverAheadIs DEF Fresh

\* The constructor of the writer: its threads do not run, and in the first life
\* nothing has been counted.
LEMMA LivesConstructor ==
  ASSUME LivesInv,
         \/ WriterShmOpen \/ WriterFtruncate \/ WriterStoreWrite \/ WriterStoreRead
         \/ WriterSemInit
  PROVE  LivesInv'
<1> USE LivesThreads
    DEF WriterShmOpen, WriterFtruncate, WriterStoreWrite, WriterStoreRead, WriterSemInit,
        Constructing, memory, locals, vars
<1>1. LivesType /\ Running /\ FirstLife /\ NeverAhead /\ OrphanedByKill
  BY DEF LivesInv
<1>2. /\ writer # "run" /\ writer' # "run" /\ writer' # "off" /\ UNCHANGED <<pc, locals, reader, kills>>
      /\ writer' = "sem" => sem_read' = 0
  OBVIOUS
<1>3. LivesType'
  <2>1. /\ forgotten' \in BOOLEAN
        /\ data' \in [Slots -> {Zero, Datum, EndFlag}]
    BY <1>1, Zenon DEF LivesType, TypeOK
  <2>2. TypeOK'
    BY <1>1, <2>1 DEF LivesType, TypeOK, RWStatus
  <2> QED
    BY <1>1, <2>1, <2>2 DEF LivesType
<1>4. Running'
  BY <1>1, <1>2 DEF Running
<1>5. starts' \in Nat /\ starts' >= 1 /\ (starts' = 1 => Fresh')
  <2>1. CASE WriterShmOpen
    BY <1>1, <2>1 DEF LivesType, Running, FirstLife, Fresh
  <2>2. CASE ~WriterShmOpen
    <3>1. starts' = starts /\ writer # "off" /\ writer \in Constructing
      BY <2>2
    <3>2. starts # 0 /\ (starts = 1 => Fresh)
      BY <1>1, <3>1 DEF FirstLife
    <3> QED
      BY <1>1, <3>1, <3>2, <2>2 DEF LivesType, Fresh
  <2> QED
    BY <2>1, <2>2
<1>6. FirstLife'
  BY <1>2, <1>5 DEF FirstLife
<1>7. NeverAhead'
  <2>1. CASE starts' <= 1
    <3>1. Fresh'
      BY <1>5, <2>1
    <3>2. \A t \in WritingThreads: pc'[t] \notin Posting
      BY <1>1, <1>2 DEF Running, Posting
    <3>3. pc'[Reader] \notin Claiming
      BY <3>1 DEF Fresh, Claiming
    <3> QED
      BY <1>2, <3>1, <3>2, <3>3, FreshAhead
  <2>2. CASE ~(starts' <= 1)
    BY <1>2, <2>2 DEF NeverAhead
  <2> QED
    BY <2>1, <2>2
<1>8. OrphanedByKill'
  <2>1. rw_status' \in {rw_status, "IDLE"}
    OBVIOUS
  <2> QED
    BY <1>1, <1>2, <2>1, StatusIs DEF OrphanedByKill
<1> QED
  BY <1>3, <1>4, <1>6, <1>7, <1>8 DEF LivesInv

LEMMA LivesRun ==
  ASSUME LivesInv, WriterRun
  PROVE  LivesInv'
<1> USE LivesThreads DEF WriterRun, Constructing
<1>1. LivesType /\ Running /\ FirstLife /\ NeverAhead /\ OrphanedByKill
  BY DEF LivesInv
<1>2. /\ pc \in [Threads -> Points]
      /\ \A t \in WritingThreads: pc'[t] = "start" /\ pc[t] = "off"
      /\ pc'[Reader] = pc[Reader]
  BY <1>1 DEF LivesType, TypeOK, Running
<1>3. LivesType'
  <2>1. 0 \in Slots
    BY BoundAssumption DEF Slots
  <2>2. /\ pc' \in [Threads -> Points]
        /\ seen' \in [Threads -> Nat]
        /\ slot' \in [Threads -> Slots]
        /\ i' \in [WritingThreads -> Nat]
    BY <1>1, <2>1 DEF LivesType, TypeOK, Points
  <2>3. TypeOK'
    BY <1>1, <2>2 DEF LivesType, TypeOK, RWStatus
  <2> QED
    BY <1>1, <2>3 DEF LivesType
<1>4. Running'
  BY <1>1, <1>2 DEF Running
<1>5. FirstLife'
  BY <1>1, <1>2 DEF FirstLife, Fresh
<1>6. NeverAhead'
  <2>1. W' = 0
    BY <1>2, NoneLeft DEF Posting
  <2>2. sem_read' = 0 /\ next_write_slot_' \in Nat /\ next_write_slot_' = next_write_slot_
    BY <1>1 DEF FirstLife, LivesType, TypeOK
  <2>3. ASSUME starts' <= 1
        PROVE  next_read_slot_' = 0 /\ R' = 0
    <3>1. starts \in Nat /\ starts <= 1 /\ starts # 0
      BY <1>1, <2>3 DEF LivesType, FirstLife
    <3>2. Fresh
      BY <1>1, <3>1 DEF FirstLife
    <3> QED
      BY <1>2, <3>2, NoneLeft DEF Fresh, Claiming
  <2> QED
    BY <2>1, <2>2, <2>3, NeverAheadIs
<1>7. OrphanedByKill'
  BY <1>1, <1>2, StatusIs DEF OrphanedByKill
<1> QED
  BY <1>3, <1>4, <1>5, <1>6, <1>7 DEF LivesInv

\* A process that leaves takes its calls with it, and nothing is counted more.
LEMMA LeaveAhead ==
  ASSUME LivesInv, UNCHANGED <<memory, starts>>, writer' \in {writer, "off"},
         W' = W \/ W' = 0, R' = R \/ R' = 0
  PROVE  NeverAhead'
<1>1. /\ next_write_slot_ \in Nat /\ next_read_slot_ \in Nat /\ sem_read \in Nat
      /\ UNCHANGED <<next_write_slot_, next_read_slot_, sem_read, starts>>
  BY DEF LivesInv, LivesType, TypeOK, memory
<1>2. W' \in Nat /\ R' \in Nat /\ W' <= W /\ R' <= R
  BY CountsAreNat
<1> DEFINE v == W'
           u == R'
<1>3. v \in Nat /\ u \in Nat /\ v <= W /\ u <= R
  BY <1>2
<1> HIDE DEF v, u
<1>4. /\ sem_read + W <= next_write_slot_ => sem_read + v <= next_write_slot_
      /\ next_read_slot_ + sem_read + W + R <= next_write_slot_
           => next_read_slot_ + sem_read + v + u <= next_write_slot_
  BY <1>1, <1>3, CountsAreNat
<1>5. /\ writer' = "run" => sem_read + v <= next_write_slot_
      /\ starts <= 1 => next_read_slot_ + sem_read + v + u <= next_write_slot_
  BY <1>4, NeverAheadIs DEF LivesInv
<1> QED
  BY <1>1, <1>5, NeverAheadIs DEF v, u

\* The writer's process ends or is killed.
LEMMA LivesWriterLeaves ==
  ASSUME LivesInv, WriterExit \/ WriterKill
  PROVE  LivesInv'
<1> USE LivesThreads
<1>1. LivesType /\ Running /\ FirstLife /\ NeverAhead /\ OrphanedByKill
  BY DEF LivesInv
<1>2. /\ pc' = Off(WritingThreads) /\ writer' = "off" /\ writer # "off"
      /\ UNCHANGED <<memory, locals, name, reader, forgotten, starts>>
      /\ kills' = kills \/ kills' = kills + 1
  BY DEF WriterExit, WriterKill
<1>3. /\ \A t \in WritingThreads: pc'[t] = "off"
      /\ pc'[Reader] = pc[Reader]
      /\ pc' \in [Threads -> Points]
  BY <1>1, <1>2 DEF Off, LivesType, TypeOK, Points
<1>4. LivesType'
  BY <1>1, <1>2, <1>3 DEF LivesType, TypeOK, memory, locals
<1>5. Running'
  BY <1>1, <1>2, <1>3 DEF Running
<1>6. FirstLife'
  BY <1>1, <1>2, <1>3 DEF FirstLife, Fresh, Constructing, memory
<1>7. NeverAhead'
  BY <1>2, <1>3, NoneLeft, SameThreads, LeaveAhead DEF Posting
<1>8. OrphanedByKill'
  <2>1. CASE WriterExit
    <3>1. \A t \in WritingThreads: pc[t] = "end"
      BY <1>1, <2>1 DEF WriterExit, Running, Joined, WritingThreads
    <3>2. kills' = kills /\ rw_status' = rw_status
      BY <1>2, <2>1 DEF WriterExit, memory
    <3> QED
      BY <1>1, <1>3, <3>1, <3>2, StatusIs DEF OrphanedByKill
  <2>2. CASE WriterKill
    <3>1. kills' # 0
      BY <1>1, <2>2 DEF WriterKill, LivesType
    <3> QED
      BY <3>1 DEF OrphanedByKill
  <2> QED
    BY <2>1, <2>2
<1> QED
  BY <1>4, <1>5, <1>6, <1>7, <1>8 DEF LivesInv

\* The reader's process starts, faults, ends or is killed.
LEMMA LivesReaderMoves ==
  ASSUME LivesInv, ReaderShmOpen \/ ReadFault \/ ReaderExit \/ ReaderKill
  PROVE  LivesInv'
<1> USE LivesThreads DEF ReaderShmOpen, ReadFault, ReaderExit, ReaderKill
<1>1. LivesType /\ Running /\ FirstLife /\ NeverAhead /\ OrphanedByKill
  BY DEF LivesInv
<1>2. pc \in [Threads -> Points]
  BY <1>1 DEF LivesType, TypeOK
<1>3. /\ pc' \in [Threads -> Points]
      /\ \A t \in WritingThreads: pc'[t] = pc[t]
      /\ pc'[Reader] \notin Claiming
      /\ pc'[Reader] = "off" <=> reader' = "off"
      /\ UNCHANGED <<memory, i, writer, starts>>
  BY <1>2 DEF Off, Goto, Points, Claiming, locals
<1>4. LivesType'
  <2>1. 0 \in Slots
    BY BoundAssumption DEF Slots
  <2>2. seen' \in [Threads -> Nat] /\ slot' \in [Threads -> Slots]
    BY <1>1, <2>1 DEF LivesType, TypeOK, locals
  <2>3. should_continue' \in BOOLEAN /\ forgotten' \in BOOLEAN
    <3>1. /\ should_continue' = should_continue \/ should_continue' = TRUE
          /\ forgotten' = forgotten \/ forgotten' = FALSE
      BY Zenon DEF locals
    <3> QED
      BY <1>1, <3>1, Zenon DEF LivesType, TypeOK
  <2>4. TypeOK'
    BY <1>1, <1>3, <2>2, <2>3 DEF LivesType, TypeOK, memory
  <2>5. name' \in {name, "absent"} /\ reader' \in {"off", "run"} /\ kills' \in {kills, kills + 1}
    OBVIOUS
  <2> QED
    BY <1>1, <1>3, <2>3, <2>4, <2>5 DEF LivesType
<1>5. Running'
  BY <1>1, <1>3 DEF Running, Joined
<1>6. starts # 0
  BY <1>1, <1>2 DEF FirstLife, Running, Goto
<1>7. FirstLife'
  BY <1>1, <1>3, <1>6 DEF FirstLife, Fresh, Claiming, memory
<1>8. NeverAhead'
  BY <1>3, NoneLeft, SameThreads, LeaveAhead
<1>9. OrphanedByKill'
  <2>1. CASE ReaderShmOpen \/ ReadFault \/ ReaderExit
    <3>1. pc[Reader] \in {"off", "start", "end"} /\ kills' = kills /\ rw_status' = rw_status
      BY <1>1, <2>1 DEF Running, Goto, memory
    <3> QED
      BY <1>1, <1>3, <3>1, StatusIs DEF OrphanedByKill
  <2>2. CASE ReaderKill
    <3>1. kills' # 0
      BY <1>1, <2>2 DEF LivesType
    <3> QED
      BY <3>1 DEF OrphanedByKill
  <2> QED
    BY <2>1, <2>2
<1> QED
  BY <1>4, <1>5, <1>7, <1>8, <1>9 DEF LivesInv

LEMMA LivesStep ==
  ASSUME LivesInv, [LivesNext]_allVars
  PROVE  LivesInv'
<1>1. CASE (\E t \in WritingThreads: Write(t)) \/ Read
  BY <1>1, LivesThreadStep DEF Write, Read, Next
<1>2. CASE UNCHANGED allVars
  <2>1. UNCHANGED <<memory, pc, locals, lives>> /\ W' = W /\ R' = R
    BY <1>2, SameThreads DEF allVars, vars
  <2>2. NeverAhead'
    BY <2>1, LeaveAhead DEF lives
  <2>3. OrphanedByKill'
    BY <2>1, StatusIs DEF LivesInv, OrphanedByKill, memory, lives
  <2>4. LivesType' /\ Running' /\ FirstLife'
    BY <2>1 DEF LivesInv, LivesType, TypeOK, Running, Joined, FirstLife, Fresh, memory,
                locals, lives
  <2> QED
    BY <2>2, <2>3, <2>4 DEF LivesInv
<1> QED
  BY <1>1, <1>2, LivesConstructor, LivesRun, LivesWriterLeaves, LivesReaderMoves
     DEF LivesNext, WriterProcess, ReaderProcess

\* In a life of the writer there are never more tokens than values, and in the
\* first one the reader is never ahead, whatever starts and kills there are.
THEOREM ReaderNeverAhead == LivesSpec => []NeverAhead
<1>1. LivesInv => NeverAhead
  BY DEF LivesInv
<1> QED
  BY <1>1, LivesInitInv, LivesStep, PTL DEF LivesSpec

\* Only a kill leaves rw_status set with nobody to store IDLE.
THEOREM OnlyKillsOrphan == LivesSpec => []OrphanedByKill
<1>1. LivesInv => OrphanedByKill
  BY DEF LivesInv
<1> QED
  BY <1>1, LivesInitInv, LivesStep, PTL DEF LivesSpec
=============================================================================
