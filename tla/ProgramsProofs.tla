--------------------------- MODULE ProgramsProofs ---------------------------
(***************************************************************************)
(* Theorems about the small programs: PingPong alone, and each of the      *)
(* others as MCPrograms chooses it, for every value of their constants.    *)
(***************************************************************************)
EXTENDS MCPrograms, SequenceTheorems, FiniteSetTheorems, TLAPS

-----------------------------------------------------------------------------
(* PingPong, for any two different numbers of lines and any rounds.        *)

\* The invariant holds when the threads start.
LEMMA TurnsInit == Init => IndInv
BY NumAssumption, CountAssumption, ThreadsAssumption
   DEF Init, IndInv, TypeOK, LockInv, FlagInv, Turns, Threads, Holding, Ready, num

\* The invariant is preserved.
LEMMA TurnsStep ==
  ASSUME IndInv, [Next]_vars
  PROVE  IndInv'
<1> USE NumAssumption, CountAssumption, ThreadsAssumption
    DEF IndInv, TypeOK, LockInv, FlagInv, Turns, Threads, Holding, Ready, num
<1>1. ASSUME NEW t \in Threads, Lock(t)
      PROVE  IndInv'
  BY <1>1 DEF Lock
<1>2. ASSUME NEW t \in Threads, Spurious(t)
      PROVE  IndInv'
  BY <1>2 DEF Spurious
<1>3. ASSUME NEW t \in Threads, Wait(t)
      PROVE  IndInv'
  BY <1>3 DEF Wait
<1>4. ASSUME NEW t \in Threads, PrintLine(t)
      PROVE  IndInv'
  BY <1>4 DEF PrintLine
<1>5. ASSUME NEW t \in Threads, Flip(t)
      PROVE  IndInv'
  BY <1>5 DEF Flip
<1>6. ASSUME NEW t \in Threads, Notify(t)
      PROVE  IndInv'
  BY <1>6 DEF Notify, Woken, Other
<1>7. CASE UNCHANGED vars
  BY <1>7 DEF vars
<1> QED
  BY <1>1, <1>2, <1>3, <1>4, <1>5, <1>6, <1>7 DEF Next, fun

\* A step of a thread is a line, the end of a turn, or no change of the turns.
LEMMA TurnsAlternate ==
  ASSUME IndInv, [Next]_vars
  PROVE  [Alternating!Next]_(Alternating!vars)
<1> USE NumAssumption, CountAssumption, ThreadsAssumption
    DEF IndInv, TypeOK, LockInv, FlagInv, Turns, Threads, Holding, Ready, num
<1> DEFINE turn == Turns(Child) + Turns(Father)
<1>a. /\ flag = ChildNum => turn % 2 = 0
      /\ flag = FatherNum => turn % 2 = 1
  OBVIOUS
<1>1. ASSUME NEW t \in Threads, PrintLine(t)
      PROVE  Alternating!Say
  BY <1>1, <1>a DEF PrintLine, Alternating!Say, Alternating!Speaker, Lines
<1>2. ASSUME NEW t \in Threads, Flip(t)
      PROVE  Alternating!EndTurn
  BY <1>2, <1>a DEF Flip, Alternating!EndTurn, Alternating!Speaker, Lines
<1>3. ASSUME NEW t \in Threads, Lock(t) \/ Spurious(t) \/ Wait(t)
      PROVE  UNCHANGED Alternating!vars
  BY <1>3 DEF Lock, Spurious, Wait, Alternating!vars
<1>4. ASSUME NEW t \in Threads, Notify(t)
      PROVE  UNCHANGED Alternating!vars
  BY <1>4 DEF Notify, Woken, Other, Alternating!vars
<1>5. CASE UNCHANGED vars
  BY <1>5 DEF vars, Alternating!vars
<1> QED
  BY <1>1, <1>2, <1>3, <1>4, <1>5 DEF Next, fun, Alternating!Next

\* WakeInv relies on the invariant for the owner of the mutex and of the turn.
LEMMA WakeStep ==
  ASSUME IndInv, WakeInv, [Next]_vars
  PROVE  WakeInv'
<1> USE NumAssumption, CountAssumption, ThreadsAssumption
    DEF IndInv, TypeOK, LockInv, FlagInv, WakeInv, Threads, Holding, Ready, num, Other
<1>1. ASSUME NEW t \in Threads, Lock(t) \/ Spurious(t) \/ Wait(t) \/ PrintLine(t)
      PROVE  WakeInv'
  BY <1>1 DEF Lock, Spurious, Wait, PrintLine
<1>2. ASSUME NEW t \in Threads, Flip(t)
      PROVE  WakeInv'
  BY <1>2 DEF Flip
<1>3. ASSUME NEW t \in Threads, Notify(t)
      PROVE  WakeInv'
  BY <1>3 DEF Notify, Woken
<1>4. CASE UNCHANGED vars
  BY <1>4 DEF vars
<1> QED
  BY <1>1, <1>2, <1>3, <1>4 DEF Next, fun

\* TypeOK as a theorem: flag only takes the two values the threads wait for.
THEOREM TypeCorrect == Spec => []TypeOK
<1>1. IndInv => TypeOK
  BY DEF IndInv
<1> QED
  BY <1>1, TurnsInit, TurnsStep, PTL DEF Spec

\* The threads print strictly in turn, all the lines of a turn together, for any
\* numbers of lines and rounds.
THEOREM ImplementsAlternation == Spec => Alternates
<1>1. Init => Alternating!Init
  BY ThreadsAssumption DEF Init, Alternating!Init, Turns, Threads
<1> QED
  BY <1>1, TurnsInit, TurnsStep, TurnsAlternate, PTL
     DEF Spec, Alternates, Alternating!Spec

\* The notify_one of line 20 is never missed: a thread does not sleep in its own
\* turn while the mutex is free.
THEOREM WakeupsArrive == Spec => []NoLostWakeup
<1>1. Init => WakeInv
  BY DEF Init, WakeInv, Threads
<1>2. IndInv /\ WakeInv => NoLostWakeup
  BY ThreadsAssumption
     DEF IndInv, LockInv, WakeInv, NoLostWakeup, Threads, Holding, Other
<1> QED
  BY <1>1, <1>2, TurnsInit, TurnsStep, WakeStep, PTL DEF Spec

-----------------------------------------------------------------------------
(* The choice of a program: a step is one of each program or leaves it     *)
(* alone.                                                                  *)

LEMMA StepOfOne ==
  ASSUME [ProgramsNext]_programVars
  PROVE  /\ [Next]_vars /\ [Refs!Next]_refsVars /\ [Timeout!Next]_timerVars
         /\ [Queue!Next]_queueVars /\ [Map!Next]_mapVars /\ [File!Next]_fileVars
         /\ [Lazy!Next]_lazyVars /\ [Ring!Next]_ringVars
BY DEF ProgramsNext, PingPongNext, RefsNext, TimeoutNext, QueueNext, MapNext, FileNext,
       LazyNext, RingNext, programVars

-----------------------------------------------------------------------------
(* TimerThread.                                                            *)

LEMMA TimerInit == Timeout!Init => Timeout!IndInv
BY DEF Timeout!Init, Timeout!IndInv, Timeout!TypeOK, Timeout!NoFalseAlarm

LEMMA TimerStep == Timeout!IndInv /\ [Timeout!Next]_timerVars => Timeout!IndInv'
<1> SUFFICES ASSUME Timeout!IndInv, [Timeout!Next]_timerVars
             PROVE  Timeout!IndInv'
  OBVIOUS
<1> USE DEF Timeout!IndInv, Timeout!TypeOK, Timeout!NoFalseAlarm, Timeout!Goto
<1>1. CASE Timeout!Begin \/ Timeout!Test \/ Timeout!Wake
  BY <1>1 DEF Timeout!Begin, Timeout!Test, Timeout!Wake, Timeout!Awake
<1>2. CASE Timeout!Last
  BY <1>2 DEF Timeout!Last
<1>3. CASE Timeout!TimeOut
  BY <1>3 DEF Timeout!TimeOut
<1>4. CASE Timeout!Complete
  BY <1>4 DEF Timeout!Complete
<1>5. CASE Timeout!Notify
  BY <1>5 DEF Timeout!Notify, Timeout!Awake
<1>6. CASE UNCHANGED timerVars
  BY <1>6 DEF timerVars
<1> QED
  BY <1>1, <1>2, <1>3, <1>4, <1>5, <1>6 DEF Timeout!Next

\* A test completed in time is never reported as timed out, also if its
\* notification is lost.
THEOREM TimerRaisesNoFalseAlarm == ProgramsSpec => []NoFalseAlarm
<1>1. ProgramsInit => Timeout!IndInv
  BY TimerInit DEF ProgramsInit
<1>2. Timeout!IndInv /\ [ProgramsNext]_programVars => Timeout!IndInv'
  BY StepOfOne, TimerStep
<1>3. Timeout!IndInv => NoFalseAlarm
  BY DEF Timeout!IndInv, NoFalseAlarm
<1> QED
  BY <1>1, <1>2, <1>3, PTL DEF ProgramsSpec

-----------------------------------------------------------------------------
(* MappedFile, for any processes and any numbers of records.               *)

LEMMA FileInit == File!Init => File!IndInv
BY ProcessesAssumption, RecordsAssumption DEF File!Init, File!IndInv, File!TypeOK, File!StoredInv

LEMMA FileStep == File!IndInv /\ [File!Next]_fileVars => File!IndInv'
<1> SUFFICES ASSUME File!IndInv, [File!Next]_fileVars
             PROVE  File!IndInv'
  OBVIOUS
<1> USE ProcessesAssumption, RecordsAssumption
    DEF File!IndInv, File!TypeOK, File!StoredInv, File!Goto
<1>1. ASSUME NEW p \in Processes, File!Open(p)
      PROVE  File!IndInv'
  BY <1>1 DEF File!Open
<1>2. ASSUME NEW p \in Processes, File!Extend(p)
      PROVE  File!IndInv'
  BY <1>2 DEF File!Extend
<1>3. ASSUME NEW p \in Processes, File!StoreName(p)
      PROVE  File!IndInv'
  <2> USE <1>3 DEF File!StoreName, File!Store
  <2>0. record[p] \in 0 .. mem_struct_cnt - 1
    OBVIOUS
  <2>1. File!TypeOK'
    <3>1. named' \subseteq 0 .. mem_struct_cnt - 1
      BY <2>0
    <3> QED
      BY <3>1
  <2>2. File!StoredInv'
    OBVIOUS
  <2> QED
    BY <2>1, <2>2
<1>4. ASSUME NEW p \in Processes, File!StoreAge(p)
      PROVE  File!IndInv'
  <2> USE <1>4 DEF File!StoreAge, File!Store
  <2>0. record[p] \in 0 .. mem_struct_cnt - 1
    OBVIOUS
  <2>1. File!TypeOK'
    <3>1. aged' \subseteq 0 .. mem_struct_cnt - 1
      BY <2>0
    <3> QED
      BY <3>1
  <2>2. File!StoredInv'
    OBVIOUS
  <2> QED
    BY <2>1, <2>2
<1>5. ASSUME NEW p \in Processes, File!Fault(p) \/ File!Unmap(p) \/ File!Kill(p)
      PROVE  File!IndInv'
  BY <1>5 DEF File!Fault, File!Unmap, File!Kill
<1>6. CASE UNCHANGED fileVars
  BY <1>6 DEF fileVars
<1> QED
  BY <1>1, <1>2, <1>3, <1>4, <1>5, <1>6 DEF File!Next, File!Process

\* The process that emptied the file last leaves what it has stored, whoever else
\* stores or is killed.
THEOREM LastOneStandsInTheFile == ProgramsSpec => []LastOneStands
<1>1. ProgramsInit => File!IndInv
  BY FileInit DEF ProgramsInit
<1>2. File!IndInv /\ [ProgramsNext]_programVars => File!IndInv'
  BY StepOfOne, FileStep
<1>3. File!IndInv => LastOneStands
  BY RecordsAssumption
     DEF File!IndInv, File!TypeOK, File!StoredInv, File!InFile, File!LastOneStands, LastOneStands
<1> QED
  BY <1>1, <1>2, <1>3, PTL DEF ProgramsSpec

-----------------------------------------------------------------------------
(* QueueSingleton, for any callers.                                        *)

LEMMA MainCalls == /\ Len(Queue!Calls) = 6
                   /\ Queue!Calls[1] = "enqueue" /\ Queue!Calls[2] = "enqueue"
                   /\ Queue!Calls[3] = "enqueue" /\ Queue!Calls[4] = "size"
                   /\ Queue!Calls[5] = "dequeue" /\ Queue!Calls[6] = "size"
BY DEF Queue!Calls

LEMMA SameCardinality == \A S: Queue!Cardinality(S) = Cardinality(S)
BY DEF Queue!Cardinality, Cardinality

LEMMA LeftIsFinite == IsFiniteSet(Queue!Left)
<1>0. IsFiniteSet(1 .. 3)
  <2>1. 1 \in Int /\ 3 \in Int
    OBVIOUS
  <2> QED
    BY <2>1, FS_Interval, Zenon
<1>1. IsFiniteSet(Callers \X (1 .. 3))
  BY <1>0, CallersAssumption, FS_Product
<1> QED
  BY <1>1, FS_Subset DEF Queue!Left

LEMMA QueueInit == Queue!Init => Queue!IndInv
<1> SUFFICES ASSUME Queue!Init
             PROVE  Queue!IndInv
  OBVIOUS
<1> USE CallersAssumption, MainCalls DEF Queue!Init
<1>1. Queue!TypeOK /\ Queue!LockInv /\ Queue!ActsAsQueue
  BY DEF Queue!TypeOK, Queue!LockInv, Queue!ActsAsQueue
<1>2. Queue!Left = {}
  BY DEF Queue!Left, Queue!Balance
<1> QED
  BY <1>1, <1>2, SameCardinality, FS_EmptySet DEF Queue!IndInv

\* What the methods do to the elements that callers have left in the queue.
LEMMA LeftByEnqueue ==
  ASSUME Queue!TypeOK, NEW c \in Callers, Queue!Calling(c, "enqueue"),
         call' = [call EXCEPT ![c] = @ + 1]
  PROVE  Cardinality(Queue!Left') = Cardinality(Queue!Left) + 1
<1>1. call[c] \in 1 .. 3
  BY MainCalls DEF Queue!Calling, Queue!TypeOK
<1>2. /\ Queue!Left' = Queue!Left \cup {<<c, call[c]>>}
      /\ <<c, call[c]>> \notin Queue!Left
  BY <1>1, MainCalls DEF Queue!Left, Queue!Balance, Queue!TypeOK
<1> QED
  BY <1>2, LeftIsFinite, FS_AddElement

LEMMA LeftByDequeue ==
  ASSUME Queue!TypeOK, NEW c \in Callers, Queue!Calling(c, "dequeue")
  PROVE  /\ Cardinality(Queue!Left) \in Nat \ {0}
         /\ call' = [call EXCEPT ![c] = @ + 1]
              => Cardinality(Queue!Left') = Cardinality(Queue!Left) - 1
<1>1. call[c] = 5
  BY MainCalls DEF Queue!Calling, Queue!TypeOK
<1>2. <<c, 3>> \in Queue!Left
  BY <1>1 DEF Queue!Left, Queue!Balance
<1>3. call' = [call EXCEPT ![c] = @ + 1] => Queue!Left' = Queue!Left \ {<<c, 3>>}
  BY <1>1, MainCalls DEF Queue!Left, Queue!Balance, Queue!TypeOK
<1> QED
  BY <1>2, <1>3, LeftIsFinite, FS_RemoveElement, FS_EmptySet, FS_CardinalityType

LEMMA LeftBySize ==
  ASSUME Queue!TypeOK, NEW c \in Callers, Queue!Calling(c, "size"),
         call' = [call EXCEPT ![c] = @ + 1]
  PROVE  Queue!Left' = Queue!Left
<1>1. call[c] \in {4, 6}
  BY MainCalls DEF Queue!Calling, Queue!TypeOK
<1> QED
  BY <1>1, MainCalls DEF Queue!Left, Queue!Balance, Queue!TypeOK

LEMMA QueueCaller ==
  ASSUME Queue!IndInv, NEW c \in Callers, Queue!Caller(c)
  PROVE  Queue!IndInv'
<1> USE CallersAssumption, MainCalls, SameCardinality DEF Queue!IndInv
<1>1. CASE Queue!Lock(c)
  <2>1. Queue!TypeOK' /\ Queue!LockInv' /\ Queue!ActsAsQueue'
    BY <1>1 DEF Queue!Lock, Queue!TypeOK, Queue!LockInv, Queue!ActsAsQueue
  <2>2. Queue!Left' = Queue!Left /\ queue' = queue
    BY <1>1 DEF Queue!Lock, Queue!Left, Queue!Balance
  <2> QED
    BY <2>1, <2>2
<1>2. CASE Queue!enqueue(c)
  <2> DEFINE e == <<c, call[c]>>
  <2>0. e \in Queue!Elements
    BY <1>2 DEF Queue!enqueue, Queue!Calling, Queue!TypeOK, Queue!Elements
  <2>1. Queue!TypeOK'
    BY <1>2, <2>0 DEF Queue!enqueue, Queue!Return, Queue!Calling, Queue!TypeOK
  <2>2. Queue!LockInv'
    BY <1>2 DEF Queue!enqueue, Queue!Return, Queue!LockInv, Queue!TypeOK
  <2>3. Len(queue') = Cardinality(Queue!Left')
    <3>1. Cardinality(Queue!Left') = Cardinality(Queue!Left) + 1
      BY <1>2, LeftByEnqueue DEF Queue!enqueue, Queue!Return
    <3>2. Len(queue') = Len(queue) + 1
      BY <1>2 DEF Queue!enqueue, Queue!TypeOK
    <3> QED
      BY <3>1, <3>2
  <2>4. Queue!ActsAsQueue'
    <3>1. dequeued \o Append(queue, e) = Append(dequeued \o queue, e)
      <4>1. /\ dequeued \in Seq(Queue!Elements \cup {Undefined})
            /\ queue \in Seq(Queue!Elements \cup {Undefined})
        BY DEF Queue!TypeOK
      <4> HIDE DEF e
      <4> QED
        BY <4>1, <2>0
    <3> QED
      BY <1>2, <3>1 DEF Queue!enqueue, Queue!ActsAsQueue
  <2> QED
    BY <2>1, <2>2, <2>3, <2>4
<1>3. CASE Queue!size(c)
  <2>1. Queue!TypeOK' /\ Queue!LockInv' /\ Queue!ActsAsQueue'
    BY <1>3 DEF Queue!size, Queue!Return, Queue!Calling, Queue!TypeOK, Queue!LockInv,
                Queue!ActsAsQueue
  <2>2. Queue!Left' = Queue!Left /\ queue' = queue
    BY <1>3, LeftBySize DEF Queue!size, Queue!Return
  <2> QED
    BY <2>1, <2>2
<1>4. CASE Queue!front(c)
  <2>1. queue # <<>>
    BY <1>4, LeftByDequeue DEF Queue!front, Queue!TypeOK
  <2>2. Queue!TypeOK'
    BY <1>4, <2>1 DEF Queue!front, Queue!TypeOK
  <2>3. Queue!LockInv'
    BY <1>4, <2>1 DEF Queue!front, Queue!Calling, Queue!LockInv, Queue!TypeOK
  <2>4. Queue!Left' = Queue!Left /\ queue' = queue /\ Queue!ActsAsQueue'
    BY <1>4 DEF Queue!front, Queue!Left, Queue!Balance, Queue!ActsAsQueue
  <2> QED
    BY <2>2, <2>3, <2>4
<1>5. CASE Queue!pop(c)
  <2>0. /\ Queue!Calling(c, "dequeue") /\ mtx = c
        /\ queue # <<>> /\ frontElement[c] = Head(queue)
    BY <1>5 DEF Queue!pop, Queue!Calling, Queue!LockInv, Queue!TypeOK
  <2>1. /\ queue \in Seq(Queue!Elements) /\ Head(queue) \in Queue!Elements
        /\ Tail(queue) \in Seq(Queue!Elements)
    BY <2>0 DEF Queue!TypeOK
  <2>2. Queue!TypeOK'
    BY <1>5, <2>0, <2>1 DEF Queue!pop, Queue!Return, Queue!Calling, Queue!TypeOK
  <2>3. Queue!LockInv'
    BY <1>5, <2>0 DEF Queue!pop, Queue!Return, Queue!LockInv, Queue!TypeOK
  <2>4. Len(queue') = Cardinality(Queue!Left')
    <3>1. Cardinality(Queue!Left') = Cardinality(Queue!Left) - 1
      BY <1>5, <2>0, LeftByDequeue DEF Queue!pop, Queue!Return
    <3>2. Len(queue') = Len(queue) - 1
      BY <1>5, <2>0, <2>1 DEF Queue!pop
    <3> QED
      BY <3>1, <3>2
  <2>5. Queue!ActsAsQueue'
    <3>1. Append(dequeued, Head(queue)) \o Tail(queue) = dequeued \o queue
      <4>1. /\ dequeued \in Seq(Queue!Elements \cup {Undefined})
            /\ queue \in Seq(Queue!Elements \cup {Undefined})
        BY DEF Queue!TypeOK
      <4> QED
        BY <4>1, <2>0
    <3> QED
      BY <1>5, <2>0, <3>1 DEF Queue!pop, Queue!ActsAsQueue
  <2> QED
    BY <2>2, <2>3, <2>4, <2>5
<1> QED
  BY <1>1, <1>2, <1>3, <1>4, <1>5 DEF Queue!Caller

LEMMA QueueStep == Queue!IndInv /\ [Queue!Next]_queueVars => Queue!IndInv'
<1>1. ASSUME Queue!IndInv, UNCHANGED queueVars
      PROVE  Queue!IndInv'
  BY <1>1 DEF queueVars, Queue!IndInv, Queue!TypeOK, Queue!LockInv, Queue!Left, Queue!Balance,
              Queue!ActsAsQueue
<1> QED
  BY <1>1, QueueCaller DEF Queue!Next

\* The methods of the queue act as one step each, and no dequeue meets an empty
\* queue, however many callers interleave.
THEOREM LockedQueueActsAsQueue == ProgramsSpec => []ActsAsQueue
<1>1. ProgramsInit => Queue!IndInv
  BY QueueInit DEF ProgramsInit
<1>2. Queue!IndInv /\ [ProgramsNext]_programVars => Queue!IndInv'
  BY StepOfOne, QueueStep
<1>3. Queue!IndInv => ActsAsQueue
  BY DEF Queue!IndInv, ActsAsQueue
<1> QED
  BY <1>1, <1>2, <1>3, PTL DEF ProgramsSpec

-----------------------------------------------------------------------------
(* LazyInstance, for any number of threads.                                *)

LEMMA LazyInit == Lazy!Init => Lazy!IndInv
BY AskersAssumption
   DEF Lazy!Init, Lazy!IndInv, Lazy!TypeOK, Lazy!LockInv, Lazy!AliveInv, Lazy!OneInv, Lazy!EndInv,
       Lazy!OneInstance, Lazy!AnswersAreAlive, Lazy!Guarded, Lazy!Programs, Lazy!Pointers

\* The process dies as a whole; main is gone then, and the other variables stay.
LEMMA LazyCrash ==
  ASSUME Lazy!IndInv, NEW t \in Askers, Lazy!Crash(t)
  PROVE  Lazy!IndInv'
<1>1. /\ mainAt' = "dead" /\ asker' = [u \in Askers |-> "dead"]
      /\ UNCHANGED <<guard, m_SingleInstance, S_Mutex, alive, made, result>>
  BY DEF Lazy!Crash
<1>2. Lazy!TypeOK' /\ Lazy!LockInv'
  BY <1>1 DEF Lazy!IndInv, Lazy!TypeOK, Lazy!Pointers, Lazy!LockInv, Lazy!Guarded
<1>3. Lazy!AliveInv' /\ Lazy!OneInv' /\ Lazy!EndInv'
  BY <1>1 DEF Lazy!IndInv, Lazy!AliveInv, Lazy!OneInv, Lazy!EndInv
<1>4. Lazy!OneInstance' /\ Lazy!AnswersAreAlive'
  BY <1>1 DEF Lazy!IndInv, Lazy!OneInstance, Lazy!AnswersAreAlive
<1> QED
  BY <1>2, <1>3, <1>4 DEF Lazy!IndInv

\* The other steps of a thread.
LazyLives(t) == Lazy!Enter(t) \/ Lazy!Test(t) \/ Lazy!New(t) \/ Lazy!Assign(t) \/ Lazy!Return(t)
                  \/ Lazy!Finish(t)

\* A thread that takes a step has not ended, so that main still waits.
LEMMA LazyMainWaits ==
  ASSUME Lazy!IndInv, NEW t \in Askers, LazyLives(t)
  PROVE  /\ mainAt = "join" /\ mainAt' = "join" /\ guard' = guard
         /\ \A u \in Askers: asker[u] # "dead" /\ asker'[u] # "dead"
<1> USE DEF LazyLives, Lazy!IndInv, Lazy!EndInv, Lazy!TypeOK, Lazy!Joined, Lazy!Goto, Lazy!Enter, Lazy!EnterUnlocked,
       Lazy!EnterLocked, Lazy!EnterStatic, Lazy!Test, Lazy!New, Lazy!Assign, Lazy!Return, Lazy!Finish
<1>1. mainAt = "join" /\ mainAt' = "join" /\ guard' = guard
  OBVIOUS
<1>2. \A u \in Askers: asker[u] # "dead"
  BY <1>1
<1>3. \A u \in Askers: asker'[u] # "dead"
  BY <1>2
<1> QED
  BY <1>1, <1>2, <1>3

LEMMA LazyThread ==
  ASSUME Lazy!IndInv, NEW t \in Askers, LazyLives(t)
  PROVE  Lazy!IndInv'
<1> USE AskersAssumption
<1>0. /\ mainAt = "join" /\ mainAt' = "join" /\ guard' = guard
      /\ \A u \in Askers: asker[u] # "dead" /\ asker'[u] # "dead"
  BY LazyMainWaits
<1>1. Lazy!TypeOK'
  <2> USE DEF Lazy!IndInv, Lazy!TypeOK, Lazy!AliveInv, Lazy!Pointers, Lazy!Goto
  <2>1. CASE Lazy!Enter(t)
    BY <2>1 DEF Lazy!Enter, Lazy!EnterUnlocked, Lazy!EnterLocked, Lazy!EnterStatic
  <2>2. CASE Lazy!Test(t)
    BY <2>2 DEF Lazy!Test
  <2>3. CASE Lazy!New(t)
    BY <2>3 DEF Lazy!New
  <2>4. CASE Lazy!Assign(t)
    BY <2>4 DEF Lazy!Assign
  <2>5. CASE Lazy!Return(t)
    BY <2>5 DEF Lazy!Return
  <2>6. CASE Lazy!Finish(t)
    BY <2>6 DEF Lazy!Finish
  <2> QED
    BY <2>1, <2>2, <2>3, <2>4, <2>5, <2>6 DEF LazyLives
<1>2. Lazy!LockInv'
  <2> SUFFICES ASSUME Lazy!Guarded
               PROVE  Lazy!LockInv'
    BY <1>0 DEF Lazy!LockInv, Lazy!Guarded
  <2> USE <1>0 DEF Lazy!IndInv, Lazy!TypeOK, Lazy!LockInv, Lazy!AliveInv, Lazy!Guarded, Lazy!Programs, Lazy!Goto
  <2>1. CASE Lazy!Enter(t)
    BY <2>1 DEF Lazy!Enter, Lazy!EnterUnlocked, Lazy!EnterLocked, Lazy!EnterStatic
  <2>2. CASE Lazy!Test(t)
    BY <2>2 DEF Lazy!Test
  <2>3. CASE Lazy!New(t)
    BY <2>3 DEF Lazy!New
  <2>4. CASE Lazy!Assign(t)
    BY <2>4 DEF Lazy!Assign
  <2>5. CASE Lazy!Return(t)
    BY <2>5 DEF Lazy!Return
  <2>6. CASE Lazy!Finish(t)
    BY <2>6 DEF Lazy!Finish
  <2> QED
    BY <2>1, <2>2, <2>3, <2>4, <2>5, <2>6 DEF LazyLives
<1>3. Lazy!AliveInv'
  <2> USE <1>0 DEF Lazy!IndInv, Lazy!TypeOK, Lazy!AliveInv, Lazy!Goto
  <2>1. CASE Lazy!Enter(t)
    BY <2>1 DEF Lazy!Enter, Lazy!EnterUnlocked, Lazy!EnterLocked, Lazy!EnterStatic
  <2>2. CASE Lazy!Test(t)
    BY <2>2 DEF Lazy!Test
  <2>3. CASE Lazy!New(t)
    <3>1. /\ asker[t] = "new" /\ asker' = [asker EXCEPT ![t] = "assign"]
          /\ m_SingleInstance' = m_SingleInstance /\ result' = result
      BY <2>3 DEF Lazy!New
    <3>2. CASE made' = [made EXCEPT ![t] = t] /\ alive' = alive \cup {t}
      BY <3>1, <3>2
    <3>3. CASE made' = [made EXCEPT ![t] = NULL] /\ alive' = alive
      BY <3>1, <3>3
    <3> QED
      BY <2>3, <3>2, <3>3 DEF Lazy!New
  <2>4. CASE Lazy!Assign(t)
    BY <2>4 DEF Lazy!Assign
  <2>5. CASE Lazy!Return(t)
    BY <2>5 DEF Lazy!Return
  <2>6. CASE Lazy!Finish(t)
    BY <2>6 DEF Lazy!Finish
  <2> QED
    BY <2>1, <2>2, <2>3, <2>4, <2>5, <2>6 DEF LazyLives
<1>4. Lazy!OneInv'
  <2> SUFFICES ASSUME Lazy!Guarded
               PROVE  Lazy!OneInv'
    BY <1>0 DEF Lazy!OneInv, Lazy!Guarded
  <2> USE <1>0 DEF Lazy!IndInv, Lazy!TypeOK, Lazy!LockInv, Lazy!AliveInv, Lazy!OneInv, Lazy!Guarded, Lazy!Goto
  <2>1. CASE Lazy!Enter(t)
    BY <2>1 DEF Lazy!Enter, Lazy!EnterUnlocked, Lazy!EnterLocked, Lazy!EnterStatic
  <2>2. CASE Lazy!Test(t)
    BY <2>2 DEF Lazy!Test
  <2>3. CASE Lazy!New(t)
    BY <2>3 DEF Lazy!New
  <2>4. CASE Lazy!Assign(t)
    BY <2>4 DEF Lazy!Assign
  <2>5. CASE Lazy!Return(t)
    BY <2>5 DEF Lazy!Return
  <2>6. CASE Lazy!Finish(t)
    BY <2>6 DEF Lazy!Finish
  <2> QED
    BY <2>1, <2>2, <2>3, <2>4, <2>5, <2>6 DEF LazyLives
<1>5. Lazy!EndInv'
  BY <1>0 DEF Lazy!EndInv
<1>6. Lazy!OneInstance'
  BY <1>0, <1>1, <1>3, <1>4 DEF Lazy!OneInstance, Lazy!AliveInv, Lazy!OneInv, Lazy!TypeOK, Lazy!Guarded
<1>7. Lazy!AnswersAreAlive'
  <2> SUFFICES ASSUME Lazy!Guarded, NEW u \in Askers, asker'[u] = "print"
               PROVE  \/ result'[u] \in alive'
                      \/ guard' = "locked" /\ result'[u] = NULL /\ made'[u] = NULL
    BY <1>0 DEF Lazy!AnswersAreAlive, Lazy!Guarded
  <2>1. CASE Lazy!Return(t) /\ u = t
    BY <1>0, <2>1 DEF Lazy!Return, Lazy!Goto, Lazy!IndInv, Lazy!TypeOK, Lazy!LockInv, Lazy!AliveInv
  <2>2. CASE ~(Lazy!Return(t) /\ u = t)
    <3>1. asker[u] = "print" /\ u # t
      BY <2>2 DEF LazyLives, Lazy!IndInv, Lazy!TypeOK, Lazy!Enter, Lazy!EnterUnlocked, Lazy!EnterLocked,
         Lazy!EnterStatic, Lazy!Test, Lazy!New, Lazy!Assign, Lazy!Return, Lazy!Finish, Lazy!Goto
    <3>2. result'[u] = result[u] /\ made'[u] = made[u] /\ alive \subseteq alive'
      BY <3>1 DEF LazyLives, Lazy!IndInv, Lazy!TypeOK, Lazy!Enter, Lazy!EnterUnlocked, Lazy!EnterLocked,
         Lazy!EnterStatic, Lazy!Test, Lazy!New, Lazy!Assign, Lazy!Return, Lazy!Finish
    <3> QED
      BY <1>0, <3>1, <3>2 DEF Lazy!IndInv, Lazy!AnswersAreAlive, Lazy!Guarded
  <2> QED
    BY <2>1, <2>2
<1> QED
  BY <1>1, <1>2, <1>3, <1>4, <1>5, <1>6, <1>7 DEF Lazy!IndInv

LEMMA LazyMain ==
  ASSUME Lazy!IndInv, Lazy!deleteInstance
  PROVE  Lazy!IndInv'
<1>0. \A t \in Askers: asker[t] = "end" /\ asker'[t] = "end"
  BY DEF Lazy!deleteInstance, Lazy!Joined
<1>1. Lazy!TypeOK' /\ Lazy!LockInv'
  BY <1>0 DEF Lazy!IndInv, Lazy!TypeOK, Lazy!LockInv, Lazy!Guarded, Lazy!Pointers, Lazy!deleteInstance
<1>2. Lazy!AliveInv' /\ Lazy!OneInv'
  BY DEF Lazy!IndInv, Lazy!AliveInv, Lazy!OneInv, Lazy!deleteInstance
<1>3. Lazy!EndInv'
  BY <1>0 DEF Lazy!IndInv, Lazy!TypeOK, Lazy!AliveInv, Lazy!OneInv, Lazy!EndInv, Lazy!Guarded, Lazy!Joined, Lazy!deleteInstance
<1>4. Lazy!OneInstance'
  BY DEF Lazy!IndInv, Lazy!OneInstance, Lazy!deleteInstance
<1>5. Lazy!AnswersAreAlive'
  BY <1>0 DEF Lazy!AnswersAreAlive
<1> QED
  BY <1>1, <1>2, <1>3, <1>4, <1>5 DEF Lazy!IndInv

LEMMA LazyStep == Lazy!IndInv /\ [Lazy!Next]_lazyVars => Lazy!IndInv'
<1> SUFFICES ASSUME Lazy!IndInv, [Lazy!Next]_lazyVars
             PROVE  Lazy!IndInv'
  OBVIOUS
<1>1. CASE UNCHANGED lazyVars
  BY <1>1 DEF lazyVars, Lazy!IndInv, Lazy!TypeOK, Lazy!LockInv, Lazy!AliveInv, Lazy!OneInv, Lazy!EndInv, Lazy!OneInstance,
              Lazy!AnswersAreAlive, Lazy!Guarded, Lazy!Joined
<1> QED
  BY <1>1, LazyThread, LazyCrash, LazyMain
     DEF LazyLives, Lazy!PrintHello, Lazy!Next, Lazy!Done, Lazy!vars, lazyVars

LEMMA LazyInvariant == ProgramsSpec => []Lazy!IndInv
<1>1. ProgramsInit => Lazy!IndInv
  BY LazyInit DEF ProgramsInit
<1>2. Lazy!IndInv /\ [ProgramsNext]_programVars => Lazy!IndInv'
  BY StepOfOne, LazyStep
<1> QED
  BY <1>1, <1>2, PTL DEF ProgramsSpec

\* With a mutex or a static local variable one instance is made at most, also if
\* new fails for some of the threads, and all threads that get one get the same.
THEOREM OnlyOne == ProgramsSpec => []OneInstance
<1>1. Lazy!IndInv => OneInstance
  BY DEF Lazy!IndInv, OneInstance
<1> QED
  BY <1>1, LazyInvariant, PTL

\* With a mutex or a static local variable a thread is handed a live instance, or
\* NULL, and that only where its own new has failed.
THEOREM HandsOutTheLiving == ProgramsSpec => []AnswersAreAlive
<1>1. Lazy!IndInv => AnswersAreAlive
  BY DEF Lazy!IndInv, AnswersAreAlive
<1> QED
  BY <1>1, LazyInvariant, PTL

\* When main of a guarded program has returned no instance is left.
THEOREM LeavesNothing == ProgramsSpec => []NothingLeaks
<1>1. Lazy!IndInv => NothingLeaks
  BY DEF Lazy!IndInv, Lazy!EndInv, Lazy!Guarded, Lazy!NothingLeaks, NothingLeaks
<1> QED
  BY <1>1, LazyInvariant, PTL
-----------------------------------------------------------------------------
(* MapKeys, for any arrays, characters, strings and mapped values.         *)

\* What is said by induction elsewhere is said here of a least number.
LEMMA LeastNatural ==
  ASSUME NEW T, T \subseteq Nat, T # {}
  PROVE  \E x \in T: \A y \in T: x <= y
<1> DEFINE Less == {s \in Nat \X Nat: s[1] < s[2]}
<1>1. IsWellFoundedOn(Less, Nat)
  BY NatLessThanWellFounded DEF OpToRel
<1>2. \E x \in T: \A y \in T: <<y, x>> \notin Less
  <2> HIDE DEF Less
  <2> QED
    BY <1>1, WFMin
<1>3. PICK x \in T: \A y \in T: <<y, x>> \notin Less
  BY <1>2
<1>4. ASSUME NEW y \in T
      PROVE  x <= y
  <2>1. x \in Nat /\ y \in Nat /\ <<y, x>> \in Nat \X Nat
    OBVIOUS
  <2>2. ~(y < x)
    BY <1>3, <2>1
  <2> QED
    BY <2>1, <2>2
<1> QED
  BY <1>4

Arrays == {a \in [Map!Indices -> Chars]: Map!FilledUp(a)}

\* Texts that differ agree up to a character, which ends at most one of them.
LEMMA FirstDifference ==
  ASSUME NEW x \in Arrays, NEW y \in Arrays, x # y
  PROVE  \E n \in Map!Indices: /\ Map!AgreeBefore(x, y, n) /\ Map!AgreeBefore(y, x, n)
                               /\ x[n] # y[n]
<1> USE KeysAssumption DEF Arrays, Map!Indices, Map!FilledUp, Map!AgreeBefore
<1> DEFINE T == {n \in Map!Indices: x[n] # y[n]}
<1>1. T \subseteq Nat /\ T # {}
  OBVIOUS
<1>2. \E n \in T: \A m \in T: n <= m
  <2> HIDE DEF T
  <2> QED
    BY <1>1, LeastNatural
<1>3. PICK n \in T: \A m \in T: n <= m
  BY <1>2
<1>4. ASSUME NEW m \in 1 .. n - 1
      PROVE  x[m] = y[m] /\ x[m] # 0
  <2>1. m \in Map!Indices /\ n \in Map!Indices /\ m < n /\ m \notin T
    BY <1>3
  <2>2. x[m] = y[m]
    BY <2>1
  <2>3. x[m] = 0 => x[n] = 0 /\ y[n] = 0
    BY <2>1, <2>2
  <2> QED
    BY <1>3, <2>2, <2>3
<1> QED
  BY <1>3, <1>4

\* std::strncmp orders the arrays totally, and finds equal only what is.
LEMMA CmpIsOrder ==
  ASSUME NEW x \in Arrays, NEW y \in Arrays
  PROVE  /\ Map!CmpEqual(x, y) <=> x = y
         /\ ~Map!CmpLess(x, x)
         /\ x # y => Map!CmpLess(x, y) \/ Map!CmpLess(y, x)
<1>1. Map!CmpEqual(x, y) <=> x = y
  BY FirstDifference DEF Map!CmpEqual
<1>2. ~Map!CmpLess(x, x)
  <2>1. \A n \in Map!Indices: x[n] \in Nat
    BY KeysAssumption DEF Arrays
  <2>2. \A n \in Map!Indices: ~(x[n] < x[n])
    BY <2>1
  <2> QED
    BY <2>2 DEF Map!CmpLess
<1>3. ASSUME x # y
      PROVE  Map!CmpLess(x, y) \/ Map!CmpLess(y, x)
  <2>1. PICK n \in Map!Indices: /\ Map!AgreeBefore(x, y, n) /\ Map!AgreeBefore(y, x, n)
                                /\ x[n] # y[n]
    BY <1>3, FirstDifference
  <2>2. x[n] \in Nat /\ y[n] \in Nat
    BY KeysAssumption DEF Arrays
  <2>3. x[n] < y[n] \/ y[n] < x[n]
    BY <2>1, <2>2
  <2> QED
    BY <2>1, <2>3 DEF Map!CmpLess
<1> QED
  BY <1>1, <1>2, <1>3

LEMMA CmpTransitive ==
  ASSUME NEW x \in Arrays, NEW y \in Arrays, NEW z \in Arrays,
         Map!CmpLess(x, y), Map!CmpLess(y, z)
  PROVE  Map!CmpLess(x, z)
<1> USE KeysAssumption DEF Map!Indices, Arrays
<1>1. PICK n \in Map!Indices: Map!AgreeBefore(x, y, n) /\ x[n] < y[n]
  BY DEF Map!CmpLess
<1>2. PICK m \in Map!Indices: Map!AgreeBefore(y, z, m) /\ y[m] < z[m]
  BY DEF Map!CmpLess
<1>3. \A p \in Map!Indices: x[p] \in Nat /\ y[p] \in Nat /\ z[p] \in Nat
  OBVIOUS
<1>4. CASE n <= m
  <2>1. Map!AgreeBefore(x, z, n)
    BY <1>1, <1>2, <1>4 DEF Map!AgreeBefore
  <2>2. y[n] <= z[n]
    <3>1. CASE n = m
      BY <1>2, <1>3, <3>1
    <3>2. CASE n < m
      <4>1. y[n] = z[n]
        BY <1>2, <3>2 DEF Map!AgreeBefore
      <4> QED
        BY <1>3, <4>1
    <3> QED
      BY <1>4, <3>1, <3>2
  <2>3. x[n] < z[n]
    BY <1>1, <1>3, <2>2
  <2> QED
    BY <2>1, <2>3 DEF Map!CmpLess
<1>5. CASE m < n
  <2>1. Map!AgreeBefore(x, z, m)
    BY <1>1, <1>2, <1>5 DEF Map!AgreeBefore
  <2>2. x[m] = y[m]
    BY <1>1, <1>5 DEF Map!AgreeBefore
  <2>3. x[m] < z[m]
    BY <1>2, <1>3, <2>2
  <2> QED
    BY <2>1, <2>3 DEF Map!CmpLess
<1> QED
  BY <1>4, <1>5

LEMMA KeyIsItsFields ==
  ASSUME NEW k \in Map!Keys, NEW l \in Map!Keys
  PROVE  /\ k.a \in Arrays /\ k.b \in Nat
         /\ k = l <=> k.a = l.a /\ k.b = l.b
<1>1. /\ k \in [a: [Map!Indices -> Chars], b: Strings] /\ Map!FilledUp(k.a)
      /\ l \in [a: [Map!Indices -> Chars], b: Strings]
  BY DEF Map!Keys
<1>2. k.a \in [Map!Indices -> Chars] /\ k.b \in Strings
  BY <1>1
<1>3. k = [a |-> k.a, b |-> k.b] /\ l = [a |-> l.a, b |-> l.b]
  BY <1>1
<1>4. k.a \in Arrays /\ k.b \in Nat
  BY <1>1, <1>2, KeysAssumption DEF Arrays
<1>5. k = l <=> k.a = l.a /\ k.b = l.b
  BY <1>3
<1> QED
  BY <1>4, <1>5

\* operator< is a strict total order of the keys, as std::map requires.
LEMMA KeyLessIsOrder ==
  ASSUME NEW k \in Map!Keys, NEW l \in Map!Keys
  PROVE  /\ ~Map!KeyLess(k, k)
         /\ k # l => Map!KeyLess(k, l) \/ Map!KeyLess(l, k)
<1>1. k.a \in Arrays /\ l.a \in Arrays /\ k.b \in Nat /\ l.b \in Nat
  BY KeyIsItsFields
<1>2. ~Map!KeyLess(k, k)
  BY <1>1, CmpIsOrder DEF Map!KeyLess
<1>3. CASE k.a # l.a
  BY <1>1, <1>3, CmpIsOrder DEF Map!KeyLess
<1>4. CASE k.a = l.a
  <2>1. k # l => k.b # l.b
    BY <1>4, KeyIsItsFields
  <2>2. Map!CmpEqual(k.a, l.a) /\ Map!CmpEqual(l.a, k.a)
    BY <1>1, <1>4, CmpIsOrder
  <2> QED
    BY <1>1, <1>2, <2>1, <2>2 DEF Map!KeyLess
<1> QED
  BY <1>2, <1>3, <1>4

LEMMA KeyLessTransitive ==
  ASSUME NEW k \in Map!Keys, NEW l \in Map!Keys, NEW m \in Map!Keys,
         Map!KeyLess(k, l), Map!KeyLess(l, m)
  PROVE  Map!KeyLess(k, m)
<1>1. /\ k.a \in Arrays /\ l.a \in Arrays /\ m.a \in Arrays
      /\ k.b \in Nat /\ l.b \in Nat /\ m.b \in Nat
  BY KeyIsItsFields
<1>2. /\ Map!CmpLess(k.a, l.a) \/ (k.a = l.a /\ k.b < l.b)
      /\ Map!CmpLess(l.a, m.a) \/ (l.a = m.a /\ l.b < m.b)
  BY <1>1, CmpIsOrder DEF Map!KeyLess
<1>3. CASE Map!CmpLess(k.a, l.a) /\ Map!CmpLess(l.a, m.a)
  BY <1>1, <1>3, CmpTransitive DEF Map!KeyLess
<1>4. CASE k.a = l.a /\ k.b < l.b /\ l.a = m.a /\ l.b < m.b
  <2>1. Map!CmpEqual(k.a, m.a) /\ k.b < m.b
    BY <1>1, <1>4, CmpIsOrder
  <2> QED
    BY <2>1 DEF Map!KeyLess
<1> QED
  BY <1>2, <1>3, <1>4 DEF Map!KeyLess

\* KeyHash and operator== tell the same keys apart as operator<.
LEMMA KeyEqualIsEquality ==
  ASSUME NEW k \in Map!Keys, NEW l \in Map!Keys
  PROVE  Map!KeyHash(k) = Map!KeyHash(l) /\ Map!KeyEqual(k, l) <=> k = l
BY KeyIsItsFields, CmpIsOrder DEF Map!KeyHash, Map!KeyEqual

\* What the two containers ask of the functions they are given (operator<,
\* operator== and KeyHash, lines 13-31): operator< is a strict order in which any
\* two keys that operator== tells apart are ordered, and equal keys hash alike,
\* although KeyHash reads characters behind the NUL and the comparisons do not.
THEOREM OperatorsAgree ==
  ASSUME NEW k \in Map!Keys, NEW l \in Map!Keys, NEW m \in Map!Keys
  PROVE  /\ ~(Map!KeyLess(k, l) /\ Map!KeyLess(l, k))
         /\ Map!KeyLess(k, l) /\ Map!KeyLess(l, m) => Map!KeyLess(k, m)
         /\ Map!KeyEqual(k, l) <=> ~Map!KeyLess(k, l) /\ ~Map!KeyLess(l, k)
         /\ Map!KeyEqual(k, l) => Map!KeyHash(k) = Map!KeyHash(l)
<1>1. ~(Map!KeyLess(k, l) /\ Map!KeyLess(l, k))
  BY KeyLessIsOrder, KeyLessTransitive
<1>2. Map!KeyEqual(k, l) <=> k = l
  BY KeyIsItsFields, CmpIsOrder DEF Map!KeyEqual
<1>3. k = l <=> ~Map!KeyLess(k, l) /\ ~Map!KeyLess(l, k)
  BY KeyLessIsOrder
<1> QED
  BY <1>1, <1>2, <1>3, KeyLessTransitive

Entries == [key: Map!Keys, value: Mapped]

LEMMA Inserted ==
  ASSUME NEW s \in Seq(Entries), NEW n \in 1 .. Len(s) + 1, NEW e \in Entries
  PROVE  /\ Map!InsertAt(s, n, e) \in Seq(Entries)
         /\ Len(Map!InsertAt(s, n, e)) = Len(s) + 1
         /\ \A m \in 1 .. Len(s) + 1:
              Map!InsertAt(s, n, e)[m] = IF m < n THEN s[m] ELSE IF m = n THEN e ELSE s[m - 1]
<1> DEFINE u == SubSeq(s, 1, n - 1)
           w == SubSeq(s, n, Len(s))
<1>1. Len(s) \in Nat /\ n \in Nat
  OBVIOUS
<1>2. u \in Seq(Entries) /\ Len(u) = n - 1 /\ \A m \in 1 .. n - 1: u[m] = s[m]
  <2>1. \A m \in 1 .. n - 1: m \in 1 .. Len(s)
    OBVIOUS
  <2>2. \A m \in 1 .. n - 1: s[m] \in Entries
    BY <2>1, ElementOfSeq
  <2>3. 1 \in Int /\ n - 1 \in Int /\ (1 > n - 1 => n - 1 = 0)
    BY <1>1
  <2>4. u \in Seq(Entries)
    BY <1>1, <2>2, SubSeqProperties
  <2>5. Len(u) = n - 1
    BY <1>1, <2>1, SubSeqProperties
  <2> QED
    BY <1>1, <2>1, <2>4, <2>5, SubSeqProperties
<1>3. w \in Seq(Entries) /\ Len(w) = Len(s) - n + 1
      /\ \A m \in 1 .. Len(s) - n + 1: w[m] = s[m + n - 1]
  BY <1>1, SubSeqProperties
<1> DEFINE x == u \o <<e>>
           z == x \o w
<1>4. <<e>> \in Seq(Entries) /\ Len(<<e>>) = 1 /\ <<e>>[1] = e
  OBVIOUS
<1> HIDE DEF u, w
<1>5. x \in Seq(Entries) /\ Len(x) = n
      /\ \A m \in 1 .. n: x[m] = IF m < n THEN s[m] ELSE e
  <2>1. x \in Seq(Entries)
    BY <1>2, <1>4, ConcatProperties
  <2>2. Len(x) = n
    BY <1>1, <1>2, <1>4, ConcatProperties
  <2>3. \A m \in 1 .. n: x[m] = IF m <= n - 1 THEN u[m] ELSE <<e>>[m - (n - 1)]
    BY <1>1, <1>2, <1>4, ConcatProperties
  <2> QED
    BY <1>1, <1>2, <1>4, <2>1, <2>2, <2>3
<1> HIDE DEF x
<1>6. z \in Seq(Entries) /\ Len(z) = Len(s) + 1
      /\ \A m \in 1 .. Len(s) + 1: z[m] = IF m <= n THEN x[m] ELSE w[m - n]
  <2>1. x \in Seq(Entries) /\ w \in Seq(Entries)
    BY <1>3, <1>5
  <2>2. Len(x) + Len(w) = Len(s) + 1
    BY <1>1, <1>3, <1>5
  <2>3. /\ z \in Seq(Entries) /\ Len(z) = Len(x) + Len(w)
        /\ \A m \in 1 .. Len(x) + Len(w): z[m] = IF m <= Len(x) THEN x[m] ELSE w[m - Len(x)]
    BY <2>1, ConcatProperties
  <2> QED
    BY <1>5, <2>2, <2>3
<1> HIDE DEF z
<1>7. ASSUME NEW m \in 1 .. Len(s) + 1
      PROVE  z[m] = IF m < n THEN s[m] ELSE IF m = n THEN e ELSE s[m - 1]
  <2>1. CASE m <= n
    BY <1>1, <1>5, <1>6, <2>1
  <2>2. CASE m > n
    <3>1. m - n \in 1 .. Len(s) - n + 1 /\ m - n + n - 1 = m - 1
      BY <1>1, <2>2
    <3>2. z[m] = w[m - n] /\ w[m - n] = s[m - n + n - 1]
      BY <1>1, <1>3, <1>6, <2>2, <3>1
    <3> QED
      BY <1>1, <2>2, <3>1, <3>2
  <2>3. m <= n \/ m > n
    BY <1>1
  <2> QED
    BY <2>1, <2>2, <2>3
<1>8. Map!InsertAt(s, n, e) = z
  BY DEF Map!InsertAt, z, x, u, w
<1> QED
  BY <1>6, <1>7, <1>8

\* An assignment that finds the key's own entry, or a place for it among the rest,
\* leaves every map as it was told.
LEMMA MapAssigns ==
  ASSUME Map!IndInv, NEW k \in Map!Keys, NEW v \in Mapped,
         NEW found, found = {m \in DOMAIN contents: contents[m].key = k},
         NEW n \in 1 .. Len(contents) + 1,
         found = {} /\ container = "map" =>
            \A m \in DOMAIN contents: /\ m < n => Map!KeyLess(contents[m].key, k)
                                      /\ m >= n => Map!KeyLess(k, contents[m].key),
         Map!AssignAt(found, n, k, v)
  PROVE  Map!IndInv'
<1> DEFINE e == Map!Entry(k, v)
           s == contents
           t == contents'
<1>1. /\ s \in Seq(Entries) /\ DOMAIN s = 1 .. Len(s) /\ Len(s) \in Nat
      /\ \A m \in DOMAIN s: s[m] \in Entries /\ s[m].key \in Map!Keys
  <2>1. s \in Seq(Entries)
    BY DEF Map!IndInv, Map!TypeOK, Entries
  <2>2. DOMAIN s = 1 .. Len(s) /\ Len(s) \in Nat /\ \A m \in DOMAIN s: s[m] \in Entries
    BY <2>1, LenProperties, ElementOfSeq
  <2> QED
    BY <2>1, <2>2 DEF Entries
<1>2. e \in Entries /\ e.key = k /\ e.value = v
  BY DEF Map!Entry, Entries
<1>3. /\ told \in [Map!Keys -> Mapped \cup {Nothing}] /\ told' = [told EXCEPT ![k] = v]
      /\ container \in {"map", "unordered_map"} /\ container' = container
  BY DEF Map!IndInv, Map!TypeOK, Map!AssignAt
<1>4. /\ told' \in [Map!Keys -> Mapped \cup {Nothing}] /\ told'[k] = v
      /\ \A l \in Map!Keys: l # k => told'[l] = told[l]
  BY <1>3
<1>5. /\ \A m, p \in DOMAIN s: m < p => s[m].key # s[p].key
      /\ container = "map" => \A m, p \in DOMAIN s: m < p => Map!KeyLess(s[m].key, s[p].key)
      /\ \A m \in DOMAIN s: s[m].value = told[s[m].key]
      /\ \A l \in Map!Keys: told[l] # Nothing => \E m \in DOMAIN s: s[m].key = l
  BY DEF Map!IndInv, Map!Sorted, Map!AsTold
<1>6. SUFFICES /\ t \in Seq(Entries)
               /\ \A m, p \in DOMAIN t: m < p => t[m].key # t[p].key
               /\ container = "map" => \A m, p \in DOMAIN t: m < p => Map!KeyLess(t[m].key, t[p].key)
               /\ \A m \in DOMAIN t: t[m].value = told'[t[m].key]
               /\ \A l \in Map!Keys: told'[l] # Nothing => \E m \in DOMAIN t: t[m].key = l
  <2> USE <1>3, <1>4
  <2>1. ASSUME \A m, p \in DOMAIN t: m < p => t[m].key # t[p].key,
               container = "map" => \A m, p \in DOMAIN t: m < p => Map!KeyLess(t[m].key, t[p].key)
        PROVE  Map!Sorted'
    BY <2>1 DEF Map!Sorted
  <2>2. ASSUME \A m \in DOMAIN t: t[m].value = told'[t[m].key],
               \A l \in Map!Keys: told'[l] # Nothing => \E m \in DOMAIN t: t[m].key = l
        PROVE  Map!AsTold'
    BY <2>2 DEF Map!AsTold, Map!Keys, Map!FilledUp, Map!Indices
  <2>3. ASSUME t \in Seq(Entries)
        PROVE  Map!TypeOK'
    BY <2>3 DEF Map!TypeOK, Entries, Map!Keys, Map!FilledUp, Map!Indices
  <2> QED
    BY <2>1, <2>2, <2>3 DEF Map!IndInv
<1>7. CASE found # {}
  <2>1. t = [m \in DOMAIN s |-> IF m \in found THEN Map!Entry(s[m].key, v) ELSE s[m]]
    BY <1>7 DEF Map!AssignAt
  <2>2. DOMAIN t = DOMAIN s
    BY <2>1
  <2>3. \A m \in DOMAIN s: /\ t[m] \in Entries /\ t[m].key = s[m].key
                           /\ t[m].value = IF s[m].key = k THEN v ELSE s[m].value
    BY <1>1, <2>1 DEF Entries, Map!Entry
  <2>4. t \in Seq(Entries)
    <3>1. t \in [1 .. Len(s) -> Entries]
      BY <1>1, <2>1, <2>3
    <3> QED
      BY <1>1, <3>1
  <2> HIDE DEF t, s, e
  <2>5. \A m \in DOMAIN t: t[m].value = told'[t[m].key]
    BY <1>1, <1>4, <1>5, <2>2, <2>3
  <2>6. \E m \in DOMAIN t: t[m].key = k
    BY <1>7, <2>2, <2>3 DEF s
  <2>7. \A l \in Map!Keys: told'[l] # Nothing => \E m \in DOMAIN t: t[m].key = l
    BY <1>4, <1>5, <2>2, <2>3, <2>6
  <2> QED
    BY <1>5, <2>2, <2>3, <2>4, <2>5, <2>7 DEF t, s
<1>8. CASE found = {}
  <2>0. t = Map!InsertAt(s, n, e)
    BY <1>8 DEF Map!AssignAt
  <2> DEFINE old(m) == IF m < n THEN m ELSE m - 1
  <2>1. /\ t \in Seq(Entries) /\ Len(t) = Len(s) + 1
        /\ \A m \in 1 .. Len(s) + 1:
             t[m] = IF m < n THEN s[m] ELSE IF m = n THEN e ELSE s[m - 1]
    <3>1. n \in 1 .. Len(s) + 1
      OBVIOUS
    <3>2. s \in Seq(Entries) /\ e \in Entries
      BY <1>1, <1>2
    <3> HIDE DEF t, s, e
    <3>3. Map!InsertAt(s, n, e) \in Seq(Entries)
      BY <3>1, <3>2, Inserted
    <3>4. Len(Map!InsertAt(s, n, e)) = Len(s) + 1
      BY <3>1, <3>2, Inserted
    <3>5. \A m \in 1 .. Len(s) + 1:
             Map!InsertAt(s, n, e)[m] = IF m < n THEN s[m] ELSE IF m = n THEN e ELSE s[m - 1]
      BY <3>1, <3>2, Inserted
    <3> QED
      BY <2>0, <3>3, <3>4, <3>5
  <2>2. DOMAIN t = 1 .. Len(s) + 1
    BY <2>1, LenProperties
  <2> HIDE DEF t, s, e
  <2>3. \A m \in DOMAIN s: s[m].key # k
    BY <1>8 DEF s
  <2>4. n \in Nat /\ n \in DOMAIN t /\ t[n] = e
    BY <1>1, <2>1, <2>2 DEF s
  <2>5. \A m \in DOMAIN t: m # n => old(m) \in DOMAIN s /\ t[m] = s[old(m)]
    BY <1>1, <2>1, <2>2, <2>4
  <2>6. \A m, p \in DOMAIN t: m < p /\ m # n /\ p # n => old(m) < old(p)
    BY <1>1, <2>2, <2>4
  <2>7. \A m \in DOMAIN t: (m < n => old(m) < n) /\ (m > n => old(m) >= n)
    BY <1>1, <2>2, <2>4
  <2>8. \A m \in DOMAIN s: \E p \in DOMAIN t: t[p] = s[m]
    <3> TAKE m \in DOMAIN s
    <3>1. CASE m < n
      <4>1. m \in DOMAIN t /\ t[m] = s[m]
        BY <1>1, <2>1, <2>2, <3>1
      <4> QED
        BY <4>1
    <3>2. CASE m >= n
      <4>1. m + 1 \in 1 .. Len(s) + 1 /\ ~(m + 1 < n) /\ m + 1 # n /\ m + 1 - 1 = m
        BY <1>1, <2>4, <3>2
      <4>2. m + 1 \in DOMAIN t /\ t[m + 1] = s[m]
        BY <2>1, <2>2, <4>1
      <4> QED
        BY <4>2
    <3>3. m < n \/ m >= n
      BY <1>1, <2>4
    <3> QED
      BY <3>1, <3>2, <3>3
  <2> HIDE DEF old
  <2>9. \A m, p \in DOMAIN t: m < p => t[m].key # t[p].key
    <3> TAKE m, p \in DOMAIN t
    <3> HAVE m < p
    <3>1. CASE m # n /\ p # n
      BY <1>5, <2>5, <2>6, <3>1
    <3>2. CASE m = n /\ p # n
      BY <1>2, <2>3, <2>4, <2>5, <3>2
    <3>3. CASE m # n /\ p = n
      BY <1>2, <2>3, <2>4, <2>5, <3>3
    <3>4. ~(m = n /\ p = n)
      BY <2>4
    <3> QED
      BY <3>1, <3>2, <3>3, <3>4
  <2>10. ASSUME container = "map", NEW m \in DOMAIN t, NEW p \in DOMAIN t, m < p
         PROVE  Map!KeyLess(t[m].key, t[p].key)
    <3>0. \A q \in DOMAIN s: /\ q < n => Map!KeyLess(s[q].key, k)
                             /\ q >= n => Map!KeyLess(k, s[q].key)
      BY <1>8, <2>10 DEF s
    <3>1. CASE m # n /\ p # n
      <4>1. old(m) \in DOMAIN s /\ old(p) \in DOMAIN s /\ old(m) < old(p)
            /\ t[m] = s[old(m)] /\ t[p] = s[old(p)]
        BY <2>5, <2>6, <2>10, <3>1
      <4>2. Map!KeyLess(s[old(m)].key, s[old(p)].key)
        BY <1>5, <2>10, <4>1
      <4> QED
        BY <4>1, <4>2
    <3>2. CASE m = n /\ p # n
      <4>1. p > n
        BY <2>2, <2>4, <2>10, <3>2
      <4>2. old(p) \in DOMAIN s /\ old(p) >= n /\ t[p] = s[old(p)]
        BY <2>5, <2>7, <3>2, <4>1
      <4>3. Map!KeyLess(k, s[old(p)].key)
        BY <3>0, <4>2
      <4>4. t[m].key = k
        BY <1>2, <2>4, <3>2
      <4> QED
        BY <4>2, <4>3, <4>4
    <3>3. CASE m # n /\ p = n
      <4>1. old(m) \in DOMAIN s /\ old(m) < n /\ t[m] = s[old(m)]
        BY <2>5, <2>7, <2>10, <3>3
      <4>2. Map!KeyLess(s[old(m)].key, k)
        BY <3>0, <4>1
      <4>3. t[p].key = k
        BY <1>2, <2>4, <3>3
      <4> QED
        BY <4>1, <4>2, <4>3
    <3>4. ~(m = n /\ p = n)
      BY <2>2, <2>4, <2>10
    <3> QED
      BY <3>1, <3>2, <3>3, <3>4
  <2>11. \A m \in DOMAIN t: t[m].value = told'[t[m].key]
    <3> TAKE m \in DOMAIN t
    <3>1. CASE m = n
      BY <1>2, <1>4, <2>4, <3>1
    <3>2. CASE m # n
      <4>1. old(m) \in DOMAIN s /\ t[m] = s[old(m)]
        BY <2>5, <3>2
      <4>2. s[old(m)].value = told[s[old(m)].key] /\ s[old(m)].key # k
        BY <1>5, <2>3, <4>1
      <4>3. s[old(m)].key \in Map!Keys
        BY <1>1, <4>1
      <4> QED
        BY <1>4, <4>1, <4>2, <4>3
    <3> QED
      BY <3>1, <3>2
  <2>12. \A l \in Map!Keys: told'[l] # Nothing => \E m \in DOMAIN t: t[m].key = l
    <3> TAKE l \in Map!Keys
    <3> HAVE told'[l] # Nothing
    <3>1. CASE l = k
      BY <1>2, <2>4, <3>1
    <3>2. CASE l # k
      <4>1. told[l] # Nothing
        BY <1>4, <3>2
      <4>2. PICK m \in DOMAIN s: s[m].key = l
        BY <1>5, <4>1
      <4> QED
        BY <2>8, <4>2
    <3> QED
      BY <3>1, <3>2
  <2> QED
    BY <2>1, <2>9, <2>10, <2>11, <2>12 DEF t
<1> QED
  BY <1>7, <1>8

\* std::map: the place is the first whose key is not less than k.
LEMMA MapAssignsOrdered ==
  ASSUME Map!IndInv, NEW k \in Map!Keys, NEW v \in Mapped, Map!AssignMap(k, v)
  PROVE  Map!IndInv'
<1> DEFINE less == {m \in DOMAIN contents: \A n \in 1 .. m: Map!KeyLess(contents[n].key, k)}
           bound == Map!Cardinality(less) + 1
           found == {m \in DOMAIN contents: m = bound /\ ~Map!KeyLess(k, contents[m].key)}
           T == {n \in 1 .. Len(contents) + 1:
                   n = Len(contents) + 1 \/ ~Map!KeyLess(contents[n].key, k)}
<1>1. container = "map" /\ Map!AssignAt(found, bound, k, v)
  BY DEF Map!AssignMap
<1>2. /\ DOMAIN contents = 1 .. Len(contents) /\ Len(contents) \in Nat
      /\ \A m \in DOMAIN contents: contents[m].key \in Map!Keys
  <2>1. contents \in Seq(Entries)
    BY DEF Map!IndInv, Map!TypeOK, Entries
  <2>2. DOMAIN contents = 1 .. Len(contents) /\ Len(contents) \in Nat
    BY <2>1, LenProperties
  <2>3. \A m \in DOMAIN contents: contents[m] \in Entries
    BY <2>1, <2>2, ElementOfSeq
  <2> QED
    BY <2>2, <2>3 DEF Entries
<1>3. \A m, n \in DOMAIN contents: m < n => Map!KeyLess(contents[m].key, contents[n].key)
  BY <1>1 DEF Map!IndInv, Map!Sorted
<1>4. T \subseteq Nat /\ Len(contents) + 1 \in T
  BY <1>2
<1>5. \E p \in T: \A n \in T: p <= n
  <2> HIDE DEF T
  <2> QED
    BY <1>4, LeastNatural
<1>6. PICK p \in T: \A n \in T: p <= n
  BY <1>5
<1>7. /\ p \in Nat /\ p \in 1 .. Len(contents) + 1
      /\ p \in DOMAIN contents => ~Map!KeyLess(contents[p].key, k)
      /\ \A m \in DOMAIN contents: m < p => Map!KeyLess(contents[m].key, k)
      /\ p # Len(contents) + 1 => p \in DOMAIN contents
  <2>1. p \in 1 .. Len(contents) + 1
    OBVIOUS
  <2>2. p \in DOMAIN contents => ~Map!KeyLess(contents[p].key, k)
    BY <1>2
  <2>3. ASSUME NEW m \in DOMAIN contents, m < p, ~Map!KeyLess(contents[m].key, k)
        PROVE  FALSE
    <3>1. m \in T
      BY <1>2, <2>3
    <3> QED
      BY <1>2, <1>6, <2>1, <2>3, <3>1
  <2> QED
    BY <1>2, <2>1, <2>2, <2>3
<1> HIDE DEF T
<1>8. less = 1 .. p - 1
  <2>1. ASSUME NEW m \in less
        PROVE  m \in 1 .. p - 1
    <3>1. m \in DOMAIN contents /\ m \in 1 .. m /\ \A n \in 1 .. m: Map!KeyLess(contents[n].key, k)
      BY <1>2, <2>1
    <3>2. ~(p <= m)
      BY <1>2, <1>7, <3>1
    <3> QED
      BY <1>2, <1>7, <3>1, <3>2
  <2>2. ASSUME NEW m \in 1 .. p - 1
        PROVE  m \in less
    <3>1. m \in DOMAIN contents /\ \A n \in 1 .. m: n \in DOMAIN contents /\ n < p
      BY <1>2, <1>7
    <3> QED
      BY <1>7, <3>1
  <2> HIDE DEF less
  <2> QED
    BY <2>1, <2>2
<1>9. bound = p
  <2>1. Cardinality(1 .. p - 1) = p - 1
    <3>1. 1 \in Int /\ p - 1 \in Int /\ (1 > p - 1 => p = 1)
      BY <1>2, <1>7
    <3>2. Cardinality(1 .. p - 1) = IF 1 > p - 1 THEN 0 ELSE p - 1 - 1 + 1
      BY <3>1, FS_Interval
    <3> QED
      BY <1>7, <3>1, <3>2
  <2>2. \A S: Map!Cardinality(S) = Cardinality(S)
    BY DEF Map!Cardinality, Cardinality
  <2>3. Map!Cardinality(less) = p - 1
    BY <1>8, <2>1, <2>2
  <2> QED
    BY <1>7, <2>3
<1> HIDE DEF less, bound
<1>10. ASSUME NEW m \in found
       PROVE  contents[m].key = k
  BY <1>2, <1>7, <1>9, KeyLessIsOrder
<1>11. ASSUME NEW m \in DOMAIN contents, contents[m].key = k
       PROVE  m \in found
  <2>1. ~Map!KeyLess(k, k)
    BY KeyLessIsOrder
  <2>2. ~(m < p)
    BY <1>7, <1>11, <2>1
  <2>3. ~(p < m)
    <3>1. p < m => p \in DOMAIN contents
      BY <1>2, <1>7
    <3> QED
      BY <1>3, <1>7, <1>11, <3>1
  <2>4. m = p
    BY <1>2, <1>7, <2>2, <2>3
  <2> QED
    BY <1>9, <1>11, <2>1, <2>4
<1>12. found = {m \in DOMAIN contents: contents[m].key = k}
  BY <1>10, <1>11
<1>13. ASSUME found = {}, NEW m \in DOMAIN contents, m >= p
       PROVE  Map!KeyLess(k, contents[m].key)
  <2>1. p \in DOMAIN contents
    BY <1>2, <1>7, <1>13
  <2>2. Map!KeyLess(k, contents[p].key)
    BY <1>9, <1>13, <2>1
  <2>3. m = p \/ p < m
    BY <1>2, <1>7, <1>13
  <2> QED
    BY <1>2, <1>3, <2>1, <2>2, <2>3, KeyLessTransitive
<1> HIDE DEF found
<1> QED
  BY <1>1, <1>7, <1>9, <1>12, <1>13, MapAssigns

\* std::unordered_map: the order of its entries means nothing.
LEMMA MapAssignsHashed ==
  ASSUME Map!IndInv, NEW k \in Map!Keys, NEW v \in Mapped, Map!AssignUnordered(k, v)
  PROVE  Map!IndInv'
<1> DEFINE found == {m \in DOMAIN contents: /\ Map!KeyHash(contents[m].key) = Map!KeyHash(k)
                                            /\ Map!KeyEqual(contents[m].key, k)}
<1>1. container = "unordered_map" /\ Map!AssignAt(found, Len(contents) + 1, k, v)
  BY DEF Map!AssignUnordered
<1>2. contents \in Seq(Entries)
  BY DEF Map!IndInv, Map!TypeOK, Entries
<1>3. Len(contents) + 1 \in 1 .. Len(contents) + 1
  BY <1>2, LenProperties
<1>4. \A m \in DOMAIN contents: contents[m].key \in Map!Keys
  <2>1. \A m \in DOMAIN contents: contents[m] \in Entries
    BY <1>2, LenProperties, ElementOfSeq
  <2> QED
    BY <2>1 DEF Entries
<1>5. found = {m \in DOMAIN contents: contents[m].key = k}
  BY <1>4, KeyEqualIsEquality
<1> HIDE DEF found
<1> QED
  BY <1>1, <1>3, <1>5, MapAssigns

LEMMA MapInit == Map!Init => Map!IndInv
BY EmptySeq DEF Map!Init, Map!IndInv, Map!TypeOK, Map!Sorted, Map!AsTold

LEMMA MapStep == Map!IndInv /\ [Map!Next]_mapVars => Map!IndInv'
<1>1. ASSUME Map!IndInv, UNCHANGED mapVars
      PROVE  Map!IndInv'
  BY <1>1 DEF mapVars, Map!IndInv, Map!TypeOK, Map!Sorted, Map!AsTold, Map!Keys, Map!FilledUp,
              Map!Indices
<1> QED
  BY <1>1, MapAssignsOrdered, MapAssignsHashed DEF Map!Next

\* Each key's one entry, if there is one, has the value told last.
LEMMA MapHolds == Map!IndInv => HoldsWhatWasTold
<1> SUFFICES ASSUME Map!IndInv, NEW k \in Map!Keys
             PROVE  /\ {m \in DOMAIN contents: contents[m] = Map!Entry(k, told[k])}
                          = {m \in DOMAIN contents: contents[m].key = k}
                    /\ Map!Cardinality({m \in DOMAIN contents: contents[m].key = k})
                          = IF told[k] = Nothing THEN 0 ELSE 1
  BY DEF HoldsWhatWasTold, Map!HoldsWhatWasTold
<1> DEFINE own == {m \in DOMAIN contents: contents[m].key = k}
<1>1. /\ DOMAIN contents \subseteq Nat
      /\ \A m \in DOMAIN contents: contents[m] \in Entries
  <2>1. contents \in Seq(Entries)
    BY DEF Map!IndInv, Map!TypeOK, Entries
  <2> QED
    BY <2>1, LenProperties, ElementOfSeq
<1>2. /\ \A m \in DOMAIN contents: contents[m].value = told[contents[m].key]
      /\ told[k] # Nothing => \E m \in DOMAIN contents: contents[m].key = k
      /\ \A m, n \in DOMAIN contents: m < n => contents[m].key # contents[n].key
  BY DEF Map!IndInv, Map!AsTold, Map!Sorted
<1>3. ASSUME NEW m \in DOMAIN contents
      PROVE  contents[m] = Map!Entry(k, told[k]) <=> contents[m].key = k
  <2>1. contents[m] = [key |-> contents[m].key, value |-> contents[m].value]
    BY <1>1 DEF Entries
  <2> QED
    BY <1>2, <2>1 DEF Map!Entry
<1>4. \A S: Map!Cardinality(S) = Cardinality(S)
  BY DEF Map!Cardinality, Cardinality
<1>5. CASE told[k] = Nothing
  <2>1. own = {}
    BY <1>1, <1>2, <1>5, KeysAssumption DEF Entries
  <2>2. Cardinality(own) = 0
    BY <2>1, FS_EmptySet
  <2> HIDE DEF own
  <2> QED
    BY <1>3, <1>4, <1>5, <2>2 DEF own
<1>6. CASE told[k] # Nothing
  <2>1. PICK m \in DOMAIN contents: contents[m].key = k
    BY <1>2, <1>6
  <2>2. ASSUME NEW n \in own
        PROVE  n = m
    <3>1. ~(n < m) /\ ~(m < n)
      BY <1>2, <2>1
    <3> QED
      BY <1>1, <3>1
  <2>3. own = {m}
    BY <2>1, <2>2
  <2>4. Cardinality(own) = 1
    BY <2>3, FS_Singleton
  <2> QED
    BY <1>3, <1>4, <1>6, <2>4
<1> QED
  BY <1>5, <1>6

\* The keys of main's maps are told apart by their texts: after any assignments a
\* map holds, for every key it was told of, one entry with what it was told last,
\* whether it finds keys by operator< or by KeyHash and operator==
\* (UnorderedMap1.cpp lines 13-30).
THEOREM MapsHoldWhatTheyWereTold == ProgramsSpec => []HoldsWhatWasTold
<1>1. ProgramsInit => Map!IndInv
  BY MapInit DEF ProgramsInit
<1>2. Map!IndInv /\ [ProgramsNext]_programVars => Map!IndInv'
  BY StepOfOne, MapStep
<1> QED
  BY <1>1, <1>2, MapHolds, PTL DEF ProgramsSpec

-----------------------------------------------------------------------------
(* CvRing, beyond the wrap of its counters: the theorem of CvRingProofs.   *)

RingProofs == INSTANCE CvRingProofs WITH pc <- at_, i <- i_

LEMMA RingAssumptions == /\ RingProofs!ThreadsAssumption
                         /\ RingProofs!BoundAssumption
                         /\ RingProofs!IntMaxAssumption
BY RingAssumption
   DEF RingProofs!ThreadsAssumption, RingProofs!BoundAssumption,
       RingProofs!IntMaxAssumption, RingProofs!IsFiniteSet, IsFiniteSet

\* The ring that MCPrograms chooses is the one those theorems are about.
LEMMA RingInit == Ring!Init => RingProofs!Init
BY DEF Ring!Init, RingProofs!Init, Ring!Threads, RingProofs!Threads, Ring!Slots,
       RingProofs!Slots

LEMMA RingStep == [Ring!Next]_(Ring!vars) => [RingProofs!Next]_(RingProofs!vars)
BY
   DEF Ring!Threads, RingProofs!Threads, Ring!Slots, RingProofs!Slots,
       Ring!Slot, RingProofs!Slot, Ring!AsInt, RingProofs!AsInt, Ring!Ints,
       RingProofs!Ints, Ring!IntMin, RingProofs!IntMin, Ring!Rem,
       RingProofs!Rem, Ring!WriteReady, RingProofs!WriteReady, Ring!ReadReady,
       RingProofs!ReadReady, Ring!Sleepers, RingProofs!Sleepers, Ring!Lock,
       RingProofs!Lock, Ring!Sleep, RingProofs!Sleep, Ring!Proceed,
       RingProofs!Proceed, Ring!Spurious, RingProofs!Spurious, Ring!Fault,
       RingProofs!Fault, Ring!Return, RingProofs!Return, Ring!WriteWait,
       RingProofs!WriteWait, Ring!WriteClaim, RingProofs!WriteClaim,
       Ring!WriteStore, RingProofs!WriteStore, Ring!Notified,
       RingProofs!Notified, Ring!WriteFinish, RingProofs!WriteFinish,
       Ring!ReadWait, RingProofs!ReadWait, Ring!ReadClaim,
       RingProofs!ReadClaim, Ring!ReadLoad, RingProofs!ReadLoad,
       Ring!ReadFinish, RingProofs!ReadFinish, Ring!WriterThread,
       RingProofs!WriterThread, Ring!ReaderThread, RingProofs!ReaderThread,
       Ring!Next, RingProofs!Next, Ring!vars, RingProofs!vars

\* No thread of mmap4_cv.cc has a slot outside the ring, and none is killed, until
\* a fetch_add has passed INT_MAX.
THEOREM RingSafeUntilWrap == ProgramsSpec => []FaultOnlyAfterWrap
<1>1. ProgramsInit => RingProofs!Init
  BY RingInit DEF ProgramsInit
<1>2. [ProgramsNext]_programVars => [RingProofs!Next]_(RingProofs!vars)
  BY StepOfOne, RingStep DEF ringVars, Ring!vars
<1>3. RingProofs!Spec => []RingProofs!FaultOnlyAfterWrap
  BY RingAssumptions, RingProofs!SafeUntilWrap
<1>4. RingProofs!FaultOnlyAfterWrap => FaultOnlyAfterWrap
  BY DEF FaultOnlyAfterWrap, Ring!FaultOnlyAfterWrap, RingProofs!FaultOnlyAfterWrap,
         Ring!Threads, RingProofs!Threads, Ring!Slots, RingProofs!Slots
<1> QED
  BY <1>1, <1>2, <1>3, <1>4, PTL DEF ProgramsSpec, RingProofs!Spec
=============================================================================
