----------------------------- MODULE MCPrograms -----------------------------
(***************************************************************************)
(* The small programs in one specification, of which one is chosen at the  *)
(* start and runs alone: PingPong, ThreadRefs, TimerThread, QueueSingleton,*)
(* MapKeys, MappedFile, LazyInstance, and CvRing beyond the wrap of its    *)
(* counters.                                                               *)
(***************************************************************************)
EXTENDS PingPong, Sequences, FiniteSets

CONSTANTS N, Reused, Callers, NoCaller, Undefined, Size, Chars, Strings, Mapped, Nothing,
          Processes, Nobody, file_struct_cnt, mem_struct_cnt,
          Askers, NULL,
          Writers, Readers, NUM_SLOTS, IntMax, MaxWrites, Zero, Garbage

ASSUME IterationsAssumption == N \in Nat \ {0} /\ Reused # {}
ASSUME CallersAssumption == IsFiniteSet(Callers) /\ NoCaller \notin Callers
ASSUME KeysAssumption == /\ Size \in Nat /\ Chars \subseteq Nat /\ Strings \subseteq Nat
                         /\ Nothing \notin Mapped
ASSUME ProcessesAssumption == Nobody \notin Processes
ASSUME RecordsAssumption == file_struct_cnt \in Nat /\ mem_struct_cnt \in Nat
ASSUME AskersAssumption == NoThread \notin Askers /\ NULL \notin Askers /\ NULL # NoThread
ASSUME RingAssumption == /\ IsFiniteSet(Readers) /\ Writers \cap Readers = {}
                         /\ NoThread \notin Writers \cup Readers
                         /\ NUM_SLOTS \in Nat \ {0} /\ MaxWrites \in Nat
                         /\ IntMax \in Nat \ {0}

VARIABLES program,
          at, iteration, tmp, running, printed,
          timer, late, testCompleted, timedOut, setter, inTime,
          queue, mtx, call, locked, frontElement, enqueued, dequeued,
          container, contents, told,
          size, named, aged, step, record, truncated,
          guard, m_SingleInstance, S_Mutex, alive, made, result, asker, mainAt,
          memory_, next_write_slot_, next_read_slot_, mutex_, at_, slot, i_, value

Refs == INSTANCE ThreadRefs WITH i <- iteration
Timeout == INSTANCE TimerThread
Queue == INSTANCE QueueSingleton
Map == INSTANCE MapKeys
File == INSTANCE MappedFile
Lazy == INSTANCE LazyInstance
          WITH Threads <- Askers, program <- guard, pc <- asker, main <- mainAt
Ring == INSTANCE CvRing WITH pc <- at_, i <- i_

refsVars == <<at, iteration, tmp, running, printed>>
timerVars == <<timer, late, testCompleted, timedOut, setter, inTime>>
queueVars == <<queue, mtx, call, locked, frontElement, enqueued, dequeued>>
mapVars == <<container, contents, told>>
fileVars == <<size, named, aged, step, record, truncated>>
lazyVars == <<guard, m_SingleInstance, S_Mutex, alive, made, result, asker, mainAt>>
ringVars == <<memory_, next_write_slot_, next_read_slot_, mutex_, at_, slot, i_, value>>
programVars == <<program, vars, refsVars, timerVars, queueVars, mapVars, fileVars, lazyVars, ringVars>>

Programs == {"ping-pong", "references", "timer", "queue", "map", "file", "instance", "ring"}

ProgramsInit == /\ program \in Programs
                /\ Init /\ Refs!Init /\ Timeout!Init /\ Queue!Init
                /\ Map!Init /\ File!Init /\ Lazy!Init /\ Ring!Init
                /\ program # "references" => tmp = CHOOSE word \in Reused: TRUE
                /\ program # "map" => container = "map"
                /\ program # "instance" => guard = "unlocked"

PingPongNext == /\ program = "ping-pong" /\ Next
                /\ UNCHANGED <<program, refsVars, timerVars, queueVars, mapVars, fileVars, lazyVars, ringVars>>

RefsNext == /\ program = "references" /\ Refs!Next
            /\ UNCHANGED <<program, vars, timerVars, queueVars, mapVars, fileVars, lazyVars, ringVars>>

TimeoutNext == /\ program = "timer" /\ Timeout!Next
               /\ UNCHANGED <<program, vars, refsVars, queueVars, mapVars, fileVars, lazyVars, ringVars>>

QueueNext == /\ program = "queue" /\ Queue!Next
             /\ UNCHANGED <<program, vars, refsVars, timerVars, mapVars, fileVars, lazyVars, ringVars>>

MapNext == /\ program = "map" /\ Map!Next
           /\ UNCHANGED <<program, vars, refsVars, timerVars, queueVars, fileVars, lazyVars, ringVars>>

FileNext == /\ program = "file" /\ File!Next
            /\ UNCHANGED <<program, vars, refsVars, timerVars, queueVars, mapVars, lazyVars, ringVars>>

LazyNext == /\ program = "instance" /\ Lazy!Next
            /\ UNCHANGED <<program, vars, refsVars, timerVars, queueVars, mapVars, fileVars, ringVars>>

RingNext == /\ program = "ring" /\ Ring!Next
            /\ UNCHANGED <<program, vars, refsVars, timerVars, queueVars, mapVars, fileVars, lazyVars>>

ProgramsNext == \/ PingPongNext \/ RefsNext \/ TimeoutNext
                \/ QueueNext \/ MapNext \/ FileNext \/ LazyNext \/ RingNext

ProgramsSpec == ProgramsInit /\ [][ProgramsNext]_programVars

\* In the chosen program the scheduler runs every thread that can run; mutexes
\* that stay free are taken; time passes once wait_for has begun.  Nothing makes
\* the other thread complete the test, and no wait has to end without cause.
ProgramsFairSpec ==
    /\ ProgramsSpec
    /\ \A t \in Threads: /\ WF_vars(program = "ping-pong" /\ Lock(t))
                         /\ WF_vars(program = "ping-pong" /\ fun(t))
    /\ <>[][\A t \in Threads: ~Spurious(t)]_vars
    /\ WF_refsVars(program = "references" /\ Refs!main)
    /\ \A f \in {"T1", "T2"}, k \in Refs!Iterations:
          WF_refsVars(program = "references" /\ Refs!Run(f, k))
    /\ WF_timerVars(program = "timer" /\ Timeout!Timer)
    /\ WF_timerVars(program = "timer" /\ Timeout!TimeOut)
    /\ \A c \in Callers: WF_queueVars(program = "queue" /\ Queue!Caller(c))
    /\ \A p \in Processes: WF_fileVars(program = "file" /\ File!Process(p))
    /\ \A t \in Askers: WF_lazyVars(program = "instance" /\ Lazy!PrintHello(t))
    /\ WF_lazyVars(program = "instance" /\ Lazy!deleteInstance)

-----------------------------------------------------------------------------
(* Properties, beside NoLostWakeup and Alternates of PingPong.             *)

\* The properties of the other modules.
NoFalseAlarm == Timeout!NoFalseAlarm
ActsAsQueue == Queue!ActsAsQueue
HoldsWhatWasTold == Map!HoldsWhatWasTold
LastOneStands == File!LastOneStands
OneInstance == Lazy!OneInstance
AnswersAreAlive == Lazy!AnswersAreAlive
NothingLeaks == Lazy!NothingLeaks
FaultOnlyAfterWrap == Ring!FaultOnlyAfterWrap

\* The threads' functions return and main with them: fun in both threads
\* (ThreadAndSafe.cpp line 28), T1 and T2 (ThreadWithVector.cpp lines 35-38), the
\* timer, though nobody need complete the test (CVUse1.cpp line 9), the methods of
\* the queue with their locks, a process with its mapped file unless it faults or
\* is killed (mmap3_w.cc line 39), every thread that asks for the instance, with
\* an answer, and main, which joins and deletes (InstanceAndThreadSafe1.cpp line 104),
\* unless the call on an answer NULL (line 86) has ended the process.
ProgramEnds == <>CASE program = "ping-pong" -> Joined
                   [] program = "references" -> at = "end"
                   [] program = "timer" -> timer = "end"
                   [] program = "queue" -> \A c \in Callers: call[c] > Len(Queue!Calls)
                   [] program = "file" ->
                        \A p \in Processes: step[p] \in {"end", "fault", "killed"}
                   [] program = "instance" -> mainAt \in {"end", "dead"}
                   [] OTHER -> TRUE
=============================================================================
