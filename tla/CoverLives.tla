------------------------------ MODULE CoverLives ------------------------------
(***************************************************************************)
(* The programs of CoverRing with their beginnings and ends: the writer    *)
(* process runs its constructor while a reader may already be there, the   *)
(* reader process removes the name when it has found the end flag, either  *)
(* may be killed between two steps, and both may be started again.  There  *)
(* is at most one process of each program at a time.                       *)
(*                                                                         *)
(* The memory of CoverRing is the object that was created last: only the   *)
(* reader that uses an object removes its name, and only as its last step, *)
(* so no reader outlives the name of what it has mapped.                   *)
(***************************************************************************)
EXTENDS CoverRing

CONSTANTS MaxStarts,         \* bound of the model on the starts of the writer
          MaxKills           \* bound of the model on kills

VARIABLES name,              \* SHARED_MEMORY_NAME: absent, or its object's size
          writer, reader,    \* how far each process is in its constructor
          forgotten,         \* the reader sleeps, and no sem_post will wake it
          starts, kills

lives == <<name, writer, reader, forgotten, starts, kills>>
allVars == <<vars, lives>>

Off(S) == [t \in Threads |-> IF t \in S THEN "off" ELSE pc[t]]

\* No program has been started.
LivesInit == /\ MemoryInit
             /\ pc = [t \in Threads |-> "off"]
             /\ LocalsInit
             /\ name = "absent"
             /\ writer = "off" /\ reader = "off"
             /\ forgotten = FALSE
             /\ starts = 0 /\ kills = 0

-----------------------------------------------------------------------------
(* The writer process: its constructor, its threads and its end.           *)

\* A new object reads as zeros; one that exists keeps its contents.
WriterShmOpen ==
    /\ writer = "off" /\ starts < MaxStarts
    /\ writer' = "opened"
    /\ starts' = starts + 1
    /\ IF name = "absent"
       THEN /\ name' = "empty"
            /\ data' = [s \in Slots |-> Zero]
            /\ next_write_slot_' = 0 /\ next_read_slot_' = 0
            /\ sem_read' = 0 /\ rw_status' = "IDLE"
       ELSE UNCHANGED <<name, memory>>
    /\ UNCHANGED <<pc, locals, reader, forgotten, kills>>

WriterFtruncate ==
    /\ writer = "opened"
    /\ writer' = "sized"
    /\ name' = IF name = "absent" THEN "absent" ELSE "sized"
    /\ UNCHANGED <<vars, reader, forgotten, starts, kills>>

WriterStoreWrite ==
    /\ writer = "sized"
    /\ writer' = "write_slot"
    /\ next_write_slot_' = 0
    /\ UNCHANGED <<data, next_read_slot_, sem_read, rw_status, pc, locals>>
    /\ UNCHANGED <<name, reader, forgotten, starts, kills>>

WriterStoreRead ==
    /\ writer = "write_slot"
    /\ writer' = "read_slot"
    /\ next_read_slot_' = 0
    /\ UNCHANGED <<data, next_write_slot_, sem_read, rw_status, pc, locals>>
    /\ UNCHANGED <<name, reader, forgotten, starts, kills>>

\* Defect: the semaphores are initialized in the first life only.
WriterSemInitOnce ==
    /\ writer = "read_slot"
    /\ writer' = "sem"
    /\ sem_read' = IF starts = 1 THEN 0 ELSE sem_read
    /\ UNCHANGED <<data, next_write_slot_, next_read_slot_, rw_status, pc, locals>>
    /\ UNCHANGED <<name, reader, forgotten, starts, kills>>

\* The counter was stored as 0 above, so the test succeeds.  Initializing a
\* semaphore that a thread waits on is undefined: it may be forgotten.
WriterSemInit ==
    /\ writer = "read_slot"
    /\ writer' = "sem"
    /\ sem_read' = 0
    /\ forgotten' \in {forgotten, pc[Reader] = "start" /\ should_continue}
    /\ UNCHANGED <<data, next_write_slot_, next_read_slot_, rw_status, pc, locals>>
    /\ UNCHANGED <<name, reader, starts, kills>>

\* Defect: rw_status keeps its value.
WriterRunOnly ==
    /\ writer = "sem"
    /\ writer' = "run"
    /\ pc' = [t \in Threads |-> IF t \in WritingThreads THEN "start" ELSE pc[t]]
    /\ i' = [t \in WritingThreads |-> 0]
    /\ UNCHANGED <<memory, seen, slot, should_continue>>
    /\ UNCHANGED <<name, reader, forgotten, starts, kills>>

\* rw_status, and main's threads.
WriterRun ==
    /\ writer = "sem"
    /\ writer' = "run"
    /\ rw_status' = "IDLE"
    /\ pc' = [t \in Threads |-> IF t \in WritingThreads THEN "start" ELSE pc[t]]
    /\ seen' = [t \in Threads |-> IF t \in WritingThreads THEN 0 ELSE seen[t]]
    /\ slot' = [t \in Threads |-> IF t \in WritingThreads THEN 0 ELSE slot[t]]
    /\ i' = [t \in WritingThreads |-> 0]
    /\ UNCHANGED <<data, next_write_slot_, next_read_slot_, sem_read, should_continue>>
    /\ UNCHANGED <<name, reader, forgotten, starts, kills>>

\* The end of ~SharedMemory and of main.
WriterExit == /\ writer = "run" /\ pc[Main] = "end"
              /\ writer' = "off"
              /\ pc' = Off(WritingThreads)
              /\ UNCHANGED <<memory, locals, name, reader, forgotten, starts, kills>>

WriterProcess == \/ WriterFtruncate \/ WriterStoreWrite \/ WriterStoreRead
                 \/ WriterSemInit \/ WriterRun \/ WriterExit

WriterKill == /\ writer # "off" /\ kills < MaxKills
              /\ kills' = kills + 1
              /\ writer' = "off"
              /\ pc' = Off(WritingThreads)
              /\ UNCHANGED <<memory, locals, name, reader, forgotten, starts>>

-----------------------------------------------------------------------------
(* The reader process.  It leaves at once when there is no object.         *)

ReaderShmOpen == /\ reader = "off" /\ name # "absent"
                 /\ reader' = "run"
                 /\ pc' = [pc EXCEPT ![Reader] = "start"]
                 /\ seen' = [seen EXCEPT ![Reader] = 0]
                 /\ slot' = [slot EXCEPT ![Reader] = 0]
                 /\ should_continue' = TRUE
                 /\ UNCHANGED <<memory, i, name, writer, forgotten, starts, kills>>

\* The semaphore lies beyond the end of an object without size: SIGBUS.
ReadFault == /\ name = "empty"
             /\ Goto(Reader, "start", "off")
             /\ reader' = "off"
             /\ UNCHANGED <<memory, locals, name, writer, forgotten, starts, kills>>

Read == /\ name = "sized" /\ ~(forgotten /\ pc[Reader] = "start")
        /\ ReaderThread
        /\ UNCHANGED lives

\* Defect: the name is not removed.
ReaderExitKeepsName == /\ Goto(Reader, "end", "off")
                       /\ reader' = "off"
                       /\ UNCHANGED <<memory, locals, name, writer, forgotten, starts, kills>>

\* ~SharedMemory removes the name.  Destroying the semaphores, in memory that
\* has been unmapped, changes nothing that is shared.
ReaderExit == /\ Goto(Reader, "end", "off")
              /\ reader' = "off"
              /\ name' = "absent"
              /\ UNCHANGED <<memory, locals, writer, forgotten, starts, kills>>

ReaderProcess == ReadFault \/ Read \/ ReaderExit

ReaderKill == /\ reader = "run" /\ kills < MaxKills
              /\ kills' = kills + 1
              /\ reader' = "off"
              /\ forgotten' = FALSE
              /\ pc' = Off({Reader})
              /\ UNCHANGED <<memory, locals, name, writer, starts>>

-----------------------------------------------------------------------------
Write(t) == WriterThread(t) /\ UNCHANGED lives

LivesNext == \/ WriterShmOpen \/ WriterProcess \/ WriterKill
             \/ \E t \in WritingThreads: Write(t)
             \/ ReaderShmOpen \/ ReaderProcess \/ ReaderKill

LivesSpec == LivesInit /\ [][LivesNext]_allVars

\* What has been started runs.  Nobody has to start a process, or to kill one.
FairLivesSpec == /\ LivesSpec
                 /\ WF_allVars(WriterProcess)
                 /\ \A t \in WritingThreads: WF_allVars(Write(t))
                 /\ WF_allVars(ReaderProcess)

-----------------------------------------------------------------------------
(* Properties.                                                             *)

\* Whatever a start of the writer falls into, once its threads run there are no
\* more tokens than values of this life (w.cc lines 50-56); and in the first
\* life the reader is never ahead of the writers, whether it came early or late,
\* was killed on the way or is the second one.
NeverAhead ==
    LET posting == Cardinality(At(WritingThreads, {"store", "post"}))
        claiming == Cardinality(At({Reader}, {"check", "compare", "exchange", "claim"}))
    IN  /\ writer = "run" => sem_read + posting <= next_write_slot_
        /\ starts <= 1 => next_read_slot_ + sem_read + posting + claiming <= next_write_slot_

\* Only a kill leaves rw_status set with nobody to store IDLE: no start of a
\* program and no end of one does (w.cc line 57, 78-92, r.cc lines 72-86).
OrphanedByKill == kills = 0 => StatusHasOwner

\* Whatever kills there have been, the life of a writer that starts now ends
\* unless there is another one: a status left behind by the dead stops no life
\* but theirs (w.cc lines 57 and 76-82).
LivesEnd == \A k \in 0 .. MaxKills:
              writer = "opened" /\ kills = k ~> writer = "off" \/ kills > k

\* In the first life, without kills, a reader that the initialization of the
\* semaphore did not make it forget finds the end flag and leaves, however early
\* or late it was started (r.cc lines 68-86).
ReaderEnds == [](starts <= 1 /\ kills = 0 /\ ~forgotten)
                => (reader = "run" ~> reader = "off")

-----------------------------------------------------------------------------
(* The inductive invariant behind NeverAhead and OrphanedByKill.           *)

Constructing == {"opened", "sized", "write_slot", "read_slot", "sem"}

LivesType == /\ TypeOK
             /\ name \in {"absent", "empty", "sized"}
             /\ writer \in {"off", "run"} \cup Constructing
             /\ reader \in {"off", "run"}
             /\ forgotten \in BOOLEAN
             /\ starts \in Nat /\ kills \in Nat

\* A process that runs is one whose threads do, and main writes the end flag only
\* when it has joined its threads.
Running == /\ \A t \in WritingThreads: pc[t] = "off" <=> writer # "run"
           /\ pc[Reader] = "off" <=> reader = "off"
           /\ writer = "run" => (pc[Main] = "start" /\ i[Main] = 0) \/ Joined

\* Until the writer's threads run for the first time nothing has been counted,
\* and a reader that came early holds no token.
Fresh == /\ next_write_slot_ = 0 /\ next_read_slot_ = 0 /\ sem_read = 0
         /\ pc[Reader] \notin {"check", "compare", "exchange", "claim"}

FirstLife == /\ starts = 0 => writer = "off" /\ reader = "off" /\ name = "absent" /\ Fresh
             /\ starts = 1 /\ writer \in Constructing => Fresh
             /\ writer = "sem" => sem_read = 0

LivesInv == LivesType /\ Running /\ FirstLife /\ NeverAhead /\ OrphanedByKill
=============================================================================
