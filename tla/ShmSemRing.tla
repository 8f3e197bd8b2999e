----------------------------- MODULE ShmSemRing -----------------------------
(***************************************************************************)
(* 2024/src/IpcMmap_And_semaphore/mmap6_ipc_unamed_sem_w.cc and _r.cc: the *)
(* ring of SemRing between two processes, with semaphores that lie in the  *)
(* shared memory itself.  The writer process ends when its threads have    *)
(* made their calls, and may be started again; the reader process reads    *)
(* for ever.  Every start of the writer initializes both semaphores,       *)
(* whoever uses them then.                                                 *)
(*                                                                         *)
(* The counters are kept modulo NUM_SLOTS, as in NamedSemRing, and the     *)
(* stored values are left out: which of them a reader sees is SemRing's    *)
(* subject.                                                                *)
(***************************************************************************)
EXTENDS Integers, FiniteSets

CONSTANTS Writers,           \* the threads of the writer process
          Reader,            \* the thread of the reader process
          NUM_SLOTS,
          Calls,             \* of Write, by each of Writers (300 in the program)
          MaxStarts,         \* bound of the model on the starts of the writer
          MaxKills           \* bound of the model on kills

ASSUME ThreadsAssumption == IsFiniteSet(Writers) /\ Reader \notin Writers
ASSUME BoundAssumption == /\ NUM_SLOTS \in Nat \ {0} /\ Calls \in Nat \ {0}
                          /\ MaxStarts \in Nat /\ MaxKills \in Nat

VARIABLES object,            \* the shared memory object: absent, empty or sized
          sem_write, sem_read,
          writer, reader,    \* how far each process is in its constructor
          next_write_slot_,  \* of the writer process
          next_read_slot_,   \* of the reader process
          pc,                \* control point of each thread
          i,                 \* a writer's loop counter
          starts,            \* how often the writer has been started
          kills

semaphores == <<sem_write, sem_read>>
counters == <<next_write_slot_, next_read_slot_>>
vars == <<object, semaphores, writer, reader, counters, pc, i, starts, kills>>

Threads == Writers \cup {Reader}
Slots == 0 .. NUM_SLOTS - 1

At(S, points) == {t \in S: pc[t] \in points}

\* Zeroed memory holds semaphores without tokens.
Init == /\ object = "absent"
        /\ sem_write = 0 /\ sem_read = 0
        /\ writer = "off" /\ reader = "off"
        /\ next_write_slot_ = 0 /\ next_read_slot_ = 0
        /\ pc = [t \in Threads |-> "off"]
        /\ i = [w \in Writers |-> 0]
        /\ starts = 0 /\ kills = 0

-----------------------------------------------------------------------------
(* The constructor and the end of the writer process.                      *)

WriterShmOpen == /\ writer = "off" /\ starts < MaxStarts
                 /\ writer' = "opened"
                 /\ starts' = starts + 1
                 /\ object' = IF object = "absent" THEN "empty" ELSE object
                 /\ UNCHANGED <<semaphores, reader, counters, pc, i, kills>>

\* An object that has the size keeps its contents, the semaphores included.
WriterFtruncate == /\ writer = "opened"
                   /\ writer' = "sized"
                   /\ object' = "sized"
                   /\ UNCHANGED <<semaphores, reader, counters, pc, i, starts, kills>>

\* The counter was stored as 0 just before, so the test always succeeds.
WriterSemWrite == /\ writer = "sized"
                  /\ writer' = "sem_write"
                  /\ next_write_slot_' = 0
                  /\ sem_write' = NUM_SLOTS
                  /\ UNCHANGED <<object, sem_read, reader, next_read_slot_, pc, i, starts, kills>>

\* Initializing a semaphore on which a thread sleeps is undefined: the thread
\* may be forgotten by every later sem_post.  main's threads start.
WriterSemRead ==
    /\ writer = "sem_write"
    /\ writer' = "run"
    /\ sem_read' = 0
    /\ \E forgotten \in SUBSET At({Reader}, {"asleep"}):
         pc' = [t \in Threads |-> IF t \in Writers THEN "wait"
                                  ELSE IF t \in forgotten THEN "forgotten" ELSE pc[t]]
    /\ i' = [w \in Writers |-> 0]
    /\ UNCHANGED <<object, sem_write, reader, counters, starts, kills>>

Off(S) == [t \in Threads |-> IF t \in S THEN "off" ELSE pc[t]]

\* The joins and ~SharedMemory, which destroys neither semaphore.
WriterExit == /\ writer = "run" /\ At(Writers, {"end"}) = Writers
              /\ writer' = "off"
              /\ pc' = Off(Writers)
              /\ UNCHANGED <<object, semaphores, reader, counters, i, starts, kills>>

WriterProcess == WriterFtruncate \/ WriterSemWrite \/ WriterSemRead \/ WriterExit

-----------------------------------------------------------------------------
(* The constructor of the reader process, which leaves when there is no    *)
(* object and maps one of any size.                                        *)

ReaderShmOpen == /\ reader = "off" /\ object # "absent"
                 /\ reader' = "run"
                 /\ next_read_slot_' = 0
                 /\ pc' = [pc EXCEPT ![Reader] = "wait"]
                 /\ UNCHANGED <<object, semaphores, writer, next_write_slot_, i, starts, kills>>

-----------------------------------------------------------------------------
(* Write and Read.                                                         *)

Goto(t, from, to) == pc[t] = from /\ pc' = [pc EXCEPT ![t] = to]

Following(n) == (n + 1) % NUM_SLOTS

\* Defect: a wait that failed is taken for one that succeeded.
WriteWaitFails(t) == /\ Goto(t, "wait", "claim")
                     /\ UNCHANGED <<object, semaphores, writer, reader, counters, i, starts, kills>>

WriteWait(t) == /\ Goto(t, "wait", "claim")
                /\ sem_write > 0
                /\ sem_write' = sem_write - 1
                /\ UNCHANGED <<object, sem_read, writer, reader, counters, i, starts, kills>>

WriteClaim(t) == /\ Goto(t, "claim", "post")
                 /\ next_write_slot_' = Following(next_write_slot_)
                 /\ UNCHANGED <<object, semaphores, writer, reader, next_read_slot_, i, starts, kills>>

\* sem_post, and the test of WriterThread's loop.
WritePost(t) == /\ Goto(t, "post", IF i[t] + 1 < Calls THEN "wait" ELSE "end")
                /\ i' = [i EXCEPT ![t] = @ + 1]
                /\ sem_read' = sem_read + 1
                /\ UNCHANGED <<object, sem_write, writer, reader, counters, starts, kills>>

WriterThread(t) == WriteWait(t) \/ WriteClaim(t) \/ WritePost(t)

ReadTake == /\ object = "sized" /\ sem_read > 0
            /\ \/ Goto(Reader, "wait", "claim")
               \/ Goto(Reader, "asleep", "claim")
            /\ sem_read' = sem_read - 1
            /\ UNCHANGED <<object, sem_write, writer, reader, counters, i, starts, kills>>

ReadSleep == /\ object = "sized" /\ sem_read = 0
             /\ Goto(Reader, "wait", "asleep")
             /\ UNCHANGED <<object, semaphores, writer, reader, counters, i, starts, kills>>

\* The semaphore lies beyond the end of an object without size: SIGBUS.
ReadFault == /\ object = "empty"
             /\ Goto(Reader, "wait", "off")
             /\ reader' = "off"
             /\ UNCHANGED <<object, semaphores, writer, counters, i, starts, kills>>

\* Defect: the counter is loaded and not incremented.
ReadClaimStay == /\ Goto(Reader, "claim", "post")
                 /\ UNCHANGED <<object, semaphores, writer, reader, counters, i, starts, kills>>

ReadClaim == /\ Goto(Reader, "claim", "post")
             /\ next_read_slot_' = Following(next_read_slot_)
             /\ UNCHANGED <<object, semaphores, writer, reader, next_write_slot_, i, starts, kills>>

\* Defect: Read posts the semaphore it has waited for.
ReadPostOwn == /\ Goto(Reader, "post", "wait")
               /\ sem_read' = sem_read + 1
               /\ UNCHANGED <<object, sem_write, writer, reader, counters, i, starts, kills>>

ReadPost == /\ Goto(Reader, "post", "wait")
            /\ sem_write' = sem_write + 1
            /\ UNCHANGED <<object, sem_read, writer, reader, counters, i, starts, kills>>

ReaderThread == ReadTake \/ ReadSleep \/ ReadFault \/ ReadClaim \/ ReadPost

-----------------------------------------------------------------------------
(* Either process may be killed; what lies in the shared memory remains.   *)

KillWriter == /\ writer # "off" /\ kills < MaxKills
              /\ kills' = kills + 1
              /\ writer' = "off"
              /\ pc' = Off(Writers)
              /\ UNCHANGED <<object, semaphores, reader, counters, i, starts>>

KillReader == /\ reader = "run" /\ kills < MaxKills
              /\ kills' = kills + 1
              /\ reader' = "off"
              /\ pc' = Off({Reader})
              /\ UNCHANGED <<object, semaphores, writer, counters, i, starts>>

Next == \/ WriterShmOpen \/ WriterProcess
        \/ ReaderShmOpen \/ ReaderThread
        \/ \E t \in Writers: WriterThread(t)
        \/ KillWriter \/ KillReader

Spec == Init /\ [][Next]_vars

\* What has been started runs.  Nobody has to start a process, or to kill one.
FairSpec == /\ Spec
            /\ WF_vars(WriterProcess) /\ WF_vars(ReaderThread)
            /\ \A t \in Writers: WF_vars(WriterThread(t))

-----------------------------------------------------------------------------
(* Properties.                                                             *)

\* Every variable ranges over what its C++ type and use allow.
TypeOK == /\ object \in {"absent", "empty", "sized"}
          /\ sem_write \in Nat /\ sem_read \in Nat
          /\ writer \in {"off", "opened", "sized", "sem_write", "run"}
          /\ reader \in {"off", "run"}
          /\ next_write_slot_ \in Slots /\ next_read_slot_ \in Slots
          /\ pc \in [Threads -> {"off", "wait", "asleep", "forgotten", "claim", "post", "end"}]
          /\ i \in [Writers -> 0 .. Calls]
          /\ starts \in 0 .. MaxStarts /\ kills \in 0 .. MaxKills

InFlight(S) == Cardinality(At(S, {"claim", "post"}))

Total == sem_write + sem_read + InFlight(Writers) + InFlight({Reader})

\* However a start of the writer process falls between the steps of a reader,
\* and whoever is killed, a start adds no more tokens than there are slots
\* (sem_init, w.cc lines 51-52; the reader goes on taking and posting in between,
\* r.cc lines 63 and 69).
TokensBounded == Total <= starts * NUM_SLOTS

\* In the first life of both the two processes, which share no counter, agree on
\* the slots: the reader is behind by the values posted, those still to be
\* posted, and less those it has taken and not claimed (w.cc line 70, r.cc line
\* 65).  Started early or late, the reader joins in at slot 0.
InStep == starts <= 1 /\ kills = 0 =>
            (next_write_slot_ - next_read_slot_) % NUM_SLOTS
              = (sem_read + Cardinality(At(Writers, {"post"}))
                          + Cardinality(At({Reader}, {"claim"}))) % NUM_SLOTS

\* Every life of the writer process ends, whatever it started into, as long as
\* there is a reader that no sem_init has made the semaphore forget, and kills
\* have left a single token.
Served == reader = "run" /\ pc[Reader] # "forgotten" /\ Total > 0

LivesEnd == <>[]Served => []<>(writer = "off")

\* The comment at w.cc line 48: the semaphores are initialized once, by the
\* process that creates the shared memory.
InitOnce == [][WriterSemWrite \/ WriterSemRead => starts = 1]_vars

-----------------------------------------------------------------------------
(* The inductive invariant behind InStep.                                  *)

\* What the writers have claimed and no reader has.
Unclaimed == sem_read + Cardinality(At(Writers, {"post"})) + Cardinality(At({Reader}, {"claim"}))

FirstLife == starts <= 1 /\ kills = 0

\* Before main's threads run nothing is claimed, and nobody has gone beyond slot 0.
StepInv == FirstLife =>
             /\ next_write_slot_ = (next_read_slot_ + Unclaimed) % NUM_SLOTS
             /\ reader = "off" => next_read_slot_ = 0
             /\ starts = 0 => writer = "off"
             /\ object # "sized" => starts = 0 \/ writer = "opened"
             /\ starts = 0 \/ writer \in {"opened", "sized", "sem_write"}
                  => Unclaimed = 0 /\ next_write_slot_ = 0 /\ next_read_slot_ = 0
=============================================================================
