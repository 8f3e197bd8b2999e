----------------------------- MODULE NamedSemRing -----------------------------
(***************************************************************************)
(* 2024/src/IpcMmap_And_semaphore/mmap5_ipc_named_sem_w.cc and _r.cc: the  *)
(* ring of SemRing between two processes.  The shared memory object and    *)
(* the two named semaphores stay in the system when a process ends; the    *)
(* counters are members of each process's own SharedMemory and start at 0  *)
(* with it.  Neither program returns from its loops: a process ends only   *)
(* when it is killed, at any point, and may be started again.              *)
(*                                                                         *)
(* The counters are kept modulo NUM_SLOTS, which is all that the programs  *)
(* use of them before they wrap at INT_MAX; the wrap is SemRing's subject, *)
(* and so are the values.  Of the memory the model keeps which slots hold a*)
(* value that has been stored and not loaded since.                        *)
(***************************************************************************)
EXTENDS Integers, FiniteSets

CONSTANTS Writers,           \* the threads of the writer process
          Readers,           \* the threads of the reader process
          NUM_SLOTS,
          MaxKills,          \* bound of the model on the kills of processes
          Absent             \* a semaphore that has not been created

ASSUME ThreadsAssumption == /\ IsFiniteSet(Writers) /\ IsFiniteSet(Readers)
                            /\ Writers \cap Readers = {}
ASSUME BoundAssumption == NUM_SLOTS \in Nat \ {0} /\ MaxKills \in Nat
ASSUME AbsentAssumption == Absent \notin Int

VARIABLES object,            \* the shared memory object: absent, empty or sized
          unread,            \* the slots of memory_ with a value not loaded yet
          sem_write_, sem_read_,
          writer, reader,    \* how far each process is in its constructor
          next_write_slot_,  \* of the writer process
          next_read_slot_,   \* of the reader process
          pc, slot,          \* control point and local slot of each thread
          kills

system == <<object, unread, sem_write_, sem_read_>>
counters == <<next_write_slot_, next_read_slot_>>
threads == <<pc, slot>>
vars == <<system, writer, reader, counters, threads, kills>>

Threads == Writers \cup Readers
Slots == 0 .. NUM_SLOTS - 1

At(S, points) == {t \in S: pc[t] \in points}

Init == /\ object = "absent"
        /\ unread = {}
        /\ sem_write_ = Absent
        /\ sem_read_ = Absent
        /\ writer = "off"
        /\ reader = "off"
        /\ next_write_slot_ = 0
        /\ next_read_slot_ = 0
        /\ pc = [t \in Threads |-> "off"]
        /\ slot = [t \in Threads |-> 0]
        /\ kills = 0

-----------------------------------------------------------------------------
(* The writer process: its constructor opens or creates everything.        *)

\* Defect: ftruncate is forgotten.
WriterShmOpenOnly == /\ writer = "off"
                     /\ writer' = "sized"
                     /\ object' = IF object = "absent" THEN "empty" ELSE object
                     /\ UNCHANGED <<unread, sem_write_, sem_read_, reader, counters, threads, kills>>

WriterShmOpen == /\ writer = "off"
                 /\ writer' = "opened"
                 /\ object' = IF object = "absent" THEN "empty" ELSE object
                 /\ UNCHANGED <<unread, sem_write_, sem_read_, reader, counters, threads, kills>>

\* A new object grows by zeros; one that has the size keeps its contents.
WriterFtruncate == /\ writer = "opened"
                   /\ writer' = "sized"
                   /\ object' = "sized"
                   /\ unread' = IF object = "sized" THEN unread ELSE {}
                   /\ UNCHANGED <<sem_write_, sem_read_, reader, counters, threads, kills>>

\* sem_open with O_CREAT gives the initial value to a new semaphore only.
WriterSemWrite == /\ writer = "sized"
                  /\ writer' = "sem_write"
                  /\ sem_write_' = IF sem_write_ = Absent THEN NUM_SLOTS ELSE sem_write_
                  /\ UNCHANGED <<object, unread, sem_read_, reader, counters, threads, kills>>

WriterSemRead == /\ writer = "sem_write"
                 /\ writer' = "sem_read"
                 /\ sem_read_' = IF sem_read_ = Absent THEN 0 ELSE sem_read_
                 /\ UNCHANGED <<object, unread, sem_write_, reader, counters, threads, kills>>

\* memset, the counters, and main's threads, which begin at sem_wait.
WriterRun == /\ writer = "sem_read"
             /\ writer' = "run"
             /\ unread' = {}
             /\ next_write_slot_' = 0
             /\ pc' = [t \in Threads |-> IF t \in Writers THEN "wait" ELSE pc[t]]
             /\ UNCHANGED <<object, sem_write_, sem_read_, reader, next_read_slot_, slot, kills>>

WriterStarts == WriterFtruncate \/ WriterSemWrite \/ WriterSemRead \/ WriterRun

-----------------------------------------------------------------------------
(* The reader process: its constructor opens what exists, or calls exit.   *)

ReaderShmOpen == /\ reader = "off" /\ object # "absent"
                 /\ reader' = "opened"
                 /\ UNCHANGED <<system, writer, counters, threads, kills>>

ReaderSemWrite == /\ reader = "opened"
                  /\ reader' = IF sem_write_ = Absent THEN "off" ELSE "sem_write"
                  /\ UNCHANGED <<system, writer, counters, threads, kills>>

ReaderExits == /\ reader = "sem_write" /\ sem_read_ = Absent
               /\ reader' = "off"
               /\ UNCHANGED <<system, writer, counters, threads, kills>>

ReaderRun == /\ reader = "sem_write" /\ sem_read_ # Absent
             /\ reader' = "run"
             /\ next_read_slot_' = 0
             /\ pc' = [t \in Threads |-> IF t \in Readers THEN "wait" ELSE pc[t]]
             /\ UNCHANGED <<system, writer, next_write_slot_, slot, kills>>

ReaderStarts == ReaderSemWrite \/ ReaderExits \/ ReaderRun

-----------------------------------------------------------------------------
(* Write and Read.                                                         *)

Goto(t, from, to) == pc[t] = from /\ pc' = [pc EXCEPT ![t] = to]

Following(n) == (n + 1) % NUM_SLOTS

WriteWait(t) == /\ Goto(t, "wait", "claim")
                /\ sem_write_ > 0
                /\ sem_write_' = sem_write_ - 1
                /\ UNCHANGED <<object, unread, sem_read_, writer, reader, counters, slot, kills>>

WriteClaim(t) == /\ Goto(t, "claim", "store")
                 /\ slot' = [slot EXCEPT ![t] = next_write_slot_]
                 /\ next_write_slot_' = Following(next_write_slot_)
                 /\ UNCHANGED <<system, writer, reader, next_read_slot_, kills>>

\* Defect: the slot is taken from the counter, not from what fetch_add returned.
WriteStoreNext(t) == /\ Goto(t, "store", "post")
                     /\ unread' = unread \cup {next_write_slot_}
                     /\ UNCHANGED <<object, sem_write_, sem_read_, writer, reader, counters, slot, kills>>

WriteStore(t) == /\ Goto(t, "store", "post")
                 /\ unread' = unread \cup {slot[t]}
                 /\ UNCHANGED <<object, sem_write_, sem_read_, writer, reader, counters, slot, kills>>

\* Defects: Write posts nothing, or the semaphore it waited for.
WritePostNothing(t) == /\ Goto(t, "post", "wait")
                       /\ UNCHANGED <<system, writer, reader, counters, slot, kills>>

WritePostOwn(t) == /\ Goto(t, "post", "wait")
                   /\ sem_write_' = sem_write_ + 1
                   /\ UNCHANGED <<object, unread, sem_read_, writer, reader, counters, slot, kills>>

WritePost(t) == /\ Goto(t, "post", "wait")
                /\ sem_read_' = sem_read_ + 1
                /\ UNCHANGED <<object, unread, sem_write_, writer, reader, counters, slot, kills>>

ReadWait(t) == /\ Goto(t, "wait", "claim")
               /\ sem_read_ > 0
               /\ sem_read_' = sem_read_ - 1
               /\ UNCHANGED <<object, unread, sem_write_, writer, reader, counters, slot, kills>>

\* Defect: the counter stays.
ReadClaimStay(t) == /\ Goto(t, "claim", "load")
                    /\ slot' = [slot EXCEPT ![t] = next_read_slot_]
                    /\ UNCHANGED <<system, writer, reader, counters, kills>>

ReadClaim(t) == /\ Goto(t, "claim", "load")
                /\ slot' = [slot EXCEPT ![t] = next_read_slot_]
                /\ next_read_slot_' = Following(next_read_slot_)
                /\ UNCHANGED <<system, writer, reader, next_write_slot_, kills>>

\* What is loaded is only printed; it stays in the slot.
ReadLoad(t) == /\ Goto(t, "load", "post")
               /\ unread' = unread \ {slot[t]}
               /\ UNCHANGED <<object, sem_write_, sem_read_, writer, reader, counters, slot, kills>>

ReadPost(t) == /\ Goto(t, "post", "wait")
               /\ sem_write_' = sem_write_ + 1
               /\ UNCHANGED <<object, unread, sem_read_, writer, reader, counters, slot, kills>>

WriterThread(t) == WriteWait(t) \/ WriteClaim(t) \/ WriteStore(t) \/ WritePost(t)

ReaderThread(t) == ReadWait(t) \/ ReadClaim(t) \/ ReadLoad(t) \/ ReadPost(t)

-----------------------------------------------------------------------------
(* The end of a process: its threads stop where they are, and what they    *)
(* took from a semaphore is not given back.                                *)

KillThreads(S) == /\ kills < MaxKills
                  /\ kills' = kills + 1
                  /\ pc' = [t \in Threads |-> IF t \in S THEN "off" ELSE pc[t]]
                  /\ slot' = [t \in Threads |-> IF t \in S THEN 0 ELSE slot[t]]
                  /\ UNCHANGED <<system, counters>>

KillWriter == /\ writer # "off" /\ writer' = "off"
              /\ KillThreads(Writers)
              /\ UNCHANGED reader

KillReader == /\ reader # "off" /\ reader' = "off"
              /\ KillThreads(Readers)
              /\ UNCHANGED writer

Next == \/ WriterShmOpen \/ WriterStarts \/ KillWriter
        \/ ReaderShmOpen \/ ReaderStarts \/ KillReader
        \/ \E t \in Writers: WriterThread(t)
        \/ \E t \in Readers: ReaderThread(t)

Spec == Init /\ [][Next]_vars

\* What has been started runs.  Nobody has to start a process, or to kill one.
FairSpec == /\ Spec
            /\ WF_vars(WriterStarts) /\ WF_vars(ReaderStarts)
            /\ \A t \in Writers: WF_vars(WriterThread(t))
            /\ \A t \in Readers: WF_vars(ReaderThread(t))

-----------------------------------------------------------------------------
(* Properties.                                                             *)

Constructor == {"off", "opened", "sized", "sem_write", "sem_read", "run"}
Points == {"off", "wait", "claim", "store", "load", "post"}

\* Every variable ranges over what its C++ type and use allow.
TypeOK == /\ object \in {"absent", "empty", "sized"}
          /\ unread \subseteq Slots
          /\ sem_write_ \in Nat \cup {Absent}
          /\ sem_read_ \in Nat \cup {Absent}
          /\ writer \in Constructor /\ reader \in Constructor
          /\ next_write_slot_ \in Slots /\ next_read_slot_ \in Slots
          /\ pc \in [Threads -> Points]
          /\ slot \in [Threads -> Slots]
          /\ kills \in 0 .. MaxKills

InFlight(S) == Cardinality(At(S, {"claim", "store", "load", "post"}))

\* The tokens there are: in the semaphores, or to be put in them when they are
\* created, and those a thread holds between its sem_wait and its sem_post.
Total == (IF sem_write_ = Absent THEN NUM_SLOTS ELSE sem_write_)
           + (IF sem_read_ = Absent THEN 0 ELSE sem_read_)
           + InFlight(Writers) + InFlight(Readers)

\* However often the processes are killed and started again, the named
\* semaphores never let more threads in than there are slots (sem_open, w.cc
\* lines 43 and 48).
TokensBounded == Total <= NUM_SLOTS

\* Only a kill loses tokens, those of its threads in flight, and nothing makes
\* a token (sem_wait and sem_post, w.cc lines 76 and 84, r.cc lines 71 and 78).
TokensKept == [][\/ Total' = Total
                 \/ KillWriter /\ Total' = Total - InFlight(Writers)
                 \/ KillReader /\ Total' = Total - InFlight(Readers)]_vars

\* A reader that gets past its constructor finds the memory in its size,
\* wherever in its own constructor the writer process was killed: a load from an
\* object without size would end the process (r.cc lines 25-48, 74).
ReaderMapsMemory == reader = "run" => object = "sized"

\* Once both processes stay up, the ring moves for ever, whatever was killed
\* before, unless the kills have taken every token.
Flow == <>[](writer = "run" /\ reader = "run") =>
          []<>(Total = 0 \/ At(Readers, {"load"}) # {})

\* What a reader may still take, and what the writers have claimed and no reader has.
Takeable == (IF sem_read_ = Absent THEN 0 ELSE sem_read_) + Cardinality(At(Readers, {"claim"}))
Unclaimed == Takeable + Cardinality(At(Writers, {"store", "post"}))

\* The two processes share no counter.  Until the first kill the slots they count
\* to are nevertheless apart by what is unclaimed, although the reader may start
\* when values lie in the ring (w.cc lines 55 and 78, r.cc lines 50 and 73).
InStep == kills = 0 => next_write_slot_ = (next_read_slot_ + Unclaimed) % NUM_SLOTS

\* Until the first kill the one reader thread of the program has its counter where
\* the unread values are: when no writer is inside Write, each of the slots it will
\* claim with the tokens there are holds a value that was stored and not loaded
\* since (w.cc lines 78-84, r.cc lines 71-75).
UnreadIsFound == kills = 0 /\ InFlight(Writers) = 0 =>
                   \A k \in 0 .. Takeable - 1: (next_read_slot_ + k) % NUM_SLOTS \in unread

-----------------------------------------------------------------------------
(* The inductive invariant behind ReaderMapsMemory and TokensKept: what a  *)
(* process has passed in its constructor stays in the system.              *)

Created == /\ writer \in {"sized", "sem_write", "sem_read", "run"} => object = "sized"
           /\ writer \in {"sem_write", "sem_read", "run"} => sem_write_ # Absent
           /\ writer \in {"sem_read", "run"} => sem_read_ # Absent
           /\ reader \in {"sem_write", "run"} => sem_write_ # Absent
           /\ reader = "run" => sem_read_ # Absent
           /\ sem_write_ # Absent => object = "sized"

\* A process has threads exactly while it runs.
Running == /\ \A t \in Writers: pc[t] # "off" <=> writer = "run"
           /\ \A t \in Readers: pc[t] # "off" <=> reader = "run"

IndInv == TypeOK /\ Created /\ Running

\* Behind InStep: a process that does not run has counted nothing.
AgreeInv == kills = 0 => /\ writer # "run" => next_write_slot_ = 0 /\ Unclaimed = 0
                         /\ reader # "run" => next_read_slot_ = 0
                         /\ next_write_slot_ = (next_read_slot_ + Unclaimed) % NUM_SLOTS

\* Behind UnreadIsFound, with one reader: every slot between the two counters is
\* unread or about to be stored into, and the reader loads the slot before them.
FoundInv == kills = 0 =>
              /\ \A k \in 0 .. Unclaimed - 1:
                   LET s == (next_read_slot_ + k) % NUM_SLOTS
                   IN  s \in unread \/ \E t \in Writers: pc[t] = "store" /\ slot[t] = s
              /\ \A t \in Readers: pc[t] = "load" => Following(slot[t]) = next_read_slot_
=============================================================================
