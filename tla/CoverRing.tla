------------------------------ MODULE CoverRing ------------------------------
(***************************************************************************)
(* 2024/src/IpcMmap_And_semaphore/mmap7_ipc_unamed_sem_covering_w.cc and   *)
(* mmap7_ipc_unamed_sem_r.cc: a ring in shared memory whose writers do not *)
(* wait for free slots but cover unread values.  Counters, sem_read and    *)
(* rw_status are shared by the two processes.  Each of Writers calls Write *)
(* Calls times; when all have ended Main destroys the SharedMemory, which  *)
(* writes the end flag, and Reader reads until it finds that flag.         *)
(*                                                                         *)
(* The writer process is past its constructor before the reader starts.    *)
(***************************************************************************)
EXTENDS CppInt, Sequences, FiniteSets

CONSTANTS Writers, Main,     \* the threads of the writer process
          Reader,            \* the thread of the reader process
          NUM_SLOTS,
          Calls,             \* of Write, by each of Writers (100 in the program)
          Zero, Datum,       \* a slot never written, a value of WriterThread
          EndFlag            \* 999

ASSUME ThreadsAssumption == /\ IsFiniteSet(Writers)
                            /\ Main \notin Writers \cup {Reader} /\ Reader \notin Writers
ASSUME BoundAssumption == NUM_SLOTS \in Nat \ {0} /\ Calls \in Nat

VARIABLES data, next_write_slot_, next_read_slot_, sem_read,
          rw_status,
          pc,
          seen,              \* the load of next_write_slot_ in the loop's condition
          slot,
          i,                 \* calls of Write that have returned
          should_continue

memory == <<data, next_write_slot_, next_read_slot_, sem_read, rw_status>>
locals == <<seen, slot, i, should_continue>>
vars == <<memory, pc, locals>>

WritingThreads == Writers \cup {Main}
Threads == WritingThreads \cup {Reader}
Slots == 0 .. NUM_SLOTS - 1
RWStatus == {"IDLE", "WRITING", "READING"}

\* What a thread's next call of Write writes, and how many calls it makes.
Value(t) == IF t = Main THEN EndFlag ELSE Datum
Limit(t) == IF t = Main THEN 1 ELSE Calls

Slot(n) == n % NUM_SLOTS

At(S, points) == {t \in S: pc[t] \in points}

MemoryInit == /\ data = [s \in Slots |-> Zero]
              /\ next_write_slot_ = 0
              /\ next_read_slot_ = 0
              /\ sem_read = 0
              /\ rw_status = "IDLE"

LocalsInit == /\ seen = [t \in Threads |-> 0]
              /\ slot = [t \in Threads |-> 0]
              /\ i = [t \in WritingThreads |-> 0]
              /\ should_continue = TRUE

Init == /\ MemoryInit
        /\ pc = [t \in Threads |-> "start"]
        /\ LocalsInit

Goto(t, from, to) == pc[t] = from /\ pc' = [pc EXCEPT ![t] = to]

-----------------------------------------------------------------------------
(* The loop at the top of Write and, with READING, of Read.  Its condition *)
(* loads the two counters one after the other; expected_status_ is always  *)
(* IDLE, since compare_exchange_strong only changes a copy of it.          *)

Load(t) == /\ Goto(t, "check", "compare")
           /\ seen' = [seen EXCEPT ![t] = next_write_slot_]
           /\ UNCHANGED <<memory, slot, i, should_continue>>

FullOrEmpty(t) == Rem(seen[t] - next_read_slot_ + NUM_SLOTS, NUM_SLOTS) = 0

Compare(t) == /\ Goto(t, "compare", IF FullOrEmpty(t) THEN "exchange" ELSE "claim")
              /\ UNCHANGED <<memory, locals>>

\* Defect: the status expected is the one to be set, so no exchange succeeds.
ExchangeOwn(t, status) ==
    /\ Goto(t, "exchange", IF rw_status = status THEN "claim" ELSE "check")
    /\ UNCHANGED <<memory, locals>>

Exchange(t, status) ==
    /\ Goto(t, "exchange", IF rw_status = "IDLE" THEN "claim" ELSE "check")
    /\ rw_status' = IF rw_status = "IDLE" THEN status ELSE rw_status
    /\ UNCHANGED <<data, next_write_slot_, next_read_slot_, sem_read, locals>>

-----------------------------------------------------------------------------
(* Write, in WriterThread and, once its threads are joined, in ~SharedMemory. *)

Joined == \A t \in Writers: pc[t] = "end"

WriteCall(t) == /\ i[t] < Limit(t)
                /\ t = Main => Joined
                /\ Goto(t, "start", "check")
                /\ UNCHANGED <<memory, locals>>

WriteClaim(t) == /\ Goto(t, "claim", "store")
                 /\ slot' = [slot EXCEPT ![t] = Slot(next_write_slot_)]
                 /\ next_write_slot_' = next_write_slot_ + 1
                 /\ UNCHANGED <<data, next_read_slot_, sem_read, rw_status, seen, i, should_continue>>

WriteStore(t) == /\ Goto(t, "store", "post")
                 /\ data' = [data EXCEPT ![slot[t]] = Value(t)]
                 /\ UNCHANGED <<next_write_slot_, next_read_slot_, sem_read, rw_status, locals>>

WritePost(t) == /\ Goto(t, "post", "release")
                /\ sem_read' = sem_read + 1
                /\ UNCHANGED <<data, next_write_slot_, next_read_slot_, rw_status, locals>>

\* Defect: rw_status is not stored.
WriteKeep(t) == /\ Goto(t, "release", "start")
                /\ i' = [i EXCEPT ![t] = @ + 1]
                /\ seen' = [seen EXCEPT ![t] = 0]
                /\ slot' = [slot EXCEPT ![t] = 0]
                /\ UNCHANGED <<memory, should_continue>>

\* rw_status is stored whether or not this call exchanged it.
WriteRelease(t) == /\ Goto(t, "release", "start")
                   /\ rw_status' = "IDLE"
                   /\ i' = [i EXCEPT ![t] = @ + 1]
                   /\ seen' = [seen EXCEPT ![t] = 0]
                   /\ slot' = [slot EXCEPT ![t] = 0]
                   /\ UNCHANGED <<data, next_write_slot_, next_read_slot_, sem_read, should_continue>>

WriteEnd(t) == /\ i[t] = Limit(t)
               /\ Goto(t, "start", "end")
               /\ UNCHANGED <<memory, locals>>

WriterThread(t) == \/ WriteCall(t) \/ Load(t) \/ Compare(t) \/ Exchange(t, "WRITING")
                   \/ WriteClaim(t) \/ WriteStore(t) \/ WritePost(t) \/ WriteRelease(t)
                   \/ WriteEnd(t)

-----------------------------------------------------------------------------
(* Read.                                                                   *)

\* Defect: a value is read without a token.
ReadUnasked == /\ should_continue
               /\ Goto(Reader, "start", "check")
               /\ UNCHANGED <<memory, locals>>

ReadWait == /\ should_continue
            /\ sem_read > 0
            /\ Goto(Reader, "start", "check")
            /\ sem_read' = sem_read - 1
            /\ UNCHANGED <<data, next_write_slot_, next_read_slot_, rw_status, locals>>

ReadClaim == /\ Goto(Reader, "claim", "load")
             /\ slot' = [slot EXCEPT ![Reader] = Slot(next_read_slot_)]
             /\ next_read_slot_' = next_read_slot_ + 1
             /\ UNCHANGED <<data, next_write_slot_, sem_read, rw_status, seen, i, should_continue>>

ReadLoad == /\ Goto(Reader, "load", "release")
            /\ should_continue' = (data[slot[Reader]] # EndFlag)
            /\ UNCHANGED <<memory, seen, slot, i>>

ReadRelease == /\ Goto(Reader, "release", "start")
               /\ rw_status' = "IDLE"
               /\ seen' = [seen EXCEPT ![Reader] = 0]
               /\ slot' = [slot EXCEPT ![Reader] = 0]
               /\ UNCHANGED <<data, next_write_slot_, next_read_slot_, sem_read, i, should_continue>>

ReadEnd == /\ ~should_continue
           /\ Goto(Reader, "start", "end")
           /\ UNCHANGED <<memory, locals>>

ReaderThread == \/ ReadWait \/ Load(Reader) \/ Compare(Reader) \/ Exchange(Reader, "READING")
                \/ ReadClaim \/ ReadLoad \/ ReadRelease \/ ReadEnd

-----------------------------------------------------------------------------
Ended == \A t \in Threads: pc[t] = "end"

Next == \/ \E t \in WritingThreads: WriterThread(t)
        \/ ReaderThread
        \/ Ended /\ UNCHANGED vars

Spec == Init /\ [][Next]_vars

\* The scheduler runs every thread that can run.
FairSpec == /\ Spec
            /\ \A t \in WritingThreads: WF_vars(WriterThread(t))
            /\ WF_vars(ReaderThread)

-----------------------------------------------------------------------------
(* Properties.                                                             *)

\* "off" is for CoverLives: the thread's process does not run.
Points == {"off", "start", "check", "compare", "exchange", "claim", "store", "post",
           "load", "release", "end"}

\* Every variable ranges over what its C++ type and use allow.
TypeOK == /\ data \in [Slots -> {Zero, Datum, EndFlag}]
          /\ next_write_slot_ \in Nat
          /\ next_read_slot_ \in Nat
          /\ sem_read \in Nat
          /\ rw_status \in RWStatus
          /\ pc \in [Threads -> Points]
          /\ seen \in [Threads -> Nat]
          /\ slot \in [Threads -> Slots]
          /\ i \in [WritingThreads -> Nat]
          /\ should_continue \in BOOLEAN

\* Every call of Write that has claimed a slot is in the semaphore, still on its
\* way there, or with the reader: the read counter never overtakes the write
\* counter (w.cc lines 84-90, r.cc lines 69-78), although no lock orders them.
ReadsFollowWrites ==
    next_write_slot_ = next_read_slot_ + sem_read
                         + Cardinality(At(WritingThreads, {"store", "post"}))
                         + Cardinality(At({Reader}, {"check", "compare", "exchange", "claim"}))

\* Whoever has set rw_status has yet to store IDLE, so that no thread spins on a
\* status that nobody will reset (w.cc lines 76-92, r.cc lines 70-86).
StatusHasOwner ==
    /\ rw_status = "WRITING" => At(WritingThreads, {"claim", "store", "post", "release"}) # {}
    /\ rw_status = "READING" => At({Reader}, {"claim", "load", "release"}) # {}

\* Both programs end: no thread spins for ever in its loop, and however the
\* values were covered the reader meets the end flag (w.cc line 64, r.cc line 81).
Terminates == <>Ended

\* The comment at r.cc line 14, "the race of write and read has to be solved":
\* no writer stores into the slot that the reader loads.
NoRace == \A t \in At(WritingThreads, {"store"}):
            At({Reader}, {"load"}) # {} => slot[t] # slot[Reader]
=============================================================================
