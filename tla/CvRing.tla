------------------------------- MODULE CvRing -------------------------------
(***************************************************************************)
(* 2024/src/IpcMmap_And_semaphore/mmap4_cv.cc: a ring of ints shared by    *)
(* writer and reader threads, guarded by one mutex and two condition       *)
(* variables.  A thread runs its loop over the control points              *)
(*   lock -> test -> (wait -> lock | claim) -> store or load -> finish     *)
(* The payload i * 10 is modelled by <<writer, i>>, which names the call   *)
(* that wrote it.  The counters are naturals that count the fetch_adds;    *)
(* the int the program computes with is AsInt of them.                     *)
(***************************************************************************)
EXTENDS CppInt, Sequences, FiniteSets

CONSTANTS Writers, Readers,  \* the threads main starts
          NUM_SLOTS,
          MaxWrites,         \* bound of the model on the calls of Write
          NoThread,          \* "the mutex is free"
          Zero,              \* what memset leaves in a slot, a value of no call
          Garbage            \* what a load outside the mapping may return

ASSUME ThreadsAssumption == /\ IsFiniteSet(Readers)
                            /\ Writers \cap Readers = {}
                            /\ NoThread \notin Writers \cup Readers
ASSUME BoundAssumption == NUM_SLOTS \in Nat \ {0} /\ MaxWrites \in Nat

VARIABLES memory_,           \* the mapped array
          next_write_slot_, next_read_slot_,
          mutex_,            \* the thread that holds the mutex, or NoThread
          pc,                \* control point of each thread
          slot,              \* the local variable slot of Write and of Read
          i,                 \* a writer's loop counter
          value              \* what a reader's last Read returned

vars == <<memory_, next_write_slot_, next_read_slot_, mutex_, pc, slot, i, value>>

Threads == Writers \cup Readers
Slots == 0 .. NUM_SLOTS - 1
Values == Writers \X Nat

Init == /\ memory_ = [s \in Slots |-> Zero]
        /\ next_write_slot_ = 0
        /\ next_read_slot_ = 0
        /\ mutex_ = NoThread
        /\ pc = [t \in Threads |-> "lock"]
        /\ slot = [t \in Threads |-> 0]
        /\ i = [w \in Writers |-> 0]
        /\ value = [r \in Readers |-> Zero]

-----------------------------------------------------------------------------
(* What both methods share.                                                *)

\* Defect: a slot numbered from one.
SlotFromOne(n) == Rem(AsInt(n) - 1, NUM_SLOTS)

Slot(n) == Rem(AsInt(n), NUM_SLOTS)

\* Defect: `<=` in the predicate of data_available_.
WriteReadyAtLimit == {AsInt(next_write_slot_) - AsInt(next_read_slot_) <= NUM_SLOTS}

\* The predicate of data_available_.  Once a counter has wrapped, the signed
\* subtraction may overflow, which is undefined: it wraps, or it is done in a
\* wider register.
WriteReady == LET d == AsInt(next_write_slot_) - AsInt(next_read_slot_)
              IN  {d < NUM_SLOTS, AsInt(d) < NUM_SLOTS}

\* The predicate of data_ready_.
ReadReady == AsInt(next_read_slot_) < AsInt(next_write_slot_)

\* Writers sleep on data_available_ only, readers on data_ready_ only.
Sleepers(S) == {t \in S: pc[t] = "wait"}

\* Defect: the method does not take the mutex.
LockWithoutMutex(t) == /\ pc[t] = "lock"
                       /\ t \in Writers => next_write_slot_ < MaxWrites
                       /\ mutex_' = t
                       /\ pc' = [pc EXCEPT ![t] = "test"]
                       /\ UNCHANGED <<memory_, next_write_slot_, next_read_slot_, slot, i, value>>

\* unique_lock's constructor, and the relock inside cv.wait.
Lock(t) == /\ pc[t] = "lock"
           /\ mutex_ = NoThread
           /\ t \in Writers => next_write_slot_ < MaxWrites
           /\ mutex_' = t
           /\ pc' = [pc EXCEPT ![t] = "test"]
           /\ UNCHANGED <<memory_, next_write_slot_, next_read_slot_, slot, i, value>>

\* cv.wait releases the mutex and sleeps, in one step.
Sleep(t) == /\ pc[t] = "test"
            /\ mutex_' = NoThread
            /\ pc' = [pc EXCEPT ![t] = "wait"]
            /\ UNCHANGED <<memory_, next_write_slot_, next_read_slot_, slot, i, value>>

Proceed(t) == /\ pc[t] = "test"
              /\ pc' = [pc EXCEPT ![t] = "claim"]
              /\ UNCHANGED <<memory_, next_write_slot_, next_read_slot_, mutex_, slot, i, value>>

\* A wait on a condition variable may end without a notification.
Spurious(t) == /\ pc[t] = "wait"
               /\ pc' = [pc EXCEPT ![t] = "lock"]
               /\ UNCHANGED <<memory_, next_write_slot_, next_read_slot_, mutex_, slot, i, value>>

\* An access outside the mapping may kill the process.
Fault(t) == /\ slot[t] \notin Slots
            /\ pc' = [u \in Threads |-> "dead"]
            /\ UNCHANGED <<memory_, next_write_slot_, next_read_slot_, mutex_, slot, i, value>>

\* The method returns: t is back at the top of its loop, the threads in woken
\* leave their wait, and the destructor of the lock releases the mutex.
Return(t, woken) == /\ pc' = [u \in Threads |-> IF u \in woken \cup {t} THEN "lock" ELSE pc[u]]
                    /\ mutex_' = NoThread
                    /\ slot' = [slot EXCEPT ![t] = 0]
                    /\ UNCHANGED <<memory_, next_write_slot_, next_read_slot_, value>>

-----------------------------------------------------------------------------
(* Write.                                                                  *)

WriteWait(t) == \/ TRUE \in WriteReady /\ Proceed(t)
                \/ FALSE \in WriteReady /\ Sleep(t)

WriteClaim(t) == /\ pc[t] = "claim"
                 /\ slot' = [slot EXCEPT ![t] = Slot(next_write_slot_)]
                 /\ next_write_slot_' = next_write_slot_ + 1
                 /\ pc' = [pc EXCEPT ![t] = "store"]
                 /\ UNCHANGED <<memory_, next_read_slot_, mutex_, i, value>>

\* A store outside the mapping that does not kill the process misses the ring.
WriteStore(t) == /\ pc[t] = "store"
                 /\ \/ /\ memory_' = IF slot[t] \in Slots
                                     THEN [memory_ EXCEPT ![slot[t]] = <<t, i[t]>>]
                                     ELSE memory_
                       /\ pc' = [pc EXCEPT ![t] = "finish"]
                       /\ UNCHANGED <<next_write_slot_, next_read_slot_, mutex_, slot, i, value>>
                    \/ Fault(t)

\* Defect: data_ready_ is not notified.
NotNotified == {{}}

\* notify_one: at most one sleeping reader, any of them.
Notified == IF Sleepers(Readers) = {} THEN {{}} ELSE {{r}: r \in Sleepers(Readers)}

WriteFinish(t) == /\ pc[t] = "finish"
                  /\ \E woken \in Notified: Return(t, woken)
                  /\ i' = [i EXCEPT ![t] = @ + 1]

-----------------------------------------------------------------------------
(* Read.                                                                   *)

\* Defect: a reader that finds data gives up the mutex and tries again.
ReadWaitAgain(t) == \/ /\ ReadReady /\ pc[t] = "test"
                       /\ mutex_' = NoThread
                       /\ pc' = [pc EXCEPT ![t] = "lock"]
                       /\ UNCHANGED <<memory_, next_write_slot_, next_read_slot_, slot, i, value>>
                    \/ ~ReadReady /\ Sleep(t)

ReadWait(t) == \/ ReadReady /\ Proceed(t)
               \/ ~ReadReady /\ Sleep(t)

ReadClaim(t) == /\ pc[t] = "claim"
                /\ slot' = [slot EXCEPT ![t] = Slot(next_read_slot_)]
                /\ next_read_slot_' = next_read_slot_ + 1
                /\ pc' = [pc EXCEPT ![t] = "load"]
                /\ UNCHANGED <<memory_, next_write_slot_, mutex_, i, value>>

ReadLoad(t) == /\ pc[t] = "load"
               /\ \/ /\ value' = [value EXCEPT ![t] = IF slot[t] \in Slots
                                                      THEN memory_[slot[t]] ELSE Garbage]
                     /\ pc' = [pc EXCEPT ![t] = "finish"]
                     /\ UNCHANGED <<memory_, next_write_slot_, next_read_slot_, mutex_, slot, i>>
                  \/ Fault(t)

\* notify_all.
ReadFinish(t) == /\ pc[t] = "finish"
                 /\ Return(t, Sleepers(Writers))
                 /\ UNCHANGED i

-----------------------------------------------------------------------------
WriterThread(t) == WriteWait(t) \/ WriteClaim(t) \/ WriteStore(t) \/ WriteFinish(t)

ReaderThread(t) == ReadWait(t) \/ ReadClaim(t) \/ ReadLoad(t) \/ ReadFinish(t)

Next == \/ \E t \in Threads: Lock(t) \/ Spurious(t)
        \/ \E t \in Writers: WriterThread(t)
        \/ \E t \in Readers: ReaderThread(t)

Spec == Init /\ [][Next]_vars

\* The scheduler runs every thread that can run; a mutex that stays free is
\* taken by one that wants it; only finitely many waits end spuriously.
FairSpec == /\ Spec
            /\ \A t \in Threads: WF_vars(Lock(t))
            /\ \A t \in Writers: WF_vars(WriterThread(t))
            /\ \A t \in Readers: WF_vars(ReaderThread(t))
            /\ <>[][\A t \in Threads: ~Spurious(t)]_vars

-----------------------------------------------------------------------------
(* Properties.                                                             *)

Unread == next_write_slot_ - next_read_slot_

PCs == {"lock", "test", "wait", "claim", "store", "load", "finish", "dead"}

\* Every variable ranges over what its C++ type and use allow.
TypeOK == /\ memory_ \in [Slots -> Values \cup {Zero}]
          /\ next_write_slot_ \in 0 .. MaxWrites
          /\ next_read_slot_ \in Nat
          /\ mutex_ \in Threads \cup {NoThread}
          /\ pc \in [Threads -> PCs]
          /\ slot \in [Threads -> (1 - NUM_SLOTS) .. (NUM_SLOTS - 1)]
          /\ i \in [Writers -> Nat]
          /\ value \in [Readers -> Values \cup {Zero, Garbage}]

\* The condition tested by cv.wait (lines 37 and 50) still holds when the slot
\* is claimed, a step later: no other thread got between the two.
StillReady == /\ \A t \in Writers: pc[t] = "claim" => Unread < NUM_SLOTS
              /\ \A t \in Readers: pc[t] = "claim" => Unread > 0

\* No wakeup is lost (notify_one in Write, notify_all in Read): while the mutex
\* is free a writer sleeps only if the ring is full, and a reader sleeps only if
\* the readers that are awake are enough for all the unread values.
Awake == {r \in Readers: pc[r] = "lock"}

NoLostWakeup == mutex_ = NoThread =>
                  /\ Sleepers(Writers) # {} => Unread = NUM_SLOTS
                  /\ Sleepers(Readers) # {} => Unread <= Cardinality(Awake)

\* The values that are stored and not yet loaded are those numbered First up to
\* End - 1: a slot that is claimed is not yet stored, or not yet loaded.
First == next_read_slot_ - IF \E t \in Readers: pc[t] = "load" THEN 1 ELSE 0
End == next_write_slot_ - IF \E t \in Writers: pc[t] = "store" THEN 1 ELSE 0

StoredUnread == [k \in 1 .. End - First |-> memory_[Slot(First + k - 1)]]

Stores == [w \in Writers |-> i[w] + IF pc[w] = "finish" THEN 1 ELSE 0]

Fifo == INSTANCE BoundedFifo
          WITH Producers <- Writers, Consumers <- Readers, Capacity <- NUM_SLOTS,
               Nothing <- Zero,
               queue <- StoredUnread,
               sent <- Stores,
               result <- value

\* The ring is a bounded queue: values are read in the order of their stores,
\* each of them once, none overwritten before it is read (Write and Read).
IsFifo == Fifo!Spec

\* Every value that is written is read: neither the readers' sleep nor the
\* writers' locking stops the flow.
EveryValueRead == \A n \in 1 .. MaxWrites:
                    next_write_slot_ >= n ~> next_read_slot_ >= n

\* A writer that sleeps on a full ring is woken (line 57).
WritersWake == \A t \in Writers: pc[t] = "wait" ~> pc[t] # "wait"

\* Both together: nothing is left unread and nobody left asleep, whatever the
\* order in which threads take the mutex (lines 35-57).
NobodyStarves == EveryValueRead /\ WritersWake

\* Only after next_write_slot_ has passed INT_MAX is the ring accessed outside
\* its bounds (lines 39-40, 52-53).
FaultOnlyAfterWrap ==
    (\E t \in Threads: pc[t] = "dead" \/ slot[t] \notin Slots)
        => next_write_slot_ > IntMax + 1

-----------------------------------------------------------------------------
(* The inductive invariant behind StillReady and IsFifo.  It holds as long *)
(* as the counters stay below INT_MAX.                                     *)

NoWrap == MaxWrites <= IntMax

Holding == {"test", "claim", "store", "load", "finish"}

\* The thread inside a method, past its lock, is the owner of the mutex; only
\* writers store and only readers load, and nothing has faulted.
LockInv == \A t \in Threads:
             /\ pc[t] \in Holding <=> mutex_ = t
             /\ pc[t] # "dead"
             /\ pc[t] = "store" => t \in Writers
             /\ pc[t] = "load" => t \in Readers

\* The counters enclose at most NUM_SLOTS values, and a writer inside Write is
\* within the bound of the model.
CountInv == /\ Unread \in 0 .. NUM_SLOTS
            /\ \A t \in Writers: pc[t] \in {"test", "claim"} => next_write_slot_ < MaxWrites

\* A local slot is the one that the last fetch_add returned, in the ring; the
\* value being stored or loaded is one of the ring's NUM_SLOTS.
SlotInv == \A t \in Threads:
             /\ slot[t] \in Slots
             /\ pc[t] = "store" => /\ Unread > 0
                                  /\ slot[t] = Slot(next_write_slot_ - 1)
             /\ pc[t] = "load" => /\ Unread < NUM_SLOTS
                                 /\ next_read_slot_ > 0
                                 /\ slot[t] = Slot(next_read_slot_ - 1)

IndInv == TypeOK /\ LockInv /\ CountInv /\ SlotInv /\ StillReady

\* Behind FaultOnlyAfterWrap: IndInv holds until the call that takes INT_MAX, and
\* after it the predicate of data_ready_ lets no reader claim a slot.
Early == next_write_slot_ <= IntMax

AtWrap == /\ next_read_slot_ \in Nat
          /\ pc \in [Threads -> PCs]
          /\ slot \in [Threads -> Slots]
          /\ \A t \in Threads: pc[t] # "dead"
          /\ \A t \in Readers: pc[t] # "claim"

WrapInv == /\ next_write_slot_ \in Nat
           /\ Early => IndInv
           /\ next_write_slot_ = IntMax + 1 => AtWrap

\* NoLostWakeup at every step: a writer may sleep beside a free slot only until
\* the reader that frees it notifies, and one value may be without a reader only
\* until its writer notifies or the reader that is inside Read takes it.
Attended == \/ \E t \in Writers: pc[t] \in {"store", "finish"}
            \/ \E t \in Readers: pc[t] \in {"test", "claim"}

WakeInv == /\ Sleepers(Writers) # {} =>
                Unread = NUM_SLOTS \/ \E t \in Readers: pc[t] \in {"load", "finish"}
           /\ Sleepers(Readers) # {} =>
                Unread <= Cardinality(Awake) + IF Attended THEN 1 ELSE 0
=============================================================================
