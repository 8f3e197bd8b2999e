------------------------------- MODULE SemRing -------------------------------
(***************************************************************************)
(* 2024/src/IpcMmap_And_semaphore/mmap4_sem.cc: the ring of CvRing guarded *)
(* by two counting semaphores and no mutex, so that several threads are    *)
(* inside Write and Read at once.  A thread runs its loop over             *)
(*   wait -> claim -> store or load -> post -> wait                        *)
(* Values and counters are those of CvRing.                                *)
(***************************************************************************)
EXTENDS CppInt, Sequences, FiniteSets

CONSTANTS Writers, Readers,  \* the threads main starts
          NUM_SLOTS,
          MaxWrites,         \* bound of the model on the calls of Write
          Zero,              \* what memset leaves in a slot, a value of no call
          Garbage            \* what a load outside the mapping may return

ASSUME ThreadsAssumption == /\ IsFiniteSet(Writers) /\ IsFiniteSet(Readers)
                            /\ Writers \cap Readers = {}
ASSUME BoundAssumption == NUM_SLOTS \in Nat \ {0} /\ MaxWrites \in Nat

VARIABLES memory_,           \* the mapped array
          next_write_slot_, next_read_slot_,
          sem_write_,        \* tokens for free slots
          sem_read_,         \* tokens for written slots
          pc,                \* control point of each thread
          slot,              \* the local variable slot of Write and of Read
          i,                 \* a writer's loop counter
          value              \* what a reader's last Read returned

shared == <<memory_, next_write_slot_, next_read_slot_, sem_write_, sem_read_>>
vars == <<shared, pc, slot, i, value>>

Threads == Writers \cup Readers
Slots == 0 .. NUM_SLOTS - 1
Values == Writers \X Nat

At(S, points) == {t \in S: pc[t] \in points}

\* Defect: sem_write_ starts with a token too many.
InitOneMore == /\ memory_ = [s \in Slots |-> Zero]
               /\ next_write_slot_ = 0
               /\ next_read_slot_ = 0
               /\ sem_write_ = NUM_SLOTS + 1
               /\ sem_read_ = 0
               /\ pc = [t \in Threads |-> "wait"]
               /\ slot = [t \in Threads |-> 0]
               /\ i = [w \in Writers |-> 0]
               /\ value = [r \in Readers |-> Zero]

Init == /\ memory_ = [s \in Slots |-> Zero]
        /\ next_write_slot_ = 0
        /\ next_read_slot_ = 0
        /\ sem_write_ = NUM_SLOTS
        /\ sem_read_ = 0
        /\ pc = [t \in Threads |-> "wait"]
        /\ slot = [t \in Threads |-> 0]
        /\ i = [w \in Writers |-> 0]
        /\ value = [r \in Readers |-> Zero]

\* Defect: a slot numbered from one.
SlotFromOne(n) == Rem(AsInt(n) - 1, NUM_SLOTS)

Slot(n) == Rem(AsInt(n), NUM_SLOTS)

\* An access outside the mapping may kill the process.
Fault(t) == /\ slot[t] \notin Slots
            /\ pc' = [u \in Threads |-> "dead"]
            /\ UNCHANGED <<shared, slot, i, value>>

Goto(t, from, to) == pc[t] = from /\ pc' = [pc EXCEPT ![t] = to]

-----------------------------------------------------------------------------
(* Write.                                                                  *)

WriteWait(t) == /\ next_write_slot_ + Cardinality(At(Writers, {"claim"})) < MaxWrites
                /\ sem_write_ > 0
                /\ Goto(t, "wait", "claim")
                /\ sem_write_' = sem_write_ - 1
                /\ UNCHANGED <<memory_, next_write_slot_, next_read_slot_, sem_read_, slot, i, value>>

WriteClaim(t) == /\ Goto(t, "claim", "store")
                 /\ slot' = [slot EXCEPT ![t] = Slot(next_write_slot_)]
                 /\ next_write_slot_' = next_write_slot_ + 1
                 /\ UNCHANGED <<memory_, next_read_slot_, sem_write_, sem_read_, i, value>>

\* A store outside the mapping that does not kill the process misses the ring.
WriteStore(t) == \/ /\ Goto(t, "store", "post")
                    /\ memory_' = IF slot[t] \in Slots
                                  THEN [memory_ EXCEPT ![slot[t]] = <<t, i[t]>>]
                                  ELSE memory_
                    /\ UNCHANGED <<next_write_slot_, next_read_slot_, sem_write_, sem_read_,
                                   slot, i, value>>
                 \/ pc[t] = "store" /\ Fault(t)

\* Defect: Write posts the semaphore it has waited for.
WritePostOwn(t) == /\ Goto(t, "post", "wait")
                   /\ sem_write_' = sem_write_ + 1
                   /\ slot' = [slot EXCEPT ![t] = 0]
                   /\ i' = [i EXCEPT ![t] = @ + 1]
                   /\ UNCHANGED <<memory_, next_write_slot_, next_read_slot_, sem_read_, value>>

WritePost(t) == /\ Goto(t, "post", "wait")
                /\ sem_read_' = sem_read_ + 1
                /\ slot' = [slot EXCEPT ![t] = 0]
                /\ i' = [i EXCEPT ![t] = @ + 1]
                /\ UNCHANGED <<memory_, next_write_slot_, next_read_slot_, sem_write_, value>>

-----------------------------------------------------------------------------
(* Read.                                                                   *)

\* Defect: the wait expires at once and is called again.
ReadWaitExpired(t) == pc[t] = "wait" /\ UNCHANGED vars

ReadWait(t) == /\ sem_read_ > 0
               /\ Goto(t, "wait", "claim")
               /\ sem_read_' = sem_read_ - 1
               /\ UNCHANGED <<memory_, next_write_slot_, next_read_slot_, sem_write_, slot, i, value>>

ReadClaim(t) == /\ Goto(t, "claim", "load")
                /\ slot' = [slot EXCEPT ![t] = Slot(next_read_slot_)]
                /\ next_read_slot_' = next_read_slot_ + 1
                /\ UNCHANGED <<memory_, next_write_slot_, sem_write_, sem_read_, i, value>>

ReadLoad(t) == \/ /\ Goto(t, "load", "post")
                  /\ value' = [value EXCEPT ![t] = IF slot[t] \in Slots
                                                   THEN memory_[slot[t]] ELSE Garbage]
                  /\ UNCHANGED <<shared, slot, i>>
               \/ pc[t] = "load" /\ Fault(t)

ReadPost(t) == /\ Goto(t, "post", "wait")
               /\ sem_write_' = sem_write_ + 1
               /\ slot' = [slot EXCEPT ![t] = 0]
               /\ UNCHANGED <<memory_, next_write_slot_, next_read_slot_, sem_read_, i, value>>

-----------------------------------------------------------------------------
WriterThread(t) == WriteWait(t) \/ WriteClaim(t) \/ WriteStore(t) \/ WritePost(t)

ReaderThread(t) == ReadWait(t) \/ ReadClaim(t) \/ ReadLoad(t) \/ ReadPost(t)

\* The bound is reached and every value has been read, or the process has been
\* killed: the model stops here.
Finished == /\ \/ next_read_slot_ = MaxWrites /\ \A t \in Threads: pc[t] = "wait"
               \/ \E t \in Threads: pc[t] = "dead"
            /\ UNCHANGED vars

Next == \/ \E t \in Writers: WriterThread(t)
        \/ \E t \in Readers: ReaderThread(t)
        \/ Finished

Spec == Init /\ [][Next]_vars

\* The scheduler runs every thread that can run, and sem_post wakes a waiter.
FairSpec == /\ Spec
            /\ \A t \in Writers: WF_vars(WriterThread(t))
            /\ \A t \in Readers: WF_vars(ReaderThread(t))

-----------------------------------------------------------------------------
(* Properties.                                                             *)

Unread == next_write_slot_ - next_read_slot_

\* Every variable ranges over what its C++ type and use allow.
TypeOK == /\ memory_ \in [Slots -> Values \cup {Zero}]
          /\ next_write_slot_ \in Nat
          /\ next_read_slot_ \in Nat
          /\ sem_write_ \in 0 .. NUM_SLOTS
          /\ sem_read_ \in 0 .. NUM_SLOTS
          /\ pc \in [Threads -> {"wait", "claim", "store", "load", "post", "dead"}]
          /\ slot \in [Threads -> (1 - NUM_SLOTS) .. (NUM_SLOTS - 1)]
          /\ i \in [Writers -> Nat]
          /\ value \in [Readers -> Values \cup {Zero, Garbage}]

Alive == \A t \in Threads: pc[t] # "dead"

Accounts == /\ Unread = NUM_SLOTS - sem_write_ - Cardinality(At(Writers, {"claim"}))
                                  - Cardinality(At(Readers, {"load", "post"}))
            /\ Unread = sem_read_ + Cardinality(At(Writers, {"store", "post"}))
                                  + Cardinality(At(Readers, {"claim"}))

\* The two semaphores and the threads between a wait and a post account for
\* every slot: the tokens of sem_write_ and of sem_read_ say how far apart the
\* counters are, whatever the threads are in the middle of.
Tokens == Alive => Accounts

\* No number of writers claims more slots than there are, and no number of
\* readers claims a slot that no writer has claimed (fetch_add, lines 49, 61).
NoOverrun == Unread \in 0 .. NUM_SLOTS

\* The values that are stored and not yet loaded, when one writer and one reader
\* share the ring: those numbered First up to End - 1.
First == next_read_slot_ - Cardinality(At(Readers, {"load"}))
End == next_write_slot_ - Cardinality(At(Writers, {"store"}))

StoredUnread == [k \in 1 .. End - First |-> memory_[Slot(First + k - 1)]]

Stores == [w \in Writers |-> i[w] + IF pc[w] = "post" THEN 1 ELSE 0]

Fifo == INSTANCE BoundedFifo
          WITH Producers <- Writers, Consumers <- Readers, Capacity <- NUM_SLOTS,
               Nothing <- Zero, queue <- StoredUnread, sent <- Stores, result <- value

\* With one writer and one reader the ring is a bounded queue (Write and Read).
IsFifo == Fifo!Spec

\* Every call of Write gets its slot and that slot is read, unless an access past
\* the ring kills the process first: the semaphores never leave a value in the
\* ring with every reader waiting, nor a free slot with every writer waiting.
EverySlotRead ==
    \A n \in 1 .. MaxWrites:
      <>(next_read_slot_ >= n \/ ~Alive)

\* The comments at lines 53 and 58: sem_read_ tells a reader that data can be
\* read, so the slot it loads is not one a writer has yet to store.
DataIsStored == \A r \in At(Readers, {"load"}), w \in At(Writers, {"store"}):
                  slot[r] # slot[w]

\* Only after a counter has passed INT_MAX is the ring accessed outside its
\* bounds (lines 49-50, 61-62).
FaultOnlyAfterWrap ==
    (\E t \in Threads: pc[t] = "dead" \/ slot[t] \notin Slots)
        => next_write_slot_ > IntMax + 1

-----------------------------------------------------------------------------
(* The inductive invariant behind Tokens, NoOverrun and                    *)
(* FaultOnlyAfterWrap.                                                     *)

\* Writers that have taken a token are within the bound.
InBound == next_write_slot_ + Cardinality(At(Writers, {"claim"})) <= MaxWrites

\* Each role has control points of its own, and a fault kills all the threads.
Roles == /\ \A t \in Writers: pc[t] # "load"
         /\ \A t \in Readers: pc[t] # "store"
         /\ Alive \/ \A t \in Threads: pc[t] = "dead"

IndInv == TypeOK /\ InBound /\ Roles /\ Tokens /\ NoOverrun /\ FaultOnlyAfterWrap

-----------------------------------------------------------------------------
(* Behind IsFifo, which holds as long as the counters do not wrap.         *)

\* The bound keeps the counters from wrapping, or they have not done so yet: the
\* last fetch_add has returned INT_MAX at most.
NoWrap == MaxWrites <= IntMax
Early == next_write_slot_ <= IntMax + 1

\* A local slot is in the ring, and nothing has faulted.
InRange == /\ InBound
           /\ \A t \in Threads: slot[t] \in Slots /\ pc[t] # "dead"

NoWrapInv == TypeOK /\ InRange /\ Roles /\ Accounts

\* While a single writer stores, or a single reader loads, its slot is the one of
\* the last fetch_add.
PairInv == /\ \A t \in Writers: pc[t] = "store" =>
                 next_write_slot_ > 0 /\ slot[t] = Slot(next_write_slot_ - 1)
           /\ \A t \in Readers: pc[t] = "load" =>
                 next_read_slot_ > 0 /\ slot[t] = Slot(next_read_slot_ - 1)
=============================================================================
