---------------------------- MODULE QueueSingleton ----------------------------
(***************************************************************************)
(* 2023/src/Instance/InstanceqQueue.cpp: one queue for all, whose methods  *)
(* each take its mutex.  Callers make the calls of main, side by side; the *)
(* program itself has one caller.  getInstance's static local pointer is   *)
(* the subject of LazyInstance.                                            *)
(***************************************************************************)
EXTENDS Naturals, Sequences, FiniteSets

CONSTANTS Callers, NoCaller,
          Undefined          \* what front() of an empty queue may give

VARIABLES queue,
          mtx,
          call,              \* how far a caller is in its calls
          locked,            \* how far it is in the method it has called
          frontElement,
          enqueued, dequeued \* what was passed to enqueue, got from dequeue

vars == <<queue, mtx, call, locked, frontElement, enqueued, dequeued>>

\* The calls of main.
Calls == <<"enqueue", "enqueue", "enqueue", "size", "dequeue", "size">>

Init == /\ queue = <<>>
        /\ mtx = NoCaller
        /\ call = [c \in Callers |-> 1]
        /\ locked = [c \in Callers |-> "no"]
        /\ frontElement = [c \in Callers |-> Undefined]
        /\ enqueued = <<>> /\ dequeued = <<>>

Calling(c, method) == call[c] <= Len(Calls) /\ Calls[call[c]] = method

\* Defect: the method takes no lock.
NoLock(c) == /\ call[c] <= Len(Calls) /\ locked[c] = "no"
             /\ locked' = [locked EXCEPT ![c] = "yes"]
             /\ UNCHANGED <<queue, mtx, call, frontElement, enqueued, dequeued>>

Lock(c) == /\ call[c] <= Len(Calls) /\ locked[c] = "no"
           /\ mtx = NoCaller
           /\ mtx' = c
           /\ locked' = [locked EXCEPT ![c] = "yes"]
           /\ UNCHANGED <<queue, call, frontElement, enqueued, dequeued>>

\* The end of a method, with lock_guard's destructor.
Return(c) == /\ mtx' = NoCaller
             /\ call' = [call EXCEPT ![c] = @ + 1]
             /\ locked' = [locked EXCEPT ![c] = "no"]

enqueue(c) == /\ Calling(c, "enqueue") /\ locked[c] = "yes"
              /\ queue' = Append(queue, <<c, call[c]>>)
              /\ enqueued' = Append(enqueued, <<c, call[c]>>)
              /\ Return(c)
              /\ UNCHANGED <<frontElement, dequeued>>

size(c) == /\ Calling(c, "size") /\ locked[c] = "yes"
           /\ Return(c)
           /\ UNCHANGED <<queue, frontElement, enqueued, dequeued>>

\* dequeue does not ask whether there is an element.
front(c) == /\ Calling(c, "dequeue") /\ locked[c] = "yes"
            /\ locked' = [locked EXCEPT ![c] = "pop"]
            /\ frontElement' = [frontElement EXCEPT
                                  ![c] = IF queue = <<>> THEN Undefined ELSE Head(queue)]
            /\ UNCHANGED <<queue, mtx, call, enqueued, dequeued>>

pop(c) == /\ locked[c] = "pop"
          /\ queue' = IF queue = <<>> THEN <<>> ELSE Tail(queue)
          /\ dequeued' = Append(dequeued, frontElement[c])
          /\ Return(c)
          /\ UNCHANGED <<frontElement, enqueued>>

Caller(c) == Lock(c) \/ enqueue(c) \/ size(c) \/ front(c) \/ pop(c)

Next == \E c \in Callers: Caller(c)

-----------------------------------------------------------------------------
(* Properties.                                                             *)

\* The methods act as one step each, however callers interleave: what has been
\* enqueued is what has been dequeued, in that order and each element once,
\* followed by what is in the queue; no dequeue meets an empty queue, since each
\* caller has enqueued before (lines 21-33).
ActsAsQueue == dequeued \o queue = enqueued

-----------------------------------------------------------------------------
(* The inductive invariant behind ActsAsQueue.                             *)

Elements == Callers \X (1 .. Len(Calls))

\* Every variable ranges over what its C++ type and use allow.
TypeOK == /\ queue \in Seq(Elements) /\ enqueued \in Seq(Elements)
          /\ dequeued \in Seq(Elements \cup {Undefined})
          /\ mtx \in Callers \cup {NoCaller}
          /\ call \in [Callers -> 1 .. Len(Calls) + 1]
          /\ locked \in [Callers -> {"no", "yes", "pop"}]
          /\ frontElement \in [Callers -> Elements \cup {Undefined}]

\* Inside a method a caller holds the mutex, and between front and pop it has
\* seen what still is the first element.
LockInv == \A c \in Callers:
             /\ locked[c] # "no" <=> mtx = c
             /\ locked[c] # "no" => call[c] <= Len(Calls)
             /\ locked[c] = "pop" => /\ Calls[call[c]] = "dequeue"
                                     /\ queue # <<>> /\ frontElement[c] = Head(queue)

\* What a caller has enqueued exceeds what it has dequeued by so much.
Balance(c) == IF call[c] <= 4 THEN call[c] - 1 ELSE IF call[c] = 5 THEN 3 ELSE 2

\* As many elements are in the queue as all callers together have left there.
Left == {m \in Callers \X (1 .. 3): m[2] <= Balance(m[1])}

IndInv == TypeOK /\ LockInv /\ Len(queue) = Cardinality(Left) /\ ActsAsQueue
=============================================================================
