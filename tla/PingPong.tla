------------------------------ MODULE PingPong ------------------------------
(***************************************************************************)
(* 2023/src/Thread/ThreadAndSafe.cpp: main's thread ("father") and a child *)
(* thread print in turn, handing the turn over through flag, a mutex and   *)
(* one condition variable.  fun runs over the control points               *)
(*   lock -> test -> (wait -> lock | print) -> notify -> lock or done      *)
(***************************************************************************)
EXTENDS Naturals

CONSTANTS Child, Father,     \* the two threads that run fun
          ChildNum,          \* 10 in the program
          FatherNum,         \* 100
          count,             \* 50
          NoThread           \* "the mutex is free"

ASSUME NumAssumption == /\ ChildNum \in Nat /\ FatherNum \in Nat
                        /\ ChildNum # FatherNum
ASSUME CountAssumption == count \in Nat \ {0}
ASSUME ThreadsAssumption == Child # Father /\ NoThread \notin {Child, Father}

VARIABLES flag,
          mtex,              \* the thread that holds the mutex, or NoThread
          pc,                \* control point of each thread
          i,                 \* the loop counter of fun
          j                  \* the loop counter of the lines printed

vars == <<flag, mtex, pc, i, j>>

Threads == {Child, Father}

\* The argument num that main passes to each thread's call of fun.
num(t) == IF t = Child THEN ChildNum ELSE FatherNum

Other(t) == IF t = Child THEN Father ELSE Child

Init == /\ flag = ChildNum
        /\ mtex = NoThread
        /\ pc = [t \in Threads |-> "lock"]
        /\ i = [t \in Threads |-> 0]
        /\ j = [t \in Threads |-> 0]

\* unique_lock's constructor, and the relock inside cv.wait.
Lock(t) == /\ pc[t] = "lock"
           /\ mtex = NoThread
           /\ mtex' = t
           /\ pc' = [pc EXCEPT ![t] = "test"]
           /\ UNCHANGED <<flag, i, j>>

\* Defect: the wait ends without its predicate.
AlwaysReady(t) == TRUE

Ready(t) == num(t) = flag

\* cv.wait: its predicate holds, or it releases the mutex and sleeps.
Wait(t) == /\ pc[t] = "test"
           /\ \/ /\ Ready(t)
                 /\ pc' = [pc EXCEPT ![t] = "print"]
                 /\ UNCHANGED mtex
              \/ /\ ~Ready(t)
                 /\ pc' = [pc EXCEPT ![t] = "wait"]
                 /\ mtex' = NoThread
           /\ UNCHANGED <<flag, i, j>>

\* A wait on a condition variable may end without a notification.
Spurious(t) == /\ pc[t] = "wait"
               /\ pc' = [pc EXCEPT ![t] = "lock"]
               /\ UNCHANGED <<flag, mtex, i, j>>

PrintLine(t) == /\ pc[t] = "print"
                /\ j[t] < num(t)
                /\ j' = [j EXCEPT ![t] = @ + 1]
                /\ UNCHANGED <<flag, mtex, pc, i>>

Flip(t) == /\ pc[t] = "print"
           /\ j[t] = num(t)
           /\ flag' = IF flag = ChildNum THEN FatherNum ELSE ChildNum
           /\ pc' = [pc EXCEPT ![t] = "notify"]
           /\ j' = [j EXCEPT ![t] = 0]
           /\ UNCHANGED <<mtex, i>>

\* Defect: nobody is notified.
NotWoken(t) == pc[Other(t)]

Woken(t) == IF pc[Other(t)] = "wait" THEN "lock" ELSE pc[Other(t)]

\* notify_one, the destructor of the lock, and the test of the outer loop.
Notify(t) == /\ pc[t] = "notify"
             /\ mtex' = NoThread
             /\ i' = [i EXCEPT ![t] = @ + 1]
             /\ pc' = [pc EXCEPT ![t] = IF i[t] + 1 < count THEN "lock" ELSE "done",
                                 ![Other(t)] = Woken(t)]
             /\ UNCHANGED <<flag, j>>

fun(t) == Wait(t) \/ PrintLine(t) \/ Flip(t) \/ Notify(t)

\* main has joined the child: both calls of fun have returned.
Joined == \A t \in Threads: pc[t] = "done"

Next == \/ \E t \in Threads: Lock(t) \/ Spurious(t) \/ fun(t)
        \/ Joined /\ UNCHANGED vars

Spec == Init /\ [][Next]_vars

\* The scheduler runs every thread that can run; a mutex that stays free is
\* taken by one that wants it; only finitely many waits end spuriously.
FairSpec == /\ Spec
            /\ \A t \in Threads: WF_vars(Lock(t)) /\ WF_vars(fun(t))
            /\ <>[][\A t \in Threads: ~Spurious(t)]_vars

-----------------------------------------------------------------------------
(* Properties.                                                             *)

Holding == {"test", "print", "notify"}

\* Every variable ranges over what its C++ type and use allow.
TypeOK == /\ flag \in {ChildNum, FatherNum}
          /\ mtex \in Threads \cup {NoThread}
          /\ pc \in [Threads -> Holding \cup {"lock", "wait", "done"}]
          /\ i \in [Threads -> 0 .. count]
          /\ j \in [Threads -> Nat]

\* No wakeup is lost: while the mutex is free, a thread that sleeps is one whose
\* turn it is not, so notify_one (line 20) is never missed.
NoLostWakeup == mtex = NoThread =>
                  \A t \in Threads: pc[t] = "wait" => ~Ready(t)

Turns(t) == i[t] + IF pc[t] = "notify" THEN 1 ELSE 0

Lines(t) == num(t)

Alternating == INSTANCE Alternation
                 WITH FirstSpeaker <- Child, SecondSpeaker <- Father, Rounds <- count,
                      turn <- Turns(Child) + Turns(Father),
                      said <- j[Child] + j[Father]

\* README.md:37 of Thread: the child prints its lines, then the father its own,
\* and so on for count rounds; no line falls into the turn of the other.
Alternates == Alternating!Spec

\* Both calls of fun return, so that main's join returns (line 28).
Terminates == <>Joined

-----------------------------------------------------------------------------
(* The inductive invariant behind Alternates.                              *)

\* The thread inside the loop body is the owner of the mutex, and only a thread
\* that prints has printed lines in this turn.
LockInv == \A t \in Threads:
             /\ pc[t] \in Holding <=> mtex = t
             /\ j[t] <= num(t)
             /\ pc[t] # "print" => j[t] = 0
             /\ pc[t] = "done" <=> i[t] = count

\* flag tells which thread is ahead in turns; a thread prints in its own.
FlagInv == /\ flag = ChildNum => Turns(Child) = Turns(Father)
           /\ flag = FatherNum => Turns(Child) = Turns(Father) + 1
           /\ \A t \in Threads: pc[t] = "print" => Ready(t)

IndInv == TypeOK /\ LockInv /\ FlagInv

\* NoLostWakeup at every step: a thread sleeps in its turn only until the other,
\* which has just flipped flag, notifies it.
WakeInv == \A t \in Threads: pc[t] = "wait" /\ Ready(t) => pc[Other(t)] = "notify"
=============================================================================
