------------------------------ MODULE ThreadRefs ------------------------------
(***************************************************************************)
(* 2023/src/Thread/ThreadWithVector.cpp: in each of N iterations main      *)
(* starts one thread, T1, that gets a copy of i and one, T2, that gets a   *)
(* reference to tmp, a variable of that iteration; it joins them all after *)
(* the loop.  The variables named tmp lie one after the other at one place *)
(* of main's stack, which is free for other uses between two of them and   *)
(* after the last.                                                         *)
(***************************************************************************)
EXTENDS Naturals

CONSTANTS N,                 \* iterations (3)
          Reused             \* what tmp's place may hold once it is reused,
                             \* numbers of iterations among it

VARIABLES at,                \* control point of main
          i,
          tmp,               \* the contents of tmp's place on the stack
          running,           \* the threads that have not printed yet
          printed            \* which thread has printed what

vars == <<at, i, tmp, running, printed>>

Iterations == 0 .. N - 1

Init == /\ at = "push" /\ i = 0
        /\ tmp \in Reused
        /\ running = {}
        /\ printed = {}

Push == /\ at = "push"
        /\ at' = "declare"
        /\ running' = running \cup {<<"T1", i>>}
        /\ UNCHANGED <<i, tmp, printed>>

Declare == /\ at = "declare"
           /\ at' = "emplace"
           /\ tmp' = i
           /\ UNCHANGED <<i, running, printed>>

Emplace == /\ at = "emplace"
           /\ at' = "next"
           /\ running' = running \cup {<<"T2", i>>}
           /\ UNCHANGED <<i, tmp, printed>>

\* tmp dies with its iteration.
NextIteration == /\ at = "next"
                 /\ i' = i + 1
                 /\ at' = IF i + 1 < N THEN "push" ELSE "join"
                 /\ UNCHANGED <<tmp, running, printed>>

\* Both loops of joins.
Join == /\ at = "join" /\ running = {}
        /\ at' = "end"
        /\ UNCHANGED <<i, tmp, running, printed>>

main == Push \/ Declare \/ Emplace \/ NextIteration \/ Join

\* Outside the life of a tmp other variables and calls of main may lie there, such
\* as the thread object that is moved into the vector and left with the id 0.
Reuse == /\ at \in {"push", "declare", "join"}
         /\ tmp' \in Reused
         /\ UNCHANGED <<at, i, running, printed>>

\* T1 has its number; T2 follows its reference whenever it comes to run.
Run(f, k) == /\ <<f, k>> \in running
             /\ running' = running \ {<<f, k>>}
             /\ printed' = printed \cup {<<f, k, IF f = "T1" THEN k ELSE tmp>>}
             /\ UNCHANGED <<at, i, tmp>>

Threads == \E f \in {"T1", "T2"}, k \in Iterations: Run(f, k)

Next == main \/ Reuse \/ Threads

Spec == Init /\ [][Next]_vars

-----------------------------------------------------------------------------
(* Properties.                                                             *)

\* What the comment of lines 22-26 gives tmp for: a T2 prints the number of its
\* own iteration.  It does not hold, since a T2 may run when its tmp is gone.
OwnNumber == \A k \in Iterations: \A v \in Iterations \cup Reused:
               <<"T2", k, v>> \in printed => v = k
=============================================================================
