----------------------------- MODULE TimerThread -----------------------------
(***************************************************************************)
(* 2024/src/CV/CVUse1.cpp: a thread that waits on a condition variable     *)
(* until a test has completed or TimeoutDuration has passed.  The thread   *)
(* that completes the test is not in the repository: it is taken to store  *)
(* testCompleted and then to notify, without the mutex, or never to.       *)
(***************************************************************************)
VARIABLES timer,             \* control point of TimerThread
          late,              \* TimeoutDuration has passed since wait_for began
          testCompleted, timedOut,
          setter,            \* control point of the other thread
          inTime             \* the test was completed before the timeout

vars == <<timer, late, testCompleted, timedOut, setter, inTime>>

Init == /\ timer = "lock"
        /\ late = FALSE
        /\ testCompleted = FALSE /\ timedOut = FALSE
        /\ setter = "test"
        /\ inTime = FALSE

Goto(from, to) == timer = from /\ timer' = to

\* The lock, which nobody contends for, and the start of wait_for.
Begin == /\ Goto("lock", "test")
         /\ UNCHANGED <<late, testCompleted, timedOut, setter, inTime>>

\* The predicate: wait_for returns true, or the thread goes to sleep.
Test == /\ Goto("test", IF testCompleted THEN "end" ELSE "wait")
        /\ UNCHANGED <<late, testCompleted, timedOut, setter, inTime>>

\* Defect: a wait that ends is always followed by another.
WakeAgain == /\ Goto("wait", "test")
             /\ UNCHANGED <<late, testCompleted, timedOut, setter, inTime>>

\* Where a sleep that ends leads to is told by the clock: when the time has come
\* the predicate is tested once more.
Awake == IF late THEN "last" ELSE "test"

\* The sleep ends by itself, or because the time has come.
Wake == /\ Goto("wait", Awake)
        /\ UNCHANGED <<late, testCompleted, timedOut, setter, inTime>>

\* Defect: a timeout is reported without another look at the predicate.
LastBlind == /\ Goto("last", "end")
             /\ timedOut' = TRUE
             /\ UNCHANGED <<late, testCompleted, setter, inTime>>

Last == /\ Goto("last", "end")
        /\ timedOut' = ~testCompleted
        /\ UNCHANGED <<late, testCompleted, setter, inTime>>

TimeOut == /\ timer # "lock" /\ ~late
           /\ late' = TRUE
           /\ UNCHANGED <<timer, testCompleted, timedOut, setter, inTime>>

Complete == /\ setter = "test"
            /\ setter' = "notify"
            /\ testCompleted' = TRUE
            /\ inTime' = ~late
            /\ UNCHANGED <<timer, late, timedOut>>

\* notify_one wakes the thread if it sleeps, and is lost otherwise.
Notify == /\ setter = "notify"
          /\ setter' = "end"
          /\ timer' = IF timer = "wait" THEN Awake ELSE timer
          /\ UNCHANGED <<late, testCompleted, timedOut, inTime>>

\* Without a spurious end of the sleep it ends when the time has come.
Timer == Begin \/ Test \/ (late /\ Wake) \/ Last

Next == Begin \/ Test \/ Wake \/ Last \/ TimeOut \/ Complete \/ Notify

-----------------------------------------------------------------------------
(* Properties.                                                             *)

\* A test that is completed before the time has come is never reported as timed
\* out, even if its notification comes between the test of the predicate and the
\* sleep and is lost (line 9); and a report means that it is late.
NoFalseAlarm == timedOut => late /\ ~inTime

-----------------------------------------------------------------------------
(* The inductive invariant behind NoFalseAlarm.                            *)

\* Every variable ranges over what its C++ type and use allow.
TypeOK == /\ timer \in {"lock", "test", "wait", "last", "end"}
          /\ late \in BOOLEAN /\ testCompleted \in BOOLEAN
          /\ timedOut \in BOOLEAN /\ inTime \in BOOLEAN
          /\ setter \in {"test", "notify", "end"}

\* The last look at the predicate is taken when the time has come, and a test
\* that is completed in time stays completed.
IndInv == /\ TypeOK
          /\ timer = "last" => late
          /\ inTime => testCompleted
          /\ NoFalseAlarm
=============================================================================
