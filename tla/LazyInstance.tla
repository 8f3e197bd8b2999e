----------------------------- MODULE LazyInstance -----------------------------
(***************************************************************************)
(* The lazily created instance of 2023/src/Instance, as the threads of one *)
(* program ask for it.  The programs differ in how GetInstance is guarded: *)
(*   "unlocked"  InstanceButThreadUnSafe.cpp, by nothing                   *)
(*   "locked"    InstanceAndThreadSafe1.cpp, by S_Mutex                    *)
(*   "static"    InstanceAndThreadSafe2.cpp, a static local variable; also *)
(*               2024/src/call_once, whose once_flag and static local work *)
(*               alike                                                     *)
(* An instance is named after the thread that constructs it: a thread asks *)
(* once, so it constructs at most one.  Loads and stores of the pointer    *)
(* take effect in one order: of the unlocked program, where C++ promises   *)
(* no such order, nothing is said below but that it ends.                  *)
(***************************************************************************)
CONSTANTS Threads, NoThread,
          NULL

VARIABLES program,
          m_SingleInstance,  \* a static local variable: NULL until initialized
          S_Mutex,           \* its holder; for "static", who initializes
          alive,             \* the instances constructed and not destroyed
          made,              \* what new has returned to each thread, NoThread before
          result,            \* what GetInstance has returned to each thread
          pc,                \* control point of each thread
          main

vars == <<program, m_SingleInstance, S_Mutex, alive, made, result, pc, main>>

Programs == {"unlocked", "locked", "static"}
Pointers == Threads \cup {NULL}

Init == /\ program \in Programs
        /\ m_SingleInstance = NULL
        /\ S_Mutex = NoThread
        /\ alive = {}
        /\ made = [t \in Threads |-> NoThread]
        /\ result = [t \in Threads |-> NULL]
        /\ pc = [t \in Threads |-> "enter"]
        /\ main = "join"

Goto(t, from, to) == pc[t] = from /\ pc' = [pc EXCEPT ![t] = to]

-----------------------------------------------------------------------------
(* GetInstance.                                                            *)

\* Defect: no program takes its mutex.
EnterAtOnce(t) == /\ Goto(t, "enter", "test")
                  /\ UNCHANGED <<program, m_SingleInstance, S_Mutex, alive, made, result, main>>

EnterUnlocked(t) == /\ program = "unlocked"
                    /\ Goto(t, "enter", "test")
                    /\ UNCHANGED <<program, m_SingleInstance, S_Mutex, alive, made, result, main>>

EnterLocked(t) == /\ program = "locked"
                  /\ S_Mutex = NoThread
                  /\ S_Mutex' = t
                  /\ Goto(t, "enter", "test")
                  /\ UNCHANGED <<program, m_SingleInstance, alive, made, result, main>>

\* The first thread initializes, those that come meanwhile wait for it, and
\* later ones find the variable initialized.
EnterStatic(t) == /\ program = "static"
                  /\ \/ /\ m_SingleInstance # NULL
                        /\ Goto(t, "enter", "return")
                        /\ UNCHANGED S_Mutex
                     \/ /\ m_SingleInstance = NULL
                        /\ S_Mutex = NoThread
                        /\ S_Mutex' = t
                        /\ Goto(t, "enter", "new")
                  /\ UNCHANGED <<program, m_SingleInstance, alive, made, result, main>>

Enter(t) == EnterUnlocked(t) \/ EnterLocked(t) \/ EnterStatic(t)

Test(t) == /\ Goto(t, "test", IF m_SingleInstance = NULL THEN "new" ELSE "return")
           /\ UNCHANGED <<program, m_SingleInstance, S_Mutex, alive, made, result, main>>

\* new (std::nothrow) constructs, or returns NULL; a static local variable has
\* its memory.
New(t) == /\ Goto(t, "new", "assign")
          /\ \/ /\ made' = [made EXCEPT ![t] = t]
                /\ alive' = alive \cup {t}
             \/ /\ program # "static"
                /\ made' = [made EXCEPT ![t] = NULL]
                /\ UNCHANGED alive
          /\ UNCHANGED <<program, m_SingleInstance, S_Mutex, result, main>>

Assign(t) == /\ Goto(t, "assign", "return")
             /\ m_SingleInstance' = made[t]
             /\ S_Mutex' = IF program = "static" THEN NoThread ELSE S_Mutex
             /\ UNCHANGED <<program, alive, made, result, main>>

\* The pointer is read again; the destructor of the lock follows.
Return(t) == /\ Goto(t, "return", "print")
             /\ result' = [result EXCEPT ![t] = m_SingleInstance]
             /\ S_Mutex' = IF S_Mutex = t THEN NoThread ELSE S_Mutex
             /\ UNCHANGED <<program, m_SingleInstance, alive, made, main>>

\* Print, and the end of PrintHello.  Print only shows the address, so that a call
\* of it on NULL, which nothing keeps PrintHello from, may return as well.
Finish(t) == /\ Goto(t, "print", "end")
             /\ UNCHANGED <<program, m_SingleInstance, S_Mutex, alive, made, result, main>>

\* As that call is undefined, it may as well end the process with all its threads.
Crash(t) == /\ pc[t] = "print" /\ result[t] = NULL
            /\ pc' = [u \in Threads |-> "dead"]
            /\ main' = "dead"
            /\ UNCHANGED <<program, m_SingleInstance, S_Mutex, alive, made, result>>

PrintHello(t) == Enter(t) \/ Test(t) \/ New(t) \/ Assign(t) \/ Return(t)
                 \/ Finish(t) \/ Crash(t)

-----------------------------------------------------------------------------
(* main: the joins, and deleteInstance or the destructor of the static     *)
(* local variable.                                                         *)

Joined == \A t \in Threads: pc[t] = "end"

\* Defects: main does not wait for its threads, or does not delete.
DeleteEarly == /\ main = "join" /\ m_SingleInstance # NULL
               /\ main' = "end"
               /\ alive' = alive \ {m_SingleInstance}
               /\ m_SingleInstance' = NULL
               /\ UNCHANGED <<program, S_Mutex, made, result, pc>>

DeleteNothing == /\ main = "join" /\ Joined
                 /\ main' = "end"
                 /\ UNCHANGED <<program, m_SingleInstance, S_Mutex, alive, made, result, pc>>

deleteInstance == /\ main = "join" /\ Joined
                  /\ main' = "end"
                  /\ alive' = alive \ {m_SingleInstance}
                  /\ m_SingleInstance' = NULL
                  /\ UNCHANGED <<program, S_Mutex, made, result, pc>>

\* main has returned, or the process is gone.
Done == main \in {"end", "dead"} /\ UNCHANGED vars

Next == \/ \E t \in Threads: PrintHello(t)
        \/ deleteInstance
        \/ Done

Spec == Init /\ [][Next]_vars

-----------------------------------------------------------------------------
(* Properties.                                                             *)

\* Every variable ranges over what its C++ type and use allow.
TypeOK == /\ program \in Programs
          /\ m_SingleInstance \in Pointers
          /\ S_Mutex \in Threads \cup {NoThread}
          /\ alive \subseteq Threads
          /\ made \in [Threads -> Pointers \cup {NoThread}]
          /\ result \in [Threads -> Pointers]
          /\ pc \in [Threads -> {"enter", "test", "new", "assign", "return", "print", "end", "dead"}]
          /\ main \in {"join", "end", "dead"}

\* With the mutex, or with a static local variable, all threads that get an
\* instance get the same, and no other is ever constructed (GetInstance,
\* get_instance).
OneInstance == program # "unlocked" =>
                 /\ \A t, u \in alive: t = u
                 /\ \A t, u \in Threads: result[t] # NULL /\ result[u] # NULL
                                           => result[t] = result[u]

\* In a guarded program a thread is handed an instance that is constructed and not
\* yet destroyed, whoever else's new has failed.  Only if new has failed for the
\* thread itself it is handed NULL, on which it then calls Print
\* (InstanceAndThreadSafe1.cpp lines 43-47 and 86, main's line 104).
AnswersAreAlive == \A t \in Threads:
  program # "unlocked" /\ pc[t] = "print" =>
     \/ result[t] \in alive
     \/ program = "locked" /\ result[t] = NULL /\ made[t] = NULL

\* The guarded programs leave no instance behind (deleteInstance).
NothingLeaks == main = "end" /\ program # "unlocked" => alive = {}

-----------------------------------------------------------------------------
(* The inductive invariant behind them.                                    *)

Guarded == program # "unlocked"

\* Past the lock, or while a static local variable is initialized, a thread is
\* alone; it leaves the pointer NULL only if its own new has failed.
LockInv == Guarded => \A t \in Threads:
             /\ pc[t] \in {"new", "assign"} => S_Mutex = t
             /\ pc[t] = "test" => program = "locked" /\ S_Mutex = t
             /\ program = "locked" /\ pc[t] = "return" => S_Mutex = t
             /\ pc[t] = "return" /\ m_SingleInstance = NULL
                  => program = "locked" /\ made[t] = NULL
             /\ pc[t] = "assign" => made[t] = t \/ program = "locked"

\* A thread has called new once it has passed it, and makes its own instance at
\* most; while main waits, what is pointed to is alive.
AliveInv ==
    /\ \A t \in Threads: /\ pc[t] \in {"enter", "test", "new"} => made[t] = NoThread
                         /\ pc[t] = "assign" => made[t] # NoThread
                         /\ made[t] \in {NoThread, NULL, t}
    /\ main = "join" => /\ m_SingleInstance \in alive \cup {NULL}
                        /\ \A t \in Threads: /\ made[t] \in alive \cup {NULL, NoThread}
                                             /\ result[t] \in alive \cup {NULL}

\* In a guarded program the only instance is the one that is pointed to, or the
\* one that the thread between new and the assignment has just made.
OneInv ==
    Guarded /\ main = "join" =>
       /\ \A t \in Threads: /\ pc[t] = "new" => m_SingleInstance = NULL /\ alive = {}
                            /\ pc[t] = "assign" => /\ m_SingleInstance = NULL
                                                   /\ alive \subseteq {made[t]}
       /\ m_SingleInstance # NULL => alive = {m_SingleInstance}
       /\ m_SingleInstance = NULL => /\ \A t \in Threads: result[t] = NULL
                                     /\ alive # {} => \E t \in Threads: pc[t] = "assign"

\* main deletes what is left when all threads have ended; a process dies whole.
EndInv == /\ main = "end" => Joined /\ (Guarded => alive = {})
          /\ main = "dead" <=> \E t \in Threads: pc[t] = "dead"
          /\ main = "dead" => \A t \in Threads: pc[t] = "dead"

IndInv == /\ TypeOK /\ LockInv /\ AliveInv /\ OneInv /\ EndInv
          /\ OneInstance /\ AnswersAreAlive
=============================================================================
