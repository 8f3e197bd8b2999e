----------------------------- MODULE MessageQueue -----------------------------
(***************************************************************************)
(* 2023/src/MessageQueue/Mq1.cpp, started several times: each program      *)
(* creates a POSIX message queue under one fixed name, forks a child that  *)
(* receives Count messages, sends Count messages itself, and removes the   *)
(* name when it ends.  A queue is named after the program that created it; *)
(* Old is one that a program killed earlier has left under the name.       *)
(* Parents and children may be killed, and the calls of a program may fail: *)
(* the loops count a failed call like any other.                           *)
(***************************************************************************)
EXTENDS Naturals, Sequences, FiniteSets

CONSTANTS Programs,
          Old,               \* the queue that was left behind
          None,              \* no queue
          Count,             \* messages of each program (5)
          MaxMsg,            \* mq_maxmsg, the length of a queue (10)
          Killable,          \* the programs that may be killed
          Failing,           \* the programs whose calls may fail
          MaxFailed          \* bound of the model on the failed calls of a program

ASSUME ProgramsAssumption == /\ IsFiniteSet(Programs) /\ Programs # {}
                             /\ Old \notin Programs /\ None \notin Programs \cup {Old}
ASSUME BoundAssumption == Count \in Nat /\ MaxMsg \in Nat \ {0} /\ MaxFailed \in Nat

VARIABLES name,              \* the queue "/q_hello" stands for
          messages,          \* the contents of every queue, as their senders
          my_queue_id,       \* each program's descriptor, its child's too
          parent, child,     \* control points of the two processes
          sent, got,         \* the loop counters
          failed             \* history: how many calls of each program have failed

processes == <<parent, child, sent, got>>
vars == <<name, messages, my_queue_id, processes, failed>>

Queues == Programs \cup {Old}

\* The name may be free, or stand for an old queue with messages in it.
Init == /\ name \in {None, Old}
        /\ messages = [q \in Queues |-> IF q = Old THEN <<Old>> ELSE <<>>]
        /\ my_queue_id = [p \in Programs |-> None]
        /\ parent = [p \in Programs |-> "create"]
        /\ child = [p \in Programs |-> "none"]
        /\ sent = [p \in Programs |-> 0]
        /\ got = [p \in Programs |-> 0]
        /\ failed = [p \in Programs |-> 0]

Goto(p, from, to) == parent[p] = from /\ parent' = [parent EXCEPT ![p] = to]

-----------------------------------------------------------------------------
(* CreateMQ: O_EXCL first; if the name exists it is unlinked, and opened   *)
(* without O_EXCL.                                                         *)

Open(p, queue) == my_queue_id' = [my_queue_id EXCEPT ![p] = queue]

CreateNew(p) == /\ name = None
                /\ Goto(p, "create", "fork")
                /\ Open(p, p)
                /\ name' = p
                /\ UNCHANGED <<messages, child, sent, got, failed>>

\* Defect: the queue that exists is opened as it is.
ExistsAndKept(p) == /\ name # None
                    /\ Goto(p, "create", "reopen")
                    /\ UNCHANGED <<name, messages, my_queue_id, child, sent, got, failed>>

CreateExists(p) == /\ name # None
                   /\ Goto(p, "create", "unlink")
                   /\ UNCHANGED <<name, messages, my_queue_id, child, sent, got, failed>>

Unlink(p) == /\ Goto(p, "unlink", "reopen")
             /\ name' = None
             /\ UNCHANGED <<messages, my_queue_id, child, sent, got, failed>>

\* Another program may have created a queue since: then it is shared.
Reopen(p) == /\ Goto(p, "reopen", "fork")
             /\ name' = IF name = None THEN p ELSE name
             /\ Open(p, name')
             /\ UNCHANGED <<messages, child, sent, got, failed>>

-----------------------------------------------------------------------------
(* main: fork, SendMsg in the parent and GetMsg in the child.              *)

Fork(p) == /\ Goto(p, "fork", "send")
           /\ child' = [child EXCEPT ![p] = "receive"]
           /\ UNCHANGED <<name, messages, my_queue_id, sent, got, failed>>

\* mq_send waits while the queue is full.
SendMsg(p) == /\ parent[p] = "send" /\ sent[p] < Count
              /\ Len(messages[my_queue_id[p]]) < MaxMsg
              /\ messages' = [messages EXCEPT ![my_queue_id[p]] = Append(@, p)]
              /\ sent' = [sent EXCEPT ![p] = @ + 1]
              /\ UNCHANGED <<name, my_queue_id, parent, child, got, failed>>

\* Defect: mq_receive fails and is called again.
GetMsgRetries(p) == child[p] = "receive" /\ got[p] < Count /\ UNCHANGED vars

\* mq_receive waits while the queue is empty.
GetMsg(p) == /\ child[p] = "receive" /\ got[p] < Count
             /\ messages[my_queue_id[p]] # <<>>
             /\ messages' = [messages EXCEPT ![my_queue_id[p]] = Tail(@)]
             /\ got' = [got EXCEPT ![p] = @ + 1]
             /\ UNCHANGED <<name, my_queue_id, parent, child, sent, failed>>

\* Defect: the loop of the child ends one short.
ChildExitEarly(p) == /\ child[p] = "receive" /\ got[p] = Count - 1
                     /\ child' = [child EXCEPT ![p] = "end"]
                     /\ UNCHANGED <<name, messages, my_queue_id, parent, sent, got, failed>>

\* _exit: the child's copy of the static MyQueue is not destroyed.
ChildExit(p) == /\ child[p] = "receive" /\ got[p] = Count
                /\ child' = [child EXCEPT ![p] = "end"]
                /\ UNCHANGED <<name, messages, my_queue_id, parent, sent, got, failed>>

\* Defect: mq_unlink is forgotten.
ParentExitOnly(p) == /\ sent[p] = Count
                     /\ Goto(p, "send", "end")
                     /\ UNCHANGED <<name, messages, my_queue_id, child, sent, got, failed>>

\* ~MyQueue: mq_unlink of the name, whatever queue it stands for by now.
ParentExit(p) == /\ sent[p] = Count
                 /\ Goto(p, "send", "end")
                 /\ name' = None
                 /\ UNCHANGED <<messages, my_queue_id, child, sent, got, failed>>

Parent(p) == \/ CreateNew(p) \/ CreateExists(p) \/ Unlink(p) \/ Reopen(p)
             \/ Fork(p) \/ SendMsg(p) \/ ParentExit(p)

Child(p) == GetMsg(p) \/ ChildExit(p)

-----------------------------------------------------------------------------
(* Calls that fail, and kills.                                             *)

Fails(p) == /\ p \in Failing /\ failed[p] < MaxFailed
            /\ failed' = [failed EXCEPT ![p] = @ + 1]

\* main returns when either mq_open of CreateMQ fails, the first for another reason
\* than that the name exists: ~MyQueue unlinks the name all the same.
OpenFails(p) == /\ Fails(p)
                /\ Goto(p, "create", "end") \/ Goto(p, "reopen", "end")
                /\ name' = None
                /\ UNCHANGED <<messages, my_queue_id, child, sent, got>>

\* Without a child the parent sends.
ForkFails(p) == /\ Fails(p)
                /\ Goto(p, "fork", "send")
                /\ UNCHANGED <<name, messages, my_queue_id, child, sent, got>>

SendFails(p) == /\ Fails(p)
                /\ parent[p] = "send" /\ sent[p] < Count
                /\ sent' = [sent EXCEPT ![p] = @ + 1]
                /\ UNCHANGED <<name, messages, my_queue_id, parent, child, got>>

GetFails(p) == /\ Fails(p)
               /\ child[p] = "receive" /\ got[p] < Count
               /\ got' = [got EXCEPT ![p] = @ + 1]
               /\ UNCHANGED <<name, messages, my_queue_id, parent, child, sent>>

Failure(p) == OpenFails(p) \/ ForkFails(p) \/ SendFails(p) \/ GetFails(p)

Kills == Cardinality({p \in Programs: parent[p] = "killed"})
           + Cardinality({p \in Programs: child[p] = "killed"})

\* The child of a parent that is killed goes on.
KillParent(p) == /\ p \in Killable /\ parent[p] \notin {"end", "killed"}
                 /\ parent' = [parent EXCEPT ![p] = "killed"]
                 /\ UNCHANGED <<name, messages, my_queue_id, child, sent, got, failed>>

KillChild(p) == /\ p \in Killable /\ child[p] = "receive"
                /\ child' = [child EXCEPT ![p] = "killed"]
                /\ UNCHANGED <<name, messages, my_queue_id, parent, sent, got, failed>>

Next == \E p \in Programs: Parent(p) \/ Child(p) \/ Failure(p) \/ KillParent(p) \/ KillChild(p)

Spec == Init /\ [][Next]_vars

\* The scheduler runs every process that can run.  No call has to fail.
FairSpec == /\ Spec
            /\ \A p \in Programs: WF_vars(Parent(p)) /\ WF_vars(Child(p))

-----------------------------------------------------------------------------
(* Properties.                                                             *)

\* Every variable ranges over what its C++ type and use allow.
TypeOK == /\ name \in Queues \cup {None}
          /\ messages \in [Queues -> Seq(Queues)]
          /\ my_queue_id \in [Programs -> Queues \cup {None}]
          /\ parent \in [Programs -> {"create", "unlink", "reopen", "fork", "send", "end", "killed"}]
          /\ child \in [Programs -> {"none", "receive", "end", "killed"}]
          /\ sent \in [Programs -> 0 .. Count]
          /\ got \in [Programs -> 0 .. Count]
          /\ failed \in [Programs -> 0 .. MaxFailed]

AllEnded == \A p \in Programs: parent[p] = "end" /\ child[p] = "end"

\* However the programs unlink each other's name, and though ~MyQueue removes a
\* name that may be another program's, the last one leaves the name free; only a
\* parent that is killed leaves a queue behind.
NameIsFreed == (\A p \in Programs: parent[p] = "end") => name = None

\* No program works on the queue of an earlier life: unlinking before the second
\* mq_open (lines 39-44) keeps the old messages from the child.
NoOldMessages == \A p \in Programs: my_queue_id[p] # Old

\* No message is destroyed with its queue: when every program on a queue, alone or
\* with others, has ended, parent and child, and none of its calls has failed, the
\* queue has been emptied, though every child takes whatever comes first and any of
\* the parents may have removed the name (lines 85-108).
EmptyWhenClosed ==
  \A q \in Programs:
    (\A p \in Programs: my_queue_id[p] = q =>
        parent[p] = "end" /\ child[p] = "end" /\ failed[p] = 0) => messages[q] = <<>>

Shared(p) == \/ my_queue_id[p] \notin {p, None}
             \/ \E q \in Programs \ {p}: my_queue_id[q] = p

\* All programs and their children end, also when several share one queue that
\* is shorter than all their messages, unless one is killed or a call fails.  In
\* any case a parent without a child sends its messages and ends, as a queue takes
\* them all if no other program has come to share it (lines 100-107), and a child
\* without a parent gets all that was sent (lines 85-93).
Terminates == /\ <>(AllEnded \/ Kills > 0 \/ \E p \in Programs: failed[p] > 0)
              /\ <>[]\A p \in Programs:
                    /\ parent[p] \in {"end", "killed"} \/ Shared(p)
                    /\ child[p] = "receive" => messages[my_queue_id[p]] = <<>>

-----------------------------------------------------------------------------
(* The inductive invariant behind NoOldMessages and EmptyWhenClosed.       *)

\* A program has a queue from its second mq_open on, and has sent or received
\* nothing before its fork.
Opened == \A p \in Programs:
            /\ parent[p] \in {"create", "unlink", "reopen"} => my_queue_id[p] = None
            /\ parent[p] \in {"create", "unlink", "reopen", "fork"} =>
                 sent[p] = 0 /\ got[p] = 0 /\ child[p] = "none"
            /\ parent[p] \in {"fork", "send"} \/ child[p] = "receive" =>
                 my_queue_id[p] # None

\* While the name stands for the old queue nobody is past the unlink.
OldInv == name = Old => \A p \in Programs: parent[p] # "reopen"

\* The loops have come to their end.
Counted == \A p \in Programs: /\ parent[p] = "end" /\ failed[p] = 0 => sent[p] = Count
                              /\ child[p] = "end" => got[p] = Count

\* The messages that went into a queue and the calls that took one out, each told
\* by its program and its number there.
Sendings(q) == {m \in Programs \X (1 .. Count): my_queue_id[m[1]] = q /\ m[2] <= sent[m[1]]}
Gettings(q) == {m \in Programs \X (1 .. Count): my_queue_id[m[1]] = q /\ m[2] <= got[m[1]]}

\* No call of a program that uses q has failed.
Quiet(q) == \A p \in Programs: my_queue_id[p] = q => failed[p] = 0

\* Whoever is killed, a queue holds what its programs have sent and their children
\* not got, unless one of their calls has failed.
Conserved == \A q \in Programs:
               Quiet(q) => Len(messages[q]) + Cardinality(Gettings(q)) = Cardinality(Sendings(q))

IndInv == TypeOK /\ Opened /\ OldInv /\ NoOldMessages /\ Counted /\ Conserved
=============================================================================
