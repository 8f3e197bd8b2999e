-------------------------- MODULE MessageQueueProofs --------------------------
(***************************************************************************)
(* Theorems about MessageQueue, for any programs, numbers of messages and  *)
(* lengths of queues, whoever is killed and whichever calls fail.          *)
(***************************************************************************)
EXTENDS MessageQueue, SequenceTheorems, FiniteSetTheorems, TLAPS

Numbered == Programs \X (1 .. Count)

LEMMA NumberedFinite ==
  ASSUME NEW S \in SUBSET Numbered
  PROVE  IsFiniteSet(S) /\ Cardinality(S) \in Nat
<1>1. IsFiniteSet(1 .. Count)
  BY FS_Interval, BoundAssumption
<1>2. IsFiniteSet(Numbered)
  BY <1>1, FS_Product, ProgramsAssumption DEF Numbered
<1>3. IsFiniteSet(S)
  BY <1>2, FS_Subset
<1> QED
  BY <1>3, FS_CardinalityType

LEMMA CountsAreNat ==
  ASSUME NEW q
  PROVE  Cardinality(Sendings(q)) \in Nat /\ Cardinality(Gettings(q)) \in Nat
<1>1. Sendings(q) \in SUBSET Numbered /\ Gettings(q) \in SUBSET Numbered
  BY DEF Sendings, Gettings, Numbered
<1> QED
  BY <1>1, NumberedFinite

-----------------------------------------------------------------------------

LEMMA InitIndInv == Init => IndInv
<1> SUFFICES ASSUME Init
             PROVE  IndInv
  OBVIOUS
<1> USE ProgramsAssumption, BoundAssumption
<1>1. TypeOK
  <2>1. <<>> \in Seq(Queues) /\ <<Old>> \in Seq(Queues)
    BY EmptySeq DEF Queues
  <2>2. messages \in [Queues -> Seq(Queues)]
    BY <2>1, Zenon DEF Init
  <2> QED
    BY <2>2 DEF Init, TypeOK, Queues
<1>2. Opened /\ OldInv /\ NoOldMessages /\ Counted
  BY DEF Init, Opened, OldInv, NoOldMessages, Counted
<1>3. Conserved
  <2> SUFFICES ASSUME NEW q \in Programs
               PROVE  Len(messages[q]) + Cardinality(Gettings(q)) = Cardinality(Sendings(q))
    BY DEF Conserved
  <2>1. Sendings(q) = {} /\ Gettings(q) = {}
    BY DEF Init, Sendings, Gettings
  <2>2. Len(messages[q]) = 0
    BY DEF Init, Queues
  <2> QED
    BY <2>1, <2>2, FS_EmptySet
<1> QED
  BY <1>1, <1>2, <1>3 DEF IndInv

-----------------------------------------------------------------------------
(* Types, and how far a program is.                                        *)

Shape == TypeOK /\ Opened /\ OldInv /\ NoOldMessages /\ Counted

LEMMA OpeningShape ==
  ASSUME Shape, NEW p \in Programs,
         CreateNew(p) \/ CreateExists(p) \/ Unlink(p) \/ Reopen(p)
  PROVE  Shape'
<1> USE ProgramsAssumption DEF Shape, TypeOK, Opened, OldInv, NoOldMessages, Counted, Goto, Open, Queues
<1>1. CASE CreateNew(p)
  BY <1>1 DEF CreateNew
<1>2. CASE CreateExists(p)
  BY <1>2 DEF CreateExists
<1>3. CASE Unlink(p)
  BY <1>3 DEF Unlink
<1>4. CASE Reopen(p)
  BY <1>4 DEF Reopen
<1> QED
  BY <1>1, <1>2, <1>3, <1>4

\* The queue that a program sends to, or its child receives from.
LEMMA SendsToQueue ==
  ASSUME Shape, NEW p \in Programs, parent[p] = "send" \/ child[p] = "receive"
  PROVE  my_queue_id[p] \in Programs /\ messages[my_queue_id[p]] \in Seq(Queues)
BY DEF Shape, TypeOK, Opened, NoOldMessages, Queues

LEMMA RunningShape ==
  ASSUME Shape, NEW p \in Programs,
         Fork(p) \/ SendMsg(p) \/ ParentExit(p) \/ Child(p) \/ KillParent(p) \/ KillChild(p)
  PROVE  Shape'
<1> USE ProgramsAssumption, BoundAssumption
    DEF Shape, TypeOK, Opened, OldInv, NoOldMessages, Counted, Goto
<1>1. CASE Fork(p)
  BY <1>1 DEF Fork
<1>2. CASE SendMsg(p)
  <2>1. Append(messages[my_queue_id[p]], p) \in Seq(Queues)
    BY <1>2, SendsToQueue, AppendProperties DEF SendMsg, Queues
  <2>2. /\ sent' \in [Programs -> 0 .. Count]
        /\ \A u \in Programs \ {p}: sent'[u] = sent[u]
    BY <1>2 DEF SendMsg
  <2>3. TypeOK'
    BY <1>2, <2>1, <2>2 DEF SendMsg
  <2>4. Opened' /\ Counted'
    BY <1>2, <2>2 DEF SendMsg
  <2> QED
    BY <1>2, <2>3, <2>4 DEF SendMsg
<1>3. CASE ParentExit(p)
  BY <1>3 DEF ParentExit
<1>4. CASE GetMsg(p)
  <2>1. Tail(messages[my_queue_id[p]]) \in Seq(Queues)
    BY <1>4, SendsToQueue, HeadTailProperties DEF GetMsg
  <2> QED
    BY <1>4, <2>1 DEF GetMsg
<1>5. CASE ChildExit(p)
  BY <1>5 DEF ChildExit
<1>6. CASE KillParent(p)
  BY <1>6 DEF KillParent
<1>7. CASE KillChild(p)
  BY <1>7 DEF KillChild
<1> QED
  BY <1>1, <1>2, <1>3, <1>4, <1>5, <1>6, <1>7 DEF Child

LEMMA FailureShape ==
  ASSUME Shape, NEW p \in Programs, Failure(p)
  PROVE  Shape'
<1> USE ProgramsAssumption, BoundAssumption
    DEF Shape, TypeOK, Opened, OldInv, NoOldMessages, Counted, Goto
<1>0. Fails(p)
  BY DEF Failure, OpenFails, ForkFails, SendFails, GetFails
<1>1. failed' \in [Programs -> 0 .. MaxFailed] /\ failed'[p] # 0
  BY <1>0 DEF Fails
<1>2. \A q \in Programs \ {p}: failed'[q] = failed[q]
  BY <1>0 DEF Fails
<1>3. CASE OpenFails(p)
  BY <1>1, <1>2, <1>3 DEF OpenFails
<1>4. CASE ForkFails(p)
  BY <1>1, <1>2, <1>4 DEF ForkFails
<1>5. CASE SendFails(p)
  <2>1. /\ sent' \in [Programs -> 0 .. Count]
        /\ \A u \in Programs \ {p}: sent'[u] = sent[u]
    BY <1>5 DEF SendFails
  <2>2. TypeOK'
    BY <1>1, <1>5, <2>1 DEF SendFails
  <2>3. Opened' /\ Counted'
    BY <1>1, <1>2, <1>5, <2>1 DEF SendFails
  <2> QED
    BY <1>5, <2>2, <2>3 DEF SendFails
<1>6. CASE GetFails(p)
  <2>1. /\ got' \in [Programs -> 0 .. Count]
        /\ \A u \in Programs \ {p}: got'[u] = got[u]
    BY <1>6 DEF GetFails
  <2>2. TypeOK'
    BY <1>1, <1>6, <2>1 DEF GetFails
  <2>3. Opened' /\ Counted'
    BY <1>1, <1>2, <1>6, <2>1 DEF GetFails
  <2> QED
    BY <1>6, <2>2, <2>3 DEF GetFails
<1> QED
  BY <1>3, <1>4, <1>5, <1>6 DEF Failure

LEMMA StepShape ==
  ASSUME Shape, [Next]_vars
  PROVE  Shape'
<1>1. CASE UNCHANGED vars
  BY <1>1 DEF vars, processes, Shape, TypeOK, Opened, OldInv, NoOldMessages, Counted
<1> QED
  BY <1>1, OpeningShape, RunningShape, FailureShape DEF Next, Parent

-----------------------------------------------------------------------------
(* The balance of a queue.                                                 *)

\* A message more that goes in or comes out under a number of its own counts once.
LEMMA OneMore ==
  ASSUME NEW S \in SUBSET Numbered, NEW m, m \notin S
  PROVE  Cardinality(S \cup {m}) = Cardinality(S) + 1
BY NumberedFinite, FS_AddElement

LEMMA SendConserves ==
  ASSUME Shape, Conserved, NEW p \in Programs, SendMsg(p)
  PROVE  Conserved'
<1> DEFINE mine == my_queue_id[p]
           m == <<p, sent[p] + 1>>
<1>1. mine \in Programs /\ messages[mine] \in Seq(Queues) /\ p \in Queues
  BY SendsToQueue DEF SendMsg, Queues
<1>2. /\ sent[p] \in 0 .. Count /\ sent[p] < Count
      /\ sent' = [sent EXCEPT ![p] = @ + 1] /\ sent \in [Programs -> 0 .. Count]
      /\ messages' = [messages EXCEPT ![mine] = Append(@, p)]
      /\ messages \in [Queues -> Seq(Queues)]
      /\ my_queue_id' = my_queue_id /\ got' = got /\ failed' = failed
  BY DEF SendMsg, Shape, TypeOK
<1> SUFFICES ASSUME NEW q \in Programs, Quiet(q)
             PROVE  Len(messages'[q]) + Cardinality(Gettings(q)') = Cardinality(Sendings(q)')
  BY <1>2 DEF Conserved, Quiet
<1>3. Gettings(q)' = Gettings(q)
  BY <1>2 DEF Gettings
<1>4. Len(messages[q]) + Cardinality(Gettings(q)) = Cardinality(Sendings(q))
  BY DEF Conserved
<1>5. CASE q = mine
  <2>1. m \in Numbered /\ m \notin Sendings(q)
    BY <1>2, BoundAssumption DEF Sendings, Numbered
  <2>2. Sendings(q)' = Sendings(q) \cup {m}
    BY <1>2, <1>5, BoundAssumption DEF Sendings
  <2>3. Cardinality(Sendings(q)') = Cardinality(Sendings(q)) + 1
    <3>1. Sendings(q) \in SUBSET Numbered
      BY DEF Sendings, Numbered
    <3> QED
      BY <2>1, <2>2, <3>1, OneMore
  <2>4. messages'[q] = Append(messages[q], p)
    BY <1>1, <1>2, <1>5 DEF Queues
  <2>5. Len(messages'[q]) = Len(messages[q]) + 1 /\ Len(messages[q]) \in Nat
    BY <1>1, <1>5, <2>4, AppendProperties, LenProperties
  <2> QED
    BY <1>3, <1>4, <2>3, <2>5, CountsAreNat
<1>6. CASE q # mine
  <2>1. Sendings(q)' = Sendings(q)
    BY <1>2, <1>6 DEF Sendings
  <2>2. messages'[q] = messages[q]
    BY <1>2, <1>6 DEF Queues
  <2> QED
    BY <1>3, <1>4, <2>1, <2>2
<1> QED
  BY <1>5, <1>6

LEMMA GetConserves ==
  ASSUME Shape, Conserved, NEW p \in Programs, GetMsg(p)
  PROVE  Conserved'
<1> DEFINE mine == my_queue_id[p]
           m == <<p, got[p] + 1>>
<1>1. mine \in Programs /\ messages[mine] \in Seq(Queues) /\ messages[mine] # <<>>
  BY SendsToQueue DEF GetMsg
<1>2. /\ got[p] \in 0 .. Count /\ got[p] < Count
      /\ got' = [got EXCEPT ![p] = @ + 1] /\ got \in [Programs -> 0 .. Count]
      /\ messages' = [messages EXCEPT ![mine] = Tail(@)]
      /\ messages \in [Queues -> Seq(Queues)]
      /\ my_queue_id' = my_queue_id /\ sent' = sent /\ failed' = failed
  BY DEF GetMsg, Shape, TypeOK
<1> SUFFICES ASSUME NEW q \in Programs, Quiet(q)
             PROVE  Len(messages'[q]) + Cardinality(Gettings(q)') = Cardinality(Sendings(q)')
  BY <1>2 DEF Conserved, Quiet
<1>3. Sendings(q)' = Sendings(q)
  BY <1>2 DEF Sendings
<1>4. Len(messages[q]) + Cardinality(Gettings(q)) = Cardinality(Sendings(q))
  BY DEF Conserved
<1>5. CASE q = mine
  <2>1. m \in Numbered /\ m \notin Gettings(q)
    BY <1>2, BoundAssumption DEF Gettings, Numbered
  <2>2. Gettings(q)' = Gettings(q) \cup {m}
    BY <1>2, <1>5, BoundAssumption DEF Gettings
  <2>3. Cardinality(Gettings(q)') = Cardinality(Gettings(q)) + 1
    <3>1. Gettings(q) \in SUBSET Numbered
      BY DEF Gettings, Numbered
    <3> QED
      BY <2>1, <2>2, <3>1, OneMore
  <2>4. messages'[q] = Tail(messages[q])
    BY <1>1, <1>2, <1>5 DEF Queues
  <2>5. Len(messages'[q]) = Len(messages[q]) - 1 /\ Len(messages[q]) \in Nat
    BY <1>1, <1>5, <2>4, HeadTailProperties, LenProperties
  <2> QED
    BY <1>3, <1>4, <2>3, <2>5, CountsAreNat
<1>6. CASE q # mine
  <2>1. Gettings(q)' = Gettings(q)
    BY <1>2, <1>6 DEF Gettings
  <2>2. messages'[q] = messages[q]
    BY <1>2, <1>6 DEF Queues
  <2> QED
    BY <1>3, <1>4, <2>1, <2>2
<1> QED
  BY <1>5, <1>6

\* A program that comes to use a queue, its own or one that it shares, brings no
\* messages along.
LEMMA OpeningConserves ==
  ASSUME Shape, Conserved, NEW p \in Programs, CreateNew(p) \/ Reopen(p)
  PROVE  Conserved'
<1>1. /\ sent[p] = 0 /\ got[p] = 0
      /\ sent' = sent /\ got' = got /\ messages' = messages /\ failed' = failed
      /\ my_queue_id[p] = None
      /\ \A u \in Programs \ {p}: my_queue_id'[u] = my_queue_id[u]
  BY DEF CreateNew, Reopen, Open, Goto, Shape, TypeOK, Opened
<1>2. \A q: Sendings(q)' = Sendings(q) /\ Gettings(q)' = Gettings(q)
  BY <1>1, BoundAssumption DEF Sendings, Gettings
<1>3. \A q \in Programs: Quiet(q)' => Quiet(q)
  BY <1>1, ProgramsAssumption DEF Quiet
<1> QED
  BY <1>1, <1>2, <1>3 DEF Conserved

\* A failed call counts for the queue of its program only.
LEMMA FailureConserves ==
  ASSUME Shape, Conserved, NEW p \in Programs, Failure(p)
  PROVE  Conserved'
<1>1. /\ messages' = messages /\ my_queue_id' = my_queue_id /\ failed'[p] # 0
      /\ \A u \in Programs \ {p}: /\ sent'[u] = sent[u] /\ got'[u] = got[u]
                                 /\ failed'[u] = failed[u]
  BY BoundAssumption
     DEF Failure, OpenFails, ForkFails, SendFails, GetFails, Fails, Shape, TypeOK
<1> SUFFICES ASSUME NEW q \in Programs, Quiet(q)'
             PROVE  Len(messages'[q]) + Cardinality(Gettings(q)') = Cardinality(Sendings(q)')
  BY DEF Conserved
<1>2. my_queue_id[p] # q /\ Quiet(q)
  BY <1>1 DEF Quiet
<1>3. Sendings(q)' = Sendings(q) /\ Gettings(q)' = Gettings(q)
  BY <1>1, <1>2 DEF Sendings, Gettings
<1> QED
  BY <1>1, <1>2, <1>3 DEF Conserved

LEMMA StepConserves ==
  ASSUME Shape, Conserved, [Next]_vars
  PROVE  Conserved'
<1>1. ASSUME UNCHANGED <<messages, my_queue_id, sent, got, failed>>
      PROVE  Conserved'
  BY <1>1 DEF Conserved, Quiet, Sendings, Gettings
<1>2. CASE UNCHANGED vars
  BY <1>1, <1>2 DEF vars, processes
<1>3. ASSUME NEW p \in Programs,
             \/ CreateExists(p) \/ Unlink(p) \/ Fork(p) \/ ParentExit(p)
             \/ ChildExit(p) \/ KillParent(p) \/ KillChild(p)
      PROVE  Conserved'
  BY <1>1, <1>3
     DEF CreateExists, Unlink, Fork, ParentExit, ChildExit, KillParent, KillChild
<1> QED
  BY <1>2, <1>3, OpeningConserves, SendConserves, GetConserves, FailureConserves
     DEF Next, Parent, Child

LEMMA StepIndInv == IndInv /\ [Next]_vars => IndInv'
BY StepShape, StepConserves DEF IndInv, Shape

-----------------------------------------------------------------------------

\* Every variable keeps its type.
THEOREM TypeCorrect == Spec => []TypeOK
<1>1. IndInv => TypeOK
  BY DEF IndInv
<1> QED
  BY <1>1, InitIndInv, StepIndInv, PTL DEF Spec

\* No program ever works on the queue that an earlier life has left, however many
\* programs unlink and open the name side by side.
THEOREM OldIsNeverUsed == Spec => []NoOldMessages
<1>1. IndInv => NoOldMessages
  BY DEF IndInv
<1> QED
  BY <1>1, InitIndInv, StepIndInv, PTL DEF Spec

\* When the programs on a queue have ended and none of their calls has failed, every
\* message has been received: no queue is destroyed with messages in it.
THEOREM QueuesCloseEmpty == Spec => []EmptyWhenClosed
<1>1. IndInv => EmptyWhenClosed
  <2> SUFFICES ASSUME IndInv, NEW q \in Programs,
                      \A p \in Programs: my_queue_id[p] = q =>
                        parent[p] = "end" /\ child[p] = "end" /\ failed[p] = 0
               PROVE  messages[q] = <<>>
    BY DEF EmptyWhenClosed
  <2>1. \A p \in Programs: my_queue_id[p] = q => sent[p] = Count /\ got[p] = Count
    BY DEF IndInv, Counted
  <2>2. Sendings(q) = Gettings(q)
    BY <2>1 DEF Sendings, Gettings
  <2>3. Len(messages[q]) + Cardinality(Gettings(q)) = Cardinality(Sendings(q))
    BY DEF IndInv, Conserved, Quiet
  <2>4. messages[q] \in Seq(Queues)
    BY DEF IndInv, TypeOK, Queues
  <2>5. Len(messages[q]) = 0
    BY <2>2, <2>3, <2>4, CountsAreNat, LenProperties
  <2> QED
    BY <2>4, <2>5, EmptySeq
<1> QED
  BY <1>1, InitIndInv, StepIndInv, PTL DEF Spec

\* Only ~MyQueue ends a parent, and it leaves the name free: the last to end is
\* the last to unlink.
THEOREM LastOneUnlinks == Spec => []NameIsFreed
<1>1. Init => NameIsFreed
  BY ProgramsAssumption DEF Init, NameIsFreed
<1>2. TypeOK /\ NameIsFreed /\ [Next]_vars => NameIsFreed'
  <2> SUFFICES ASSUME TypeOK, NameIsFreed, [Next]_vars
               PROVE  NameIsFreed'
    OBVIOUS
  <2>1. CASE UNCHANGED vars
    BY <2>1 DEF vars, processes, NameIsFreed
  <2>2. ASSUME NEW p \in Programs, ParentExit(p)
        PROVE  NameIsFreed'
    BY <2>2 DEF ParentExit, NameIsFreed
  <2>3. ASSUME NEW p \in Programs,
               \/ Child(p) \/ KillChild(p) \/ SendMsg(p)
               \/ SendFails(p) \/ GetFails(p)
        PROVE  NameIsFreed'
    BY <2>3 DEF Child, GetMsg, ChildExit, KillChild, SendMsg, SendFails, GetFails, NameIsFreed
  <2>4. ASSUME NEW p \in Programs, OpenFails(p)
        PROVE  NameIsFreed'
    BY <2>4 DEF OpenFails, NameIsFreed
  <2>5. ASSUME NEW p \in Programs,
               \/ CreateNew(p) \/ CreateExists(p) \/ Unlink(p) \/ Reopen(p)
               \/ Fork(p) \/ ForkFails(p) \/ KillParent(p)
        PROVE  NameIsFreed'
    <3>1. parent'[p] # "end"
      BY <2>5 DEF CreateNew, CreateExists, Unlink, Reopen, Fork, ForkFails, KillParent,
                  Goto, TypeOK
    <3> QED
      BY <3>1 DEF NameIsFreed
  <2> QED
    BY <2>1, <2>2, <2>3, <2>4, <2>5 DEF Next, Parent, Failure
<1> QED
  BY <1>1, <1>2, TypeCorrect, PTL DEF Spec
=============================================================================
