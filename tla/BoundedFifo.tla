----------------------------- MODULE BoundedFifo -----------------------------
(***************************************************************************)
(* What a shared ring buffer promises its callers: a first-in first-out    *)
(* queue of at most Capacity values.  A value is <<p, k>>: the k-th one,   *)
(* counting from 0, of producer p, so that loss, duplication and           *)
(* reordering can all be told apart.                                       *)
(***************************************************************************)
EXTENDS Naturals, Sequences

CONSTANTS Producers, Consumers, Capacity,
          Nothing            \* what a consumer holds before its first Get

VARIABLES queue,             \* the values put and not yet got, oldest first
          sent,              \* sent[p]: how many values p has put
          result             \* result[c]: the value c got last

vars == <<queue, sent, result>>

Init == /\ queue = <<>>
        /\ sent = [p \in Producers |-> 0]
        /\ result = [c \in Consumers |-> Nothing]

Put(p) == /\ Len(queue) < Capacity
          /\ queue' = Append(queue, <<p, sent[p]>>)
          /\ sent' = [sent EXCEPT ![p] = @ + 1]
          /\ UNCHANGED result

Get(c) == /\ queue # <<>>
          /\ result' = [result EXCEPT ![c] = Head(queue)]
          /\ queue' = Tail(queue)
          /\ UNCHANGED sent

Next == \/ \E p \in Producers: Put(p)
        \/ \E c \in Consumers: Get(c)

Spec == Init /\ [][Next]_vars
=============================================================================
