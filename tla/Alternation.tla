----------------------------- MODULE Alternation -----------------------------
(***************************************************************************)
(* What the ping-pong program promises: two speakers take Rounds turns     *)
(* each, the first one first, and in its turn a speaker says all its lines *)
(* with nothing in between.                                                *)
(***************************************************************************)
EXTENDS Naturals

CONSTANTS FirstSpeaker, SecondSpeaker,
          Lines(_),          \* the number of lines a speaker says in a turn
          Rounds

VARIABLES turn,              \* number of turns completed
          said               \* lines said in the current turn

vars == <<turn, said>>

Speaker == IF turn % 2 = 0 THEN FirstSpeaker ELSE SecondSpeaker

Init == turn = 0 /\ said = 0

Say == /\ turn < 2 * Rounds
       /\ said < Lines(Speaker)
       /\ said' = said + 1
       /\ UNCHANGED turn

EndTurn == /\ turn < 2 * Rounds
           /\ said = Lines(Speaker)
           /\ turn' = turn + 1
           /\ said' = 0

Next == Say \/ EndTurn

Spec == Init /\ [][Next]_vars
=============================================================================
