------------------------------- MODULE MCSemRing -------------------------------
(***************************************************************************)
(* Instances of SemRing for TLC.                                           *)
(***************************************************************************)
EXTENDS SemRing, TLC

\* Threads of one role are interchangeable.
Symmetry == Permutations(Writers) \cup Permutations(Readers)
=============================================================================
