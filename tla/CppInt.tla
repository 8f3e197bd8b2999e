------------------------------- MODULE CppInt -------------------------------
(***************************************************************************)
(* The C++ `int` as the programs of this repository use it: a machine      *)
(* integer with IntMax + 1 negative values, the wrap of an atomic          *)
(* fetch_add, and the truncating remainder.  External: the language        *)
(* implementation, not a file of the repository.                           *)
(***************************************************************************)
EXTENDS Integers

CONSTANT IntMax        \* INT_MAX; runs take it small to reach the wrap

ASSUME IntMaxAssumption == IntMax \in Nat \ {0}

IntMin == -IntMax - 1

Ints == IntMin .. IntMax

\* The int that represents n: std::atomic<int>::fetch_add wraps silently.
AsInt(n) == IF n \in Ints THEN n
            ELSE ((n - IntMin) % (2 * (IntMax + 1))) + IntMin

\* a % b for b > 0: C++ truncates towards zero, so the sign is that of a.
Rem(a, b) == IF a >= 0 THEN a % b ELSE -((-a) % b)
=============================================================================
