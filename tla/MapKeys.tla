------------------------------- MODULE MapKeys -------------------------------
(***************************************************************************)
(* 2023/src/Map/UnorderedMap1.cpp: one type of key for std::map, which     *)
(* tells keys apart by operator<, and for std::unordered_map, which uses   *)
(* KeyHash and operator==.  A key has an array of characters, of which the *)
(* comparisons read up to the first NUL and KeyHash reads all, and a       *)
(* string.  Characters and strings are numbers; NUL is 0.                  *)
(***************************************************************************)
EXTENDS Naturals, Sequences, SequencesExt

CONSTANTS Size,              \* of the array a (10)
          Chars, Strings,    \* subsets of Nat; 0 is in Chars
          Mapped,            \* the mapped strings
          Nothing            \* "no entry"

VARIABLES container,         \* which of main's two maps
          contents,          \* its entries, in the order in which it is read
          told               \* what it was last told for each key

vars == <<container, contents, told>>

Indices == 1 .. Size

\* An array initialized from a literal is filled up with zeros.
FilledUp(a) == \A m, n \in Indices: m < n /\ a[m] = 0 => a[n] = 0

Keys == {k \in [a: [Indices -> Chars], b: Strings]: FilledUp(k.a)}

-----------------------------------------------------------------------------
(* std::strncmp with the size of the array, by the sign of its result: the *)
(* characters before n agree, and none of them ends the text.              *)

AgreeBefore(x, y, n) == \A m \in 1 .. n - 1: x[m] = y[m] /\ x[m] # 0

CmpLess(x, y) == \E n \in Indices: AgreeBefore(x, y, n) /\ x[n] < y[n]
CmpEqual(x, y) == \A n \in Indices: AgreeBefore(x, y, n) => x[n] = y[n]

\* operator==
KeyEqual(k, l) == CmpEqual(k.a, l.a) /\ k.b = l.b

\* Defect: the strings are not compared.
LessByArray(k, l) == CmpLess(k.a, l.a)

\* operator<
KeyLess(k, l) == \/ CmpLess(k.a, l.a)
                 \/ CmpEqual(k.a, l.a) /\ k.b < l.b

\* KeyHash: all the characters of a, and b.  That different arguments may hash
\* alike is left out, as operator== then tells them apart.
KeyHash(k) == <<k.a, k.b>>

-----------------------------------------------------------------------------
Init == /\ container \in {"map", "unordered_map"}
        /\ contents = <<>>
        /\ told = [k \in Keys |-> Nothing]

Entry(k, v) == [key |-> k, value |-> v]

\* operator[] followed by the assignment to what it returns, in a map whose entry
\* for k, if there is one, is at a place in found, and otherwise goes to place n.
AssignAt(found, n, k, v) ==
    /\ contents' = IF found = {} THEN InsertAt(contents, n, Entry(k, v))
                   ELSE [m \in DOMAIN contents |->
                           IF m \in found THEN Entry(contents[m].key, v) ELSE contents[m]]
    /\ told' = [told EXCEPT ![k] = v]
    /\ UNCHANGED container

\* The first entry that is not less than k is k's own if k is not less than it;
\* otherwise k's entry comes before it.
AssignMap(k, v) ==
    LET less == {m \in DOMAIN contents: \A n \in 1 .. m: KeyLess(contents[n].key, k)}
        bound == Cardinality(less) + 1
        found == {m \in DOMAIN contents: m = bound /\ ~KeyLess(k, contents[m].key)}
    IN  /\ container = "map"
        /\ AssignAt(found, bound, k, v)

\* Only keys with k's hash are compared with it.  The order of the entries means
\* nothing; a new one is put at the end.
AssignUnordered(k, v) ==
    LET found == {m \in DOMAIN contents: /\ KeyHash(contents[m].key) = KeyHash(k)
                                         /\ KeyEqual(contents[m].key, k)}
    IN  /\ container = "unordered_map"
        /\ AssignAt(found, Len(contents) + 1, k, v)

Next == \E k \in Keys, v \in Mapped: AssignMap(k, v) \/ AssignUnordered(k, v)

-----------------------------------------------------------------------------
(* Properties.                                                             *)

\* Both kinds of map tell the same keys apart, those whose texts differ: after
\* any assignments each holds one entry for every key it was told of, with what
\* it was told last (lines 13, 16-21 and 26-30, by which the maps find a key).
HoldsWhatWasTold ==
    \A k \in Keys: {m \in DOMAIN contents: contents[m] = Entry(k, told[k])}
                     = {m \in DOMAIN contents: contents[m].key = k}
                /\ Cardinality({m \in DOMAIN contents: contents[m].key = k})
                     = IF told[k] = Nothing THEN 0 ELSE 1

-----------------------------------------------------------------------------
(* The inductive invariant behind HoldsWhatWasTold.                        *)

TypeOK == /\ container \in {"map", "unordered_map"}
          /\ contents \in Seq([key: Keys, value: Mapped])
          /\ told \in [Keys -> Mapped \cup {Nothing}]

\* No key has two entries; std::map keeps them in the order of operator<.
Sorted == \A m, n \in DOMAIN contents:
            m < n => /\ contents[m].key # contents[n].key
                     /\ container = "map" => KeyLess(contents[m].key, contents[n].key)

AsTold == /\ \A m \in DOMAIN contents: contents[m].value = told[contents[m].key]
          /\ \A k \in Keys: told[k] # Nothing => \E m \in DOMAIN contents: contents[m].key = k

IndInv == TypeOK /\ Sorted /\ AsTold
=============================================================================
