----------------------------- MODULE RingLemmas -----------------------------
(***************************************************************************)
(* Arithmetic of a ring of N slots, where the slot of the k-th call is     *)
(* k % N, how a queue written as a function of positions changes, and how      *)
(* the number of threads at a set of control points changes.               *)
(***************************************************************************)
EXTENDS Integers, SequenceTheorems, FiniteSetTheorems, TLAPS

\* The expression `% NUM_SLOTS` of every Write and Read yields a slot.
LEMMA RemainderInRange ==
  ASSUME NEW a \in Nat, NEW N \in Nat \ {0}
  PROVE  a % N \in 0 .. N - 1
OBVIOUS

LEMMA Division ==
  ASSUME NEW a \in Nat, NEW N \in Nat \ {0}
  PROVE  a \div N \in Nat /\ a = N * (a \div N) + (a % N)
OBVIOUS

\* Counters that are kept modulo N, and the differences of such counters.
LEMMA IntDivision ==
  ASSUME NEW a \in Int, NEW N \in Nat \ {0}
  PROVE  a \div N \in Int /\ a % N \in 0 .. N - 1 /\ a = N * (a \div N) + (a % N)
OBVIOUS

LEMMA RemainderIsUnique ==
  ASSUME NEW q \in Int, NEW N \in Nat \ {0}, NEW r \in 0 .. N - 1
  PROVE  (N * q + r) % N = r
<1> DEFINE a == N * q + r
           p == a \div N
           s == a % N
<1>1. a \in Int
  OBVIOUS
<1>2. p \in Int /\ s \in 0 .. N - 1 /\ a = N * p + s
  BY <1>1, IntDivision
<1>3. N * q + r = N * p + s
  BY <1>2
<1> HIDE DEF p, s
<1>4. r - s = N * (p - q)
  BY <1>2, <1>3
<1>5. CASE p - q >= 1
  <2>1. N * (p - q) >= N
    BY <1>2, <1>5
  <2> QED
    BY <2>1, <1>2, <1>4
<1>6. CASE p - q <= -1
  <2>1. N * (p - q) <= -N
    BY <1>2, <1>6
  <2> QED
    BY <2>1, <1>2, <1>4
<1>7. CASE p = q
  BY <1>2, <1>4, <1>7 DEF s
<1> QED
  BY <1>2, <1>5, <1>6, <1>7

LEMMA RemainderOfSum ==
  ASSUME NEW a \in Int, NEW b \in Int, NEW N \in Nat \ {0}
  PROVE  ((a % N) + b) % N = (a + b) % N
<1> DEFINE p == a \div N
           q == (a + b) \div N
           r == (a + b) % N
<1>1. p \in Int /\ a % N \in Int /\ a = N * p + (a % N)
  BY IntDivision
<1>2. q \in Int /\ r \in 0 .. N - 1 /\ a + b = N * q + r
  BY IntDivision
<1>3. (a % N) + b = N * (q - p) + r
  BY <1>1, <1>2
<1>4. (N * (q - p) + r) % N = r
  <2>1. q - p \in Int
    BY <1>1, <1>2
  <2> HIDE DEF p, q, r
  <2> QED
    BY <1>2, <2>1, RemainderIsUnique
<1> QED
  BY <1>3, <1>4

\* Two calls fewer than N apart use different slots: the ring does not reuse a
\* slot before it has gone round.
LEMMA DistinctSlots ==
  ASSUME NEW a \in Nat, NEW b \in Nat, NEW N \in Nat \ {0}, b < a, a - b < N
  PROVE  a % N # b % N
<1> DEFINE p == a \div N
           q == b \div N
<1>1. p \in Nat /\ a = N * p + (a % N)
  BY Division
<1>2. q \in Nat /\ b = N * q + (b % N)
  BY Division
<1>3. a % N \in Nat /\ b % N \in Nat
  BY RemainderInRange
<1> HIDE DEF p, q
<1> SUFFICES ASSUME a % N = b % N
             PROVE  FALSE
  OBVIOUS
<1>4. a - b = N * (p - q)
  BY <1>1, <1>2, <1>3
<1>5. CASE p - q <= 0
  <2>1. N * (p - q) <= 0
    BY <1>5, <1>1, <1>2
  <2> QED
    BY <2>1, <1>4
<1>6. CASE p - q >= 1
  <2>1. N * (p - q) >= N
    BY <1>6, <1>1, <1>2
  <2> QED
    BY <2>1, <1>4
<1> QED
  BY <1>1, <1>2, <1>5, <1>6

\* A function of positions that extends a queue by one element is its Append.
LEMMA AppendIsExtension ==
  ASSUME NEW S, NEW q \in Seq(S), NEW e \in S, NEW f,
         f = [k \in 1 .. Len(q) + 1 |-> f[k]],
         \A k \in 1 .. Len(q): f[k] = q[k],
         f[Len(q) + 1] = e
  PROVE  f = Append(q, e)
<1>1. Len(q) \in Nat
  BY LenProperties
<1>2. \A k \in 1 .. Len(q) + 1: f[k] \in S
  BY <1>1, ElementOfSeq
<1>3. f \in Seq(S) /\ Len(f) = Len(q) + 1
  BY <1>1, <1>2
<1>4. /\ Append(q, e) \in Seq(S) /\ Len(Append(q, e)) = Len(q) + 1
      /\ \A k \in 1 .. Len(q): Append(q, e)[k] = q[k]
      /\ Append(q, e)[Len(q) + 1] = e
  BY AppendProperties
<1>5. \A k \in 1 .. Len(f): f[k] = Append(q, e)[k]
  BY <1>1, <1>3, <1>4
<1> QED
  BY <1>3, <1>4, <1>5, SeqEqual

\* A function of positions that leaves out the first element of a queue is its
\* Tail.
LEMMA TailIsShift ==
  ASSUME NEW S, NEW q \in Seq(S), q # <<>>, NEW f,
         f = [k \in 1 .. Len(q) - 1 |-> f[k]],
         \A k \in 1 .. Len(q) - 1: f[k] = q[k + 1]
  PROVE  f = Tail(q)
<1>1. Len(q) \in Nat \ {0}
  BY EmptySeq
<1>2. \A k \in 1 .. Len(q) - 1: f[k] \in S
  BY <1>1, ElementOfSeq
<1>3. f \in Seq(S) /\ Len(f) = Len(q) - 1
  BY <1>1, <1>2
<1>4. /\ Tail(q) \in Seq(S) /\ Len(Tail(q)) = Len(q) - 1
      /\ \A k \in 1 .. Len(q) - 1: Tail(q)[k] = q[k + 1]
  BY HeadTailProperties
<1>5. \A k \in 1 .. Len(f): f[k] = Tail(q)[k]
  BY <1>3, <1>4
<1> QED
  BY <1>3, <1>4, <1>5, SeqEqual

-----------------------------------------------------------------------------

One(b) == IF b THEN 1 ELSE 0

\* When a single element enters or leaves a finite set, its cardinality follows.
LEMMA CardinalityMove ==
  ASSUME NEW C, IsFiniteSet(C), NEW D, IsFiniteSet(D),
         NEW t, D \ {t} = C \ {t}
  PROVE  Cardinality(D) = Cardinality(C) - One(t \in C) + One(t \in D)
<1>1. Cardinality(C) \in Nat /\ Cardinality(D) \in Nat
  BY FS_CardinalityType
<1>2. Cardinality(C \ {t}) = IF t \in C THEN Cardinality(C) - 1 ELSE Cardinality(C)
  BY FS_RemoveElement, Zenon
<1>3. Cardinality(D \ {t}) = IF t \in D THEN Cardinality(D) - 1 ELSE Cardinality(D)
  BY FS_RemoveElement, Zenon
<1>4. /\ One(t \in C) = IF t \in C THEN 1 ELSE 0
      /\ One(t \in D) = IF t \in D THEN 1 ELSE 0
  BY DEF One
<1>5. /\ t \in C => One(t \in C) = 1 /\ Cardinality(C \ {t}) = Cardinality(C) - 1
      /\ t \notin C => One(t \in C) = 0 /\ Cardinality(C \ {t}) = Cardinality(C)
      /\ t \in D => One(t \in D) = 1 /\ Cardinality(D \ {t}) = Cardinality(D) - 1
      /\ t \notin D => One(t \in D) = 0 /\ Cardinality(D \ {t}) = Cardinality(D)
  BY <1>2, <1>3, <1>4, Zenon
<1> QED
  BY <1>1, <1>5
=============================================================================
