----------------------------- MODULE Induction -----------------------------
(***************************************************************************)
(* Induction over the naturals in a form without operator parameters, and  *)
(* what it says of functions that are defined by recursion over a queue or *)
(* a file: a loop of the code from its first item to its last.             *)
(***************************************************************************)
EXTENDS Integers, WellFoundedInduction, TLAPS

Smaller == {p \in Nat \X Nat : p[1] < p[2]}

\* The least number principle.
LEMMA LeastNatural ==
    ASSUME NEW T, T \subseteq Nat, T # {}
    PROVE  \E x \in T : \A y \in T : x <= y
<1>1. IsWellFoundedOn(Smaller, Nat)
  BY NatLessThanWellFounded DEF OpToRel, Smaller
<1>2. PICK x \in T : \A y \in T : <<y, x>> \notin Smaller
  BY <1>1, WFMin
<1>3. \A y \in T : ~(y < x)
  BY <1>2 DEF Smaller
<1> QED
  BY <1>3

\* Induction over a set of numbers.
LEMMA SetInduction ==
    ASSUME NEW S, 0 \in S, \A n \in Nat : n \in S => n + 1 \in S
    PROVE  \A n \in Nat : n \in S
<1> DEFINE T == Nat \ S
<1>1. SUFFICES ASSUME T # {} PROVE FALSE
  OBVIOUS
<1>2. PICK x \in T : \A y \in T : x <= y
  BY <1>1, LeastNatural
<1>3. x # 0 /\ x - 1 \in Nat /\ x - 1 \notin T
  BY <1>2
<1> QED
  BY <1>2, <1>3

\* The same, up to a bound.
LEMMA BoundedInduction ==
    ASSUME NEW N \in Nat, NEW S, 0 \in S,
           \A n \in 1..N : n - 1 \in S => n \in S
    PROVE  \A n \in 0..N : n \in S
<1> DEFINE T == {n \in Nat : n <= N => n \in S}
<1>1. 0 \in T
  OBVIOUS
<1>2. ASSUME NEW n \in Nat, n \in T
      PROVE  n + 1 \in T
  <2>1. CASE n + 1 <= N
    <3>1. n \in S /\ n + 1 \in 1..N /\ (n + 1) - 1 = n
      BY <1>2, <2>1
    <3> QED
      BY <3>1
  <2>2. CASE ~(n + 1 <= N)
    BY <2>2
  <2> QED
    BY <2>1, <2>2
<1> HIDE DEF T
<1>3. \A n \in Nat : n \in T
  BY <1>1, <1>2, SetInduction
<1> QED
  BY <1>3 DEF T

\* f is what a loop over N items goes through: it starts with a and makes
\* G[i][x] of x at item i.
IsRun(f, N, A, a, G) ==
    f \in [0..N -> A] /\ f[0] = a /\ \A i \in 1..N : f[i] = G[i][f[i - 1]]

LEMMA LoopExists ==
    ASSUME NEW N \in Nat, NEW A, NEW a \in A, NEW G \in [1..N -> [A -> A]]
    PROVE  \E f : IsRun(f, N, A, a, G)
<1> DEFINE Run(f, n) ==
      f \in [0..n -> A] /\ f[0] = a /\ \A i \in 1..n : f[i] = G[i][f[i - 1]]
    S == {n \in 0..N : \E f : Run(f, n)}
<1>1. 0 \in S
  <2>1. Run([i \in 0..0 |-> a], 0)
    OBVIOUS
  <2> HIDE DEF Run
  <2>2. \E f : Run(f, 0)
    BY <2>1
  <2> QED
    BY <2>2
<1>2. ASSUME NEW n \in 1..N, n - 1 \in S
      PROVE  n \in S
  <2>1. PICK f : Run(f, n - 1)
    BY <1>2
  <2> DEFINE g == [i \in 0..n |-> IF i = n THEN G[n][f[n - 1]] ELSE f[i]]
  <2>2. f[n - 1] \in A /\ G[n] \in [A -> A]
    BY <2>1
  <2>3. g \in [0..n -> A]
    BY <2>1, <2>2
  <2>4. g[0] = a
    BY <2>1
  <2>5. ASSUME NEW i \in 1..n
        PROVE  g[i] = G[i][g[i - 1]]
    <3>1. CASE i = n
      BY <3>1
    <3>2. CASE i # n
      <4>1. i \in 1..(n - 1) /\ i - 1 \in 0..n /\ i - 1 # n
        BY <3>2
      <4> QED
        BY <2>1, <3>2, <4>1
    <3> QED
      BY <3>1, <3>2
  <2>6. Run(g, n)
    BY <2>3, <2>4, <2>5
  <2> HIDE DEF Run, g
  <2>7. \E h : Run(h, n)
    BY <2>6
  <2> QED
    BY <2>7
<1>3. N \in S
  <2> HIDE DEF S
  <2>1. \A n \in 0..N : n \in S
    BY <1>1, <1>2, BoundedInduction
  <2> QED
    BY <2>1
<1>4. PICK f : Run(f, N)
  BY <1>3
<1>5. IsRun(f, N, A, a, G)
  BY <1>4 DEF IsRun
<1> QED
  BY <1>5
=============================================================================
