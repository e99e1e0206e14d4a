------------------------------- MODULE Loops --------------------------------
(***************************************************************************)
(* Induction and loops, for the proofs about recursive functions.  The     *)
(* library's induction theorems take an operator, so induction is done     *)
(* with sets, from the least element of a set of naturals.  It shows that  *)
(* a loop of N rounds computes something, hence that a recursive function  *)
(* is what its definition says, and that the library's sums, which are     *)
(* folds over a set, add up in any order.                                  *)
(***************************************************************************)
EXTENDS Integers, Functions, WellFoundedInduction, TLAPS

\* A set of naturals has a least element.
LEMMA Least ==
  ASSUME NEW T \in SUBSET Nat, T # {}
  PROVE  \E x \in T : \A y \in T : x <= y
<1>1. \E x \in T : \A y \in T : ~ (<<y, x>> \in OpToRel(<,Nat))
  BY NatLessThanWellFounded, WFMin, Zenon
<1>2. PICK x \in T : \A y \in T : ~ (<<y, x>> \in OpToRel(<,Nat))
  BY <1>1, Zenon
<1>3. \A y \in T : ~(y < x)
  BY <1>2, Zenon DEF OpToRel
<1> QED
  BY <1>3

\* Induction up to N, for what can be said with a set.
LEMMA UpTo ==
  ASSUME NEW N \in Nat, NEW S, 0 \in S,
         \A n \in 0..N : n < N /\ n \in S => n + 1 \in S
  PROVE  \A n \in 0..N : n \in S
<1> SUFFICES ASSUME NEW T, T = {n \in 0..N : n \notin S}, T # {}
             PROVE  FALSE
  BY Zenon
<1>1. T \in SUBSET Nat
  OBVIOUS
<1>2. PICK x \in T : \A y \in T : x <= y
  BY <1>1, Least
<1>3. x \in 0..N /\ x # 0
  OBVIOUS
<1>4. x - 1 \in 0..N /\ x - 1 \notin T
  BY <1>2, <1>3
<1>5. PICK y \in 0..N : y = x - 1
  BY <1>4
<1>6. y \in S /\ y < N /\ y + 1 = x
  BY <1>3, <1>4, <1>5
<1> QED
  BY <1>6

\* The values that a loop of N rounds goes through.
Loops(N, A, a, round, f) ==
  /\ f \in [0..N -> A]
  /\ f[0] = a
  /\ \A n \in 1..N : f[n] = round[n][f[n - 1]]

\* A loop of N rounds over values of A computes something.
LEMMA LoopExists ==
  ASSUME NEW N \in Nat, NEW A, NEW a \in A, NEW round \in [1..N -> [A -> A]]
  PROVE  \E f : Loops(N, A, a, round, f)
<1> DEFINE Loop(k, f) == f \in [0..k -> A] /\ f[0] = a /\ \A n \in 1..k : f[n] = round[n][f[n - 1]]
           S == {k \in 0..N : \E f : Loop(k, f)}
<1>1. 0 \in S
  <2>1. PICK f : f = [n \in 0..0 |-> a]
    BY Zenon
  <2>2. f \in [0..0 -> A] /\ f[0] = a /\ \A n \in 1..0 : FALSE
    BY <2>1
  <2>3. Loop(0, f)
    BY <2>2
  <2> QED
    BY <2>3
<1>2. ASSUME NEW k \in 0..N, k < N, k \in S
      PROVE  k + 1 \in S
  <2>1. PICK f : Loop(k, f)
    BY <1>2
  <2>2. PICK j \in 1..N : j = k + 1
    BY <1>2
  <2>3. k \in 0..k /\ f[k] \in A /\ round[j] \in [A -> A]
    BY <2>1, <2>2
  <2>4. PICK v \in A : v = round[j][f[k]]
    BY <2>3
  <2>5. PICK g : g = [n \in 0..j |-> IF n = j THEN v ELSE f[n]]
    BY Zenon
  <2>6. \A n \in 0..j : n = j \/ n \in 0..k
    BY <2>2
  <2>7. g \in [0..j -> A] /\ g[0] = a /\ j \in 0..j /\ 0 \in 0..j
    BY <2>1, <2>2, <2>5, <2>6
  <2>8. ASSUME NEW n \in 1..j
        PROVE  g[n] = round[n][g[n - 1]]
    <3>1. CASE n = j
      <4>1. g[n] = v /\ n - 1 = k /\ g[k] = f[k]
        BY <2>2, <2>5, <2>7, <3>1
      <4> QED
        BY <2>4, <3>1, <4>1
    <3>2. CASE n # j
      <4>1. n \in 1..k /\ n \in 0..j /\ n - 1 \in 0..j /\ n - 1 # j
        BY <2>2, <3>2
      <4>2. g[n] = f[n] /\ g[n - 1] = f[n - 1]
        BY <2>5, <3>2, <4>1
      <4> QED
        BY <2>1, <4>1, <4>2
    <3> QED
      BY <3>1, <3>2
  <2>9. Loop(j, g)
    BY <2>7, <2>8
  <2> HIDE DEF Loop
  <2> QED
    BY <2>2, <2>9
<1>3. N \in S
  <2> HIDE DEF S
  <2>1. \A n \in 0..N : n \in S
    BY <1>1, <1>2, UpTo, Zenon
  <2> QED
    BY <2>1
<1> QED
  BY <1>3 DEF Loops
-----------------------------------------------------------------------------
(* Sums.  The library folds a set in the order that CHOOSE gives; a sum    *)
(* does not depend on it.                                                  *)

\* The element that a fold takes first.
First(s) == CHOOSE x \in s : TRUE

\* One unfolding of the sums of f over the subsets of S.
Adding(f, S, h) ==
  [s \in SUBSET S |-> IF s = {} THEN 0 ELSE f[First(s)] + h[s \ {First(s)}]]

\* c measures the subsets of U, and each is larger than what is left of it.
Measures(c, U) ==
  /\ \A s \in SUBSET U : c[s] \in Nat
  /\ \A s \in SUBSET U : \A x \in s : c[s \ {x}] < c[s]
  /\ \A s, t \in SUBSET U : s \subseteq t => c[s] <= c[t]

\* f has natural numbers on S.
Numbers(f, S) == \A x \in S : f[x] \in Nat

\* Sums exist.
LEMMA SumExists ==
  ASSUME NEW S, NEW c, Measures(c, S), NEW f, Numbers(f, S)
  PROVE  \E h \in [SUBSET S -> Nat] : h = Adding(f, S, h)
<1> DEFINE A == [SUBSET S -> Nat]
<1>1. PICK N \in Nat : N = c[S] + 1
  BY DEF Measures
<1>2. \A s \in SUBSET S : c[s] \in Nat /\ c[s] < N
  <2>1. \A s \in SUBSET S : c[s] \in Nat /\ c[S] \in Nat /\ c[s] <= c[S]
    BY Zenon DEF Measures
  <2> QED
    BY <1>1, <2>1
<1>3. \A s \in SUBSET S : s # {} => First(s) \in s
  BY Zenon DEF First
<1>4. ASSUME NEW h \in A
      PROVE  Adding(f, S, h) \in A
  <2>1. \A s \in SUBSET S : s # {} => f[First(s)] \in Nat /\ h[s \ {First(s)}] \in Nat
    BY <1>3, Zenon DEF Numbers
  <2>2. \A s \in SUBSET S : s # {} => f[First(s)] + h[s \ {First(s)}] \in Nat
    BY <2>1
  <2> QED
    BY <2>2 DEF Adding
<1>5. PICK round : round = [n \in 1..N |-> [h \in A |-> Adding(f, S, h)]]
  BY Zenon
<1>6. round \in [1..N -> [A -> A]]
  BY <1>4, <1>5, Zenon
<1>7. PICK a \in A : a = [s \in SUBSET S |-> 0]
  OBVIOUS
<1>8. PICK g : Loops(N, A, a, round, g)
  BY <1>6, <1>7, LoopExists, Zenon
<1>9. g \in [0..N -> A] /\ \A n \in 1..N : g[n] = round[n][g[n - 1]]
  BY <1>8, Zenon DEF Loops
<1> HIDE DEF A
<1>10. \A n \in 0..N : n < N => n + 1 \in 0..N /\ n + 1 \in 1..N /\ n + 1 - 1 = n
  OBVIOUS
<1>11. \A n \in 0..N : n < N => g[n] \in A /\ g[n + 1] \in A /\ g[n + 1] = Adding(f, S, g[n])
  BY <1>5, <1>9, <1>10
<1> DEFINE P(n) == \A s \in SUBSET S : c[s] < n => g[n][s] = Adding(f, S, g[n])[s]
           Q == {n \in 0..N : P(n)}
<1>12. 0 \in Q
  BY <1>2
<1>13. ASSUME NEW n \in 0..N, n < N, n \in Q
       PROVE  n + 1 \in Q
  <2>1. PICK k \in 0..N : k = n + 1
    BY <1>13
  <2>2. PICK p, q : p = g[n] /\ q = g[k]
    BY Zenon
  <2>3. q = Adding(f, S, p)
    BY <1>11, <1>13, <2>1, <2>2
  <2>4. \A s \in SUBSET S : c[s] < n => p[s] = Adding(f, S, p)[s]
    BY <1>13, <2>2, Zenon
  <2>5. ASSUME NEW s \in SUBSET S, c[s] < k
        PROVE  q[s] = Adding(f, S, q)[s]
    <3>1. CASE s = {}
      BY <2>3, <3>1, Zenon DEF Adding
    <3>2. CASE s # {}
      <4>1. PICK x, r : x = First(s) /\ r = s \ {x}
        BY Zenon
      <4>2. x \in s /\ r \in SUBSET S
        BY <1>3, <3>2, <4>1, Zenon
      <4>3. c[r] \in Nat /\ c[s] \in Nat /\ c[r] < c[s]
        BY <1>2, <4>1, <4>2, Zenon DEF Measures
      <4>4. c[r] < n
        BY <2>1, <2>5, <4>3
      <4>5. q[r] = p[r]
        BY <2>3, <2>4, <4>2, <4>4, Zenon
      <4>6. q[s] = f[x] + p[r] /\ Adding(f, S, q)[s] = f[x] + q[r]
        BY <2>3, <3>2, <4>1, Zenon DEF Adding
      <4> QED
        BY <4>5, <4>6, Zenon
    <3> QED
      BY <3>1, <3>2, Zenon
  <2>6. P(k)
    BY <2>2, <2>5, Zenon
  <2> QED
    BY <2>1, <2>6, Zenon
<1>14. N \in Q
  <2> HIDE DEF Q
  <2>1. \A n \in 0..N : n \in Q
    BY <1>12, <1>13, UpTo, Zenon
  <2>2. N \in 0..N
    OBVIOUS
  <2> QED
    BY <2>1, <2>2, Zenon
<1>15. PICK h : h = g[N]
  BY Zenon
<1>16. h \in [SUBSET S -> Nat]
  <2>1. N \in 0..N
    OBVIOUS
  <2> QED
    BY <1>9, <1>15, <2>1, Zenon DEF A
<1>17. \A s \in SUBSET S : h[s] = Adding(f, S, h)[s]
  BY <1>2, <1>14, <1>15, Zenon
<1>18. h = Adding(f, S, h)
  BY <1>16, <1>17, Zenon DEF Adding
<1> QED
  BY <1>16, <1>18, Zenon

\* Sums are the same where the numbers are.
LEMMA SumsAgree ==
  ASSUME NEW U, NEW c, Measures(c, U), NEW Z \in SUBSET U,
         NEW V, NEW W, Z \subseteq V, Z \subseteq W,
         NEW f, NEW g, \A x \in Z : f[x] = g[x],
         NEW F, NEW G, F = Adding(f, V, F), G = Adding(g, W, G)
  PROVE  F[Z] = G[Z]
<1> DEFINE P(n) == \A s \in SUBSET Z : c[s] < n => F[s] = G[s]
<1>1. PICK N \in Nat : N = c[Z] + 1
  BY DEF Measures
<1> DEFINE Q == {n \in 0..N : P(n)}
<1>2. 0 \in Q
  BY DEF Measures
<1>3. ASSUME NEW n \in 0..N, n < N, n \in Q
      PROVE  n + 1 \in Q
  <2>1. PICK k \in 0..N : k = n + 1
    BY <1>3
  <2>2. ASSUME NEW s \in SUBSET Z, c[s] < k
        PROVE  F[s] = G[s]
    <3>1. s \in SUBSET U /\ s \in SUBSET V /\ s \in SUBSET W
      OBVIOUS
    <3>2. CASE s = {}
      <4>1. Adding(f, V, F)[s] = 0 /\ Adding(g, W, G)[s] = 0
        BY <3>1, <3>2, Zenon DEF Adding
      <4> QED
        BY <4>1, Zenon
    <3>3. CASE s # {}
      <4>1. PICK x, r : x = First(s) /\ r = s \ {x}
        BY Zenon
      <4>2. x \in s /\ r \in SUBSET Z
        BY <3>3, <4>1, Zenon DEF First
      <4>3. c[r] \in Nat /\ c[s] \in Nat /\ c[r] < c[s]
        BY <3>1, <4>1, <4>2, Zenon DEF Measures
      <4>4. c[r] < n
        BY <2>1, <2>2, <4>3
      <4>5. F[r] = G[r] /\ f[x] = g[x]
        BY <1>3, <4>2, <4>4, Zenon
      <4>6. Adding(f, V, F)[s] = f[x] + F[r] /\ Adding(g, W, G)[s] = g[x] + G[r]
        BY <3>1, <3>3, <4>1, Zenon DEF Adding
      <4> QED
        BY <4>5, <4>6, Zenon
    <3> QED
      BY <3>2, <3>3, Zenon
  <2> QED
    BY <2>1, <2>2
<1>4. N \in Q
  <2> HIDE DEF Q
  <2>1. \A n \in 0..N : n \in Q
    BY <1>2, <1>3, UpTo, Zenon
  <2>2. N \in 0..N
    OBVIOUS
  <2> QED
    BY <2>1, <2>2, Zenon
<1>5. c[Z] < N
  BY <1>1 DEF Measures
<1> QED
  BY <1>4, <1>5, Zenon

\* c measures the subsets of a subset, too.
LEMMA MeasuresPart ==
  ASSUME NEW U, NEW c, Measures(c, U), NEW S \in SUBSET U
  PROVE  Measures(c, S)
<1>1. \A s \in SUBSET S : s \in SUBSET U /\ s \subseteq S
  BY Zenon
<1> QED
  BY <1>1, Zenon DEF Measures

\* The library's sum is what one unfolding after the other gives.
LEMMA SumUnfolds ==
  ASSUME NEW S, NEW c, Measures(c, S), NEW f, Numbers(f, S)
  PROVE  \E h \in [SUBSET S -> Nat] : h = Adding(f, S, h) /\ SumFunctionOnSet(f, S) = h[S]
<1>1. SumFunctionOnSet(f, S) = (CHOOSE h : h = Adding(f, S, h))[S]
  BY Zenon DEF SumFunctionOnSet, FoldFunctionOnSet, MapThenFoldSet, Adding, First
<1>2. PICK g \in [SUBSET S -> Nat] : g = Adding(f, S, g)
  BY SumExists, Zenon
<1>3. PICK h : h = CHOOSE F : F = Adding(f, S, F)
  BY Zenon
<1>4. h = Adding(f, S, h)
  BY <1>2, <1>3, Zenon
<1>5. ASSUME NEW s \in SUBSET S
      PROVE  h[s] = g[s]
  <2>1. s \subseteq S /\ \A x \in s : f[x] = f[x]
    BY Zenon
  <2> QED
    BY <1>2, <1>4, <2>1, SumsAgree
<1>6. h = g
  <2>1. h = [s \in SUBSET S |-> h[s]]
    BY <1>4, Zenon DEF Adding
  <2> QED
    BY <1>2, <1>5, <2>1, Zenon
<1> QED
  BY <1>1, <1>2, <1>3, <1>6, Zenon

\* h has the sums of f over the parts of U.
Sums(f, U, h) ==
  /\ h \in [SUBSET U -> Nat]
  /\ h = Adding(f, U, h)
  /\ \A s \in SUBSET U : SumFunctionOnSet(f, s) = h[s]

\* The sums over a set and over its parts.
LEMMA SumsOfParts ==
  ASSUME NEW U, NEW c, Measures(c, U), NEW f, Numbers(f, U)
  PROVE  \E h : Sums(f, U, h)
<1>1. PICK h \in [SUBSET U -> Nat] : h = Adding(f, U, h)
  BY SumExists, Zenon
<1>2. ASSUME NEW s \in SUBSET U
      PROVE  SumFunctionOnSet(f, s) = h[s]
  <2>1. Measures(c, s) /\ Numbers(f, s)
    BY MeasuresPart, Zenon DEF Numbers
  <2>2. PICK g : g = Adding(f, s, g) /\ SumFunctionOnSet(f, s) = g[s]
    BY <2>1, SumUnfolds, Zenon
  <2>3. s \subseteq U /\ s \subseteq s /\ \A x \in s : f[x] = f[x]
    BY Zenon
  <2>4. g[s] = h[s]
    BY <1>1, <2>2, <2>3, SumsAgree
  <2> QED
    BY <2>2, <2>4, Zenon
<1> QED
  BY <1>1, <1>2, Zenon DEF Sums

\* A sum of natural numbers is one.
LEMMA SumType ==
  ASSUME NEW U, NEW c, Measures(c, U), NEW f, Numbers(f, U), NEW S \in SUBSET U
  PROVE  SumFunctionOnSet(f, S) \in Nat
<1>1. PICK h : Sums(f, U, h)
  BY SumsOfParts, Zenon
<1>2. SumFunctionOnSet(f, S) = h[S] /\ h[S] \in Nat
  BY <1>1 DEF Sums
<1> QED
  BY <1>2, Zenon

\* It depends only on the numbers that it adds.
LEMMA SumSame ==
  ASSUME NEW U, NEW c, Measures(c, U), NEW f, Numbers(f, U), NEW g, Numbers(g, U),
         NEW S \in SUBSET U, \A x \in S : f[x] = g[x]
  PROVE  SumFunctionOnSet(f, S) = SumFunctionOnSet(g, S)
<1>1. PICK F, G : Sums(f, U, F) /\ Sums(g, U, G)
  BY SumsOfParts, Zenon
<1>2. F = Adding(f, U, F) /\ G = Adding(g, U, G) /\ S \subseteq U
  BY <1>1, Zenon DEF Sums
<1>3. F[S] = G[S]
  BY <1>2, SumsAgree
<1> QED
  BY <1>1, <1>3, Zenon DEF Sums

\* A sum over nothing is 0.
LEMMA SumOfNothing ==
  ASSUME NEW U, NEW c, Measures(c, U), NEW f, Numbers(f, U)
  PROVE  SumFunctionOnSet(f, {}) = 0
<1>1. PICK h : Sums(f, U, h)
  BY SumsOfParts, Zenon
<1>2. Adding(f, U, h)[{}] = 0 /\ {} \in SUBSET U
  BY Zenon DEF Adding
<1> QED
  BY <1>1, <1>2, Zenon DEF Sums

\* Any element can be taken out of a sum.
LEMMA SumTakes ==
  ASSUME NEW U, NEW c, Measures(c, U), NEW f, Numbers(f, U), NEW S \in SUBSET U, NEW x \in S
  PROVE  SumFunctionOnSet(f, S) = f[x] + SumFunctionOnSet(f, S \ {x})
<1>a. PICK h : Sums(f, U, h)
  BY SumsOfParts, Zenon
<1>1. /\ h \in [SUBSET U -> Nat] /\ h = Adding(f, U, h)
      /\ \A s \in SUBSET U : SumFunctionOnSet(f, s) = h[s]
  BY <1>a, Zenon DEF Sums
<1>2. ASSUME NEW s \in SUBSET U, s # {}
      PROVE  h[s] = f[First(s)] + h[s \ {First(s)}] /\ First(s) \in s
  <2>1. Adding(f, U, h)[s] = f[First(s)] + h[s \ {First(s)}]
    BY <1>2, Zenon DEF Adding
  <2>2. First(s) \in s
    BY <1>2, Zenon DEF First
  <2> QED
    BY <1>1, <2>1, <2>2, Zenon
<1> DEFINE P(n) == \A s \in SUBSET U : c[s] < n => \A y \in s : h[s] = f[y] + h[s \ {y}]
<1>3. PICK N \in Nat : N = c[S] + 1
  BY DEF Measures
<1> DEFINE Q == {n \in 0..N : P(n)}
<1>4. 0 \in Q
  BY DEF Measures
<1>5. ASSUME NEW n \in 0..N, n < N, n \in Q
      PROVE  n + 1 \in Q
  <2>1. PICK k \in 0..N : k = n + 1
    BY <1>5
  <2>2. ASSUME NEW s \in SUBSET U, c[s] < k, NEW y \in s
        PROVE  h[s] = f[y] + h[s \ {y}]
    <3>1. PICK z \in s : z = First(s) /\ h[s] = f[z] + h[s \ {z}]
      BY <1>2, Zenon
    <3>2. CASE z = y
      BY <3>1, <3>2, Zenon
    <3>3. CASE z # y
      <4>1. PICK a, b, r : a = s \ {y} /\ b = s \ {z} /\ r = a \ {z}
        BY Zenon
      <4>2. a \in SUBSET U /\ b \in SUBSET U /\ r \in SUBSET U /\ r = b \ {y} /\ z \in a /\ y \in b
        BY <3>3, <4>1
      <4>3. c[a] \in Nat /\ c[b] \in Nat /\ c[s] \in Nat /\ c[a] < c[s] /\ c[b] < c[s]
        BY <4>1, <4>2, Zenon DEF Measures
      <4>4. c[a] < n /\ c[b] < n
        BY <2>1, <2>2, <4>3
      <4>5. h[a] = f[z] + h[a \ {z}] /\ h[b] = f[y] + h[b \ {y}]
        BY <1>5, <4>2, <4>4, Zenon
      <4>6. h[a] = f[z] + h[r] /\ h[b] = f[y] + h[r] /\ h[s] = f[z] + h[b]
        BY <3>1, <4>1, <4>2, <4>5, Zenon
      <4>7. PICK p, q, w \in Nat : p = f[z] /\ q = f[y] /\ w = h[r]
        BY <1>1, <4>2 DEF Numbers
      <4> QED
        BY <4>1, <4>6, <4>7
    <3> QED
      BY <3>2, <3>3, Zenon
  <2> QED
    BY <2>1, <2>2
<1>6. N \in Q
  <2> HIDE DEF Q
  <2>1. \A n \in 0..N : n \in Q
    BY <1>4, <1>5, UpTo, Zenon
  <2>2. N \in 0..N
    OBVIOUS
  <2> QED
    BY <2>1, <2>2, Zenon
<1>7. c[S] < N
  BY <1>3 DEF Measures
<1>8. h[S] = f[x] + h[S \ {x}]
  BY <1>6, <1>7, Zenon
<1> QED
  BY <1>1, <1>8, Zenon

\* A change of one number changes the sum by as much.
LEMMA SumChanges ==
  ASSUME NEW U, NEW c, Measures(c, U), NEW f, Numbers(f, U), NEW g, Numbers(g, U),
         NEW S \in SUBSET U, NEW x \in S, \A y \in S \ {x} : f[y] = g[y]
  PROVE  SumFunctionOnSet(g, S) + f[x] = SumFunctionOnSet(f, S) + g[x]
<1>1. PICK r \in SUBSET U : r = S \ {x}
  BY Zenon
<1>2. SumFunctionOnSet(f, S) = f[x] + SumFunctionOnSet(f, r)
  BY <1>1, SumTakes
<1>3. SumFunctionOnSet(g, S) = g[x] + SumFunctionOnSet(g, r)
  BY <1>1, SumTakes
<1>4. SumFunctionOnSet(f, r) = SumFunctionOnSet(g, r)
  BY <1>1, SumSame
<1>5. PICK p, q, w \in Nat : p = f[x] /\ q = g[x] /\ w = SumFunctionOnSet(g, r)
  BY SumType DEF Numbers
<1> QED
  BY <1>2, <1>3, <1>4, <1>5

\* Zeros add up to 0.
LEMMA SumOfZeros ==
  ASSUME NEW U, NEW c, Measures(c, U), NEW f, \A x \in U : f[x] = 0
  PROVE  SumFunctionOnSet(f, U) = 0
<1>0. Numbers(f, U)
  BY DEF Numbers
<1>a. PICK h : Sums(f, U, h)
  BY <1>0, SumsOfParts, Zenon
<1>1. h = Adding(f, U, h) /\ SumFunctionOnSet(f, U) = h[U]
  BY <1>a, Zenon DEF Sums
<1>2. PICK g : g = [s \in SUBSET U |-> 0]
  BY Zenon
<1>3. g = Adding(f, U, g)
  <2>1. \A s \in SUBSET U : s # {} => f[First(s)] = 0 /\ g[s \ {First(s)}] = 0
    BY <1>2, Zenon DEF First
  <2>2. ASSUME NEW s \in SUBSET U, s # {}
        PROVE  f[First(s)] + g[s \ {First(s)}] = 0
    <3>1. PICK a, b : a = f[First(s)] /\ b = g[s \ {First(s)}] /\ a = 0 /\ b = 0
      BY <2>1, <2>2, Zenon
    <3> QED
      BY <3>1
  <2> QED
    BY <1>2, <2>2, Zenon DEF Adding
<1>4. U \in SUBSET U /\ U \subseteq U
  BY Zenon
<1>5. h[U] = g[U]
  BY <1>1, <1>3, <1>4, SumsAgree
<1> QED
  BY <1>1, <1>2, <1>4, <1>5, Zenon
=============================================================================
