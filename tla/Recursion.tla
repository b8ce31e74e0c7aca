----------------------------- MODULE Recursion -----------------------------
(***************************************************************************)
(* Induction over the naturals and recursion over 0 .. k, with a set or a  *)
(* function in place of a predicate or an operator, for the proofs about   *)
(* the loops and encodings of the endpoints.                               *)
(***************************************************************************)
EXTENDS Naturals, WellFoundedInduction, TLAPS

\* A set of naturals that is not empty has a least element.
LEMMA LeastNat ==
  ASSUME NEW T \in SUBSET Nat, T # {}
  PROVE  \E x \in T : \A y \in T : x <= y
<1> DEFINE R == OpToRel(<, Nat)
<1>1. IsWellFoundedOn(R, Nat)
  BY NatLessThanWellFounded
<1>2. \A x, y \in Nat : <<y, x>> \in R <=> y < x
  BY DEF OpToRel
<1> HIDE DEF R
<1>3. PICK x \in T : \A y \in T : ~ (<<y, x>> \in R)
  BY <1>1, WFMin
<1>4. \A y \in T : ~ (y < x)
  BY <1>2, <1>3
<1> QED BY <1>4

\* Induction, for a set that holds 0 and the successors of what it holds.
LEMMA Induction ==
  ASSUME NEW S, 0 \in S, \A n \in Nat : n \in S => n + 1 \in S
  PROVE  Nat \subseteq S
<1>1. SUFFICES ASSUME Nat \ S # {} PROVE FALSE
  OBVIOUS
<1>2. PICK x \in Nat \ S : \A y \in Nat \ S : x <= y
  BY <1>1, LeastNat
<1>3. x # 0
  BY <1>2
<1>4. x - 1 \in Nat /\ x = (x - 1) + 1
  BY <1>2, <1>3
<1>5. x - 1 \in S
  BY <1>2, <1>4
<1> QED BY <1>2, <1>4, <1>5

\* The same up to a bound.
LEMMA BoundedInduction ==
  ASSUME NEW k \in Nat, NEW S, 0 \in S,
         \A n \in 1 .. k : n - 1 \in S => n \in S
  PROVE  0 .. k \subseteq S
<1> DEFINE T == {n \in Nat : n <= k => n \in S}
<1>1. 0 \in T
  OBVIOUS
<1>2. ASSUME NEW n \in Nat, n \in T PROVE n + 1 \in T
  <2>1. CASE n + 1 <= k
    <3>1. n + 1 \in 1 .. k /\ (n + 1) - 1 = n /\ n \in S
      BY <1>2, <2>1
    <3> QED BY <3>1
  <2>2. CASE ~(n + 1 <= k)
    BY <2>2
  <2> QED BY <2>1, <2>2
<1> HIDE DEF T
<1>3. Nat \subseteq T
  BY <1>1, <1>2, Induction
<1> QED BY <1>3 DEF T

-----------------------------------------------------------------------------
\* The recursion over 0 .. k that starts with `start` and whose step at n is
\* the function step[n].
Solves(f, k, start, step) ==
  f[0] = start /\ \A n \in 1 .. k : f[n] = step[n][f[n - 1]]

\* Such a recursion has a solution.
LEMMA RecursionExists ==
  ASSUME NEW k \in Nat, NEW V, NEW start \in V,
         NEW step \in [1 .. k -> [V -> V]]
  PROVE  \E f \in [0 .. k -> V] : Solves(f, k, start, step)
<1> DEFINE S == {m \in 0 .. k : \E f \in [0 .. m -> V] :
                                  Solves(f, m, start, step)}
<1>1. 0 \in S
  <2> DEFINE f == [n \in 0 .. 0 |-> start]
  <2>1. f \in [0 .. 0 -> V] /\ Solves(f, 0, start, step)
    BY DEF Solves
  <2> HIDE DEF f
  <2> QED BY <2>1
<1>2. ASSUME NEW m \in 1 .. k, m - 1 \in S PROVE m \in S
  <2>1. PICK f \in [0 .. m - 1 -> V] : Solves(f, m - 1, start, step)
    BY <1>2
  <2> DEFINE last == step[m][f[m - 1]]
             g    == [n \in 0 .. m |-> IF n = m THEN last ELSE f[n]]
  <2>2. m - 1 \in 0 .. m - 1 /\ m \in 0 .. k
    OBVIOUS
  <2>3. last \in V
    BY <2>2
  <2> HIDE DEF last
  <2>4. \A n \in 0 .. m : n = m \/ n \in 0 .. m - 1
    OBVIOUS
  <2>5. g \in [0 .. m -> V]
    BY <2>3, <2>4
  <2>6. \A n \in 0 .. m - 1 : n \in 0 .. m /\ n # m /\ g[n] = f[n]
    OBVIOUS
  <2>7. g[m] = last
    OBVIOUS
  <2> HIDE DEF g
  <2>8. g[0] = start
    <3>1. 0 \in 0 .. m - 1
      OBVIOUS
    <3> QED BY <2>1, <2>6, <3>1 DEF Solves
  <2>9. ASSUME NEW n \in 1 .. m PROVE g[n] = step[n][g[n - 1]]
    <3>1. CASE n = m
      BY <2>2, <2>6, <2>7, <3>1 DEF last
    <3>2. CASE n # m
      <4>1. n \in 1 .. m - 1 /\ n \in 0 .. m - 1 /\ n - 1 \in 0 .. m - 1
        BY <3>2
      <4> QED BY <2>1, <2>6, <4>1 DEF Solves
    <3> QED BY <3>1, <3>2
  <2>10. Solves(g, m, start, step)
    BY <2>8, <2>9 DEF Solves
  <2> QED BY <2>2, <2>5, <2>10
<1> HIDE DEF S
<1>3. 0 .. k \subseteq S
  BY <1>1, <1>2, BoundedInduction
<1>4. k \in S
  BY <1>3
<1> QED BY <1>4 DEF S

=============================================================================
