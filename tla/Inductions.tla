----------------------------- MODULE Inductions -----------------------------
(***************************************************************************)
(* Induction over the naturals for sets in place of predicates, and what   *)
(* the proofs of the other modules need of least elements.                 *)
(***************************************************************************)
EXTENDS FiniteSetTheorems, TLAPS

Below == {ss \in Nat \X Nat : ss[1] < ss[2]}

\* The order of the naturals has no infinite descent.
LEMMA BelowWellFounded == IsWellFoundedOn(Below, Nat)
  BY NatLessThanWellFounded, Zenon DEF OpToRel, Below

\* A set of naturals that is not empty has a least element.
LEMMA LeastElement ==
  ASSUME NEW S \in SUBSET Nat, S # {}
  PROVE  \E x \in S : \A y \in S : x <= y
<1>1. PICK x \in S : \A y \in S : <<y, x>> \notin Below
  BY BelowWellFounded, WFMin
<1>2. \A y \in S : ~(y < x)
  BY <1>1 DEF Below
<1> QED
  BY <1>1, <1>2

\* A set with 0 and the successor of each of its naturals has all of them.
LEMMA SetInduction ==
  ASSUME NEW S, 0 \in S, \A n \in Nat : n \in S => n + 1 \in S
  PROVE  Nat \subseteq S
<1>1. SUFFICES ASSUME Nat \ S # {}
               PROVE  FALSE
  OBVIOUS
<1>2. PICK x \in Nat \ S : \A y \in Nat \ S : x <= y
  BY <1>1, LeastElement
<1>3. x # 0 /\ x - 1 \in Nat /\ x - 1 \notin S
  BY <1>2
<1> QED
  BY <1>2, <1>3

Iterates(f, base, F) ==
  f[0] = base /\ \A n \in Nat : f[n + 1] = F[<<n, f[n]>>]

\* A function is defined by its value at 0 and what a step makes of a value.
LEMMA Recursion ==
  ASSUME NEW V, NEW base \in V, NEW F \in [Nat \X V -> V]
  PROVE  \E f \in [Nat -> V] : Iterates(f, base, F)
<1> DEFINE G(n) == {g \in [0..n -> V] :
                      g[0] = base /\ \A k \in 0..(n - 1) : g[k + 1] = F[<<k, g[k]>>]}
           S == {n \in Nat : G(n) # {}}
<1>1. 0 \in S
  <2>1. [k \in 0..0 |-> base] \in G(0)
    OBVIOUS
  <2> QED
    BY <2>1
<1>2. \A n \in Nat : n \in S => n + 1 \in S
  <2> SUFFICES ASSUME NEW n \in Nat, n \in S
               PROVE  G(n + 1) # {}
    OBVIOUS
  <2>1. PICK g \in [0..n -> V] :
          g[0] = base /\ \A k \in 0..(n - 1) : g[k + 1] = F[<<k, g[k]>>]
    OBVIOUS
  <2> DEFINE h == [k \in 0..(n + 1) |-> IF k <= n THEN g[k] ELSE F[<<n, g[n]>>]]
  <2>2. h \in [0..(n + 1) -> V] /\ h[0] = base
    BY <2>1
  <2>3. \A k \in 0..n : h[k + 1] = F[<<k, h[k]>>]
    <3> SUFFICES ASSUME NEW k \in 0..n
                 PROVE  h[k + 1] = F[<<k, h[k]>>]
      OBVIOUS
    <3>1. CASE k = n
      <4>1. h[n + 1] = F[<<n, g[n]>>] /\ h[n] = g[n]
        OBVIOUS
      <4> QED
        BY <3>1, <4>1
    <3>2. CASE k # n
      <4>1. k \in 0..(n - 1) /\ k + 1 <= n /\ k + 1 \in 0..(n + 1) /\ k \in 0..(n + 1)
        BY <3>2
      <4>2. h[k + 1] = g[k + 1] /\ h[k] = g[k]
        BY <4>1
      <4> QED
        BY <2>1, <4>1, <4>2
    <3> QED
      BY <3>1, <3>2
  <2>4. (n + 1) - 1 = n
    OBVIOUS
  <2>5. h \in G(n + 1)
    BY <2>2, <2>3, <2>4
  <2> QED
    BY <2>5
<1>3. \A n \in Nat : G(n) # {}
  BY <1>1, <1>2, SetInduction
<1>4. ASSUME NEW n \in Nat, NEW g \in G(n), NEW h \in G(n + 1)
      PROVE  g[n] = h[n]
  <2> DEFINE Same == {k \in Nat : k <= n => g[k] = h[k]}
  <2>1. 0 \in Same
    OBVIOUS
  <2>2. \A k \in Nat : k \in Same => k + 1 \in Same
    <3> SUFFICES ASSUME NEW k \in Nat, k \in Same, k + 1 <= n
                 PROVE  g[k + 1] = h[k + 1]
      OBVIOUS
    <3>1. k \in 0..(n - 1) /\ k \in 0..((n + 1) - 1) /\ g[k] = h[k]
      OBVIOUS
    <3>2. g[k + 1] = F[<<k, g[k]>>] /\ h[k + 1] = F[<<k, h[k]>>]
      BY <3>1
    <3> QED
      BY <3>1, <3>2
  <2>3. n \in Same
    BY <2>1, <2>2, SetInduction
  <2> QED
    BY <2>3
<1> DEFINE Chosen(n) == CHOOSE g : g \in G(n)
           f == [n \in Nat |-> Chosen(n)[n]]
<1>5. ASSUME NEW n \in Nat
      PROVE  /\ Chosen(n) \in G(n)
             /\ Chosen(n) \in [0..n -> V] /\ Chosen(n)[0] = base
             /\ \A k \in 0..(n - 1) : Chosen(n)[k + 1] = F[<<k, Chosen(n)[k]>>]
  <2>1. \E g : g \in G(n)
    BY <1>3
  <2>2. Chosen(n) \in G(n)
    <3> HIDE DEF G
    <3> QED
      BY <2>1
  <2> QED
    BY <2>2
<1> HIDE DEF Chosen
<1>6. f \in [Nat -> V] /\ f[0] = base
  <2>1. \A n \in Nat : Chosen(n)[n] \in V
    BY <1>5
  <2>2. Chosen(0)[0] = base
    BY <1>5
  <2> QED
    BY <2>1, <2>2
<1>7. ASSUME NEW n \in Nat
      PROVE  f[n + 1] = F[<<n, f[n]>>]
  <2>1. n + 1 \in Nat /\ f[n] = Chosen(n)[n] /\ f[n + 1] = Chosen(n + 1)[n + 1]
    OBVIOUS
  <2>2. Chosen(n)[n] = Chosen(n + 1)[n]
    <3> HIDE DEF G
    <3> QED
      BY <1>4, <1>5, <2>1
  <2>3. n \in 0..((n + 1) - 1)
    OBVIOUS
  <2>4. Chosen(n + 1)[n + 1] = F[<<n, Chosen(n + 1)[n]>>]
    BY <1>5, <2>1, <2>3
  <2> QED
    BY <2>1, <2>2, <2>4
<1> QED
  BY <1>6, <1>7 DEF Iterates
=============================================================================
