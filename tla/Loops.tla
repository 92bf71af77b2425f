---------------------------------- MODULE Loops ----------------------------------
(***************************************************************************)
(* Induction for the loops of the models.  What a loop computes is written *)
(* as a function defined by recursion on its turns; that such a function   *)
(* exists, and what holds of its values, is proved from the fact that a    *)
(* set of numbers has a least element.  Induction is stated with sets      *)
(* rather than predicates.                                                 *)
(***************************************************************************)
EXTENDS Naturals, WellFoundedInduction, TLAPS

LEMMA LeastNumber ==
    ASSUME NEW T, T \subseteq Nat, T # {}
    PROVE  \E x \in T : \A y \in T : x <= y
<1> DEFINE R == { pair \in Nat \X Nat : pair[1] < pair[2] }
<1>1. IsWellFoundedOn(R, Nat)
  BY NatLessThanWellFounded DEF OpToRel
<1>2. \E x \in T : \A y \in T : ~(<<y, x>> \in R)
  <2> HIDE DEF R
  <2> QED BY <1>1, WFMin
<1>3. \E x \in T : \A y \in T : ~(y < x)
  BY <1>2
<1> QED BY <1>3

LEMMA Induction ==
    ASSUME NEW S, 0 \in S, \A n \in Nat : n \in S => n + 1 \in S
    PROVE  Nat \subseteq S
<1>1. SUFFICES ASSUME Nat \ S # {} PROVE FALSE
  OBVIOUS
<1>2. PICK x \in Nat \ S : \A y \in Nat \ S : x <= y
  BY <1>1, LeastNumber
<1>3. x # 0 /\ x - 1 \in Nat /\ (x - 1) + 1 = x /\ ~(x <= x - 1)
  BY <1>2
<1> QED BY <1>2, <1>3

\* What a loop of L turns makes of a, turn by turn: g is one turn.
Turns(S, a, L, g) ==
    { f \in [0 .. L -> S] :
        \A n \in 0 .. L : f[n] = IF n = 0 THEN a ELSE g[<<n, f[n - 1]>>] }

LEMMA Loop ==
    ASSUME NEW S, NEW a \in S, NEW L \in Nat, NEW g \in [(1 .. L) \X S -> S]
    PROVE  Turns(S, a, L, g) # {}
<1> DEFINE Done(m) == \E f \in [0 .. m -> S] :
               \A n \in 0 .. m : f[n] = IF n = 0 THEN a ELSE g[<<n, f[n - 1]>>]
           T == { m \in Nat : m <= L => Done(m) }
<1>1. 0 \in T
  <2>1. [n \in 0 .. 0 |-> a] \in [0 .. 0 -> S]
    OBVIOUS
  <2>2. \A n \in 0 .. 0 : [k \in 0 .. 0 |-> a][n] = a /\ n = 0
    OBVIOUS
  <2> QED BY <2>1, <2>2
<1>2. \A m \in Nat : m \in T => m + 1 \in T
  <2> SUFFICES ASSUME NEW m \in Nat, m + 1 <= L, Done(m)
               PROVE  Done(m + 1)
    <3>1. \A m, l \in Nat : m + 1 <= l => m <= l
      OBVIOUS
    <3> HIDE DEF Done
    <3> QED BY <3>1
  <2>1. PICK f \in [0 .. m -> S] :
            \A n \in 0 .. m : f[n] = IF n = 0 THEN a ELSE g[<<n, f[n - 1]>>]
    OBVIOUS
  <2> DEFINE h == [n \in 0 .. m + 1 |-> IF n = m + 1 THEN g[<<m + 1, f[m]>>] ELSE f[n]]
  <2>2. g[<<m + 1, f[m]>>] \in S
    <3>1. m + 1 \in 1 .. L /\ f[m] \in S
      BY <2>1
    <3> QED BY <3>1
  <2>3. h \in [0 .. m + 1 -> S]
    BY <2>1, <2>2
  <2>4. ASSUME NEW n \in 0 .. m + 1
        PROVE  h[n] = IF n = 0 THEN a ELSE g[<<n, h[n - 1]>>]
    <3>1. CASE n = m + 1
      <4>1. h[n] = g[<<m + 1, f[m]>>] /\ h[n - 1] = f[m] /\ n # 0
        BY <3>1
      <4> QED BY <3>1, <4>1
    <3>2. CASE n # m + 1
      <4>1. n \in 0 .. m /\ h[n] = f[n]
        BY <3>2
      <4>2. n # 0 => h[n - 1] = f[n - 1]
        BY <3>2
      <4> QED BY <2>1, <4>1, <4>2
    <3> QED BY <3>1, <3>2
  <2> HIDE DEF h
  <2> QED BY <2>3, <2>4
<1>3. Nat \subseteq T
  <2> HIDE DEF T
  <2> QED BY <1>1, <1>2, Induction
<1> QED BY <1>3 DEF Turns
==================================================================================
