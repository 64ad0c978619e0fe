----------------------------- MODULE TurnTheorems -----------------------------
(***************************************************************************)
(* Induction over the turns of a loop, and what a recursive function over  *)
(* them is.                                                                *)
(***************************************************************************)
EXTENDS Naturals, TLAPS, WellFoundedInduction

\* The order of the natural numbers, for the least element of a set of them.
Less == {p \in Nat \X Nat : p[1] < p[2]}

\* A set of numbers that is not empty has a least one, which is how the proofs
\* below go over the turns of a loop.
LEMMA LeastNatural ==
  ASSUME NEW T \in SUBSET Nat, T # {}
  PROVE  \E x \in T : \A y \in T : x <= y
<1>1. IsWellFoundedOn(Less, Nat)
  BY NatLessThanWellFounded DEF OpToRel, Less
<1>2. PICK x \in T : \A y \in T : ~ (<<y, x>> \in Less)
  BY <1>1, WFMin
<1>3. ASSUME NEW y \in T
      PROVE  x <= y
  <2>1. x \in Nat /\ y \in Nat
    OBVIOUS
  <2>2. <<y, x>> \in Nat \X Nat /\ <<y, x>>[1] = y /\ <<y, x>>[2] = x
    BY <2>1
  <2>3. ~ (y < x)
    BY <1>2, <2>2 DEF Less
  <2> QED BY <2>1, <2>3
<1> QED BY <1>3

\* Induction: what holds of no turn and of one turn more holds of all.
LEMMA EveryTurn ==
  ASSUME NEW T \in SUBSET Nat, 0 \in T, \A n \in T : n + 1 \in T
  PROVE  T = Nat
<1> SUFFICES ASSUME Nat \ T # {} PROVE FALSE
  OBVIOUS
<1>1. PICK n \in Nat \ T : \A m \in Nat \ T : n <= m
  BY LeastNatural
<1>2. n # 0 /\ n - 1 \in Nat
  BY <1>1
<1>3. n - 1 \in T
  BY <1>1, <1>2
<1>4. (n - 1) + 1 = n
  BY <1>2
<1> QED BY <1>1, <1>3, <1>4

\* g is the first n turns of the loop that starts in base and goes on by step.
Turns(g, n, D, base, step) ==
  g \in [0..n -> D] /\ g[0] = base /\ \A i \in 0..n : i # 0 => g[i] = step[g[i - 1]]

\* Any number of turns can be taken.
LEMMA TurnsExist ==
  ASSUME NEW D, NEW base \in D, NEW step \in [D -> D]
  PROVE  \A n \in Nat : \E g : Turns(g, n, D, base, step)
<1> DEFINE T == {n \in Nat : \E g : Turns(g, n, D, base, step)}
<1>1. 0 \in T
  <2>1. Turns([i \in 0..0 |-> base], 0, D, base, step)
    BY DEF Turns
  <2> QED BY <2>1
<1>2. ASSUME NEW n \in T
      PROVE  n + 1 \in T
  <2>1. PICK g : Turns(g, n, D, base, step)
    OBVIOUS
  <2> DEFINE e == [i \in 0..(n + 1) |-> IF i = n + 1 THEN step[g[n]] ELSE g[i]]
  <2>2. Turns(e, n + 1, D, base, step)
    BY <2>1 DEF Turns
  <2> QED BY <2>2
<1>3. T = Nat
  <2> HIDE DEF T
  <2>1. T \in SUBSET Nat
    BY DEF T
  <2> QED BY <1>1, <1>2, <2>1, EveryTurn
<1> QED BY <1>3

\* More turns begin with the same ones.
LEMMA TurnsAgree ==
  ASSUME NEW D, NEW base \in D, NEW step \in [D -> D], NEW n \in Nat, NEW m \in Nat, n <= m,
         NEW g, NEW h, Turns(g, n, D, base, step), Turns(h, m, D, base, step)
  PROVE  \A i \in 0..n : g[i] = h[i]
<1> DEFINE T == {i \in 0..n : g[i] # h[i]}
<1> SUFFICES ASSUME T # {} PROVE FALSE
  OBVIOUS
<1>1. PICK i \in T : \A j \in T : i <= j
  <2>1. T \in SUBSET Nat
    OBVIOUS
  <2> QED BY <2>1, LeastNatural
<1>2. i \in 0..n /\ g[i] # h[i] /\ i # 0
  BY <1>1 DEF Turns
<1>3. i - 1 \in 0..n /\ i - 1 \notin T /\ i \in 0..m
  BY <1>1, <1>2
<1>4. g[i - 1] = h[i - 1]
  BY <1>3
<1> QED BY <1>2, <1>3, <1>4 DEF Turns

\* What a recursive function over the turns of a loop is: some function does
\* satisfy its definition.
LEMMA Loop ==
  ASSUME NEW D, NEW base \in D, NEW step \in [D -> D]
  PROVE  \E f \in [Nat -> D] : f[0] = base /\ \A n \in Nat : n # 0 => f[n] = step[f[n - 1]]
<1> DEFINE part(n) == CHOOSE g : Turns(g, n, D, base, step)
           f == [n \in Nat |-> part(n)[n]]
<1>1. \A n \in Nat : Turns(part(n), n, D, base, step)
  BY TurnsExist
<1> HIDE DEF part
<1>2. f \in [Nat -> D] /\ f[0] = base
  BY <1>1 DEF Turns
<1>3. ASSUME NEW n \in Nat, n # 0
      PROVE  f[n] = step[f[n - 1]]
  <2>1. n - 1 \in Nat /\ n - 1 <= n
    BY <1>3
  <2>2. part(n)[n - 1] = part(n - 1)[n - 1]
    BY <2>1, <1>1, TurnsAgree
  <2>3. part(n)[n] = step[part(n)[n - 1]]
    BY <1>1, <1>3, n \in 0..n DEF Turns
  <2> QED BY <2>1, <2>2, <2>3
<1> QED BY <1>2, <1>3
=============================================================================
