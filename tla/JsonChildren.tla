----------------------------- MODULE JsonChildren -----------------------------
(***************************************************************************)
(* Sequences of children: what the lists of JsonList, the trees of         *)
(* JsonTree and the forest of JsonForest are read as.                      *)
(***************************************************************************)
EXTENDS Naturals, Sequences, FiniteSets

Appended(s, item) == [i \in 1..(Len(s) + 1) |-> IF i <= Len(s) THEN s[i] ELSE item]

Without(s, k) == [i \in 1..(Len(s) - 1) |-> IF i < k THEN s[i] ELSE s[i + 1]]

Inserted(s, k, item) ==
  [i \in 1..(Len(s) + 1) |-> IF i < k THEN s[i] ELSE IF i = k THEN item ELSE s[i - 1]]

Replaced(s, k, item) == [s EXCEPT ![k] = item]

\* S and all that edges, a function from items to sets of items, lead to.
Closure(edges, S) ==
  LET within[n \in Nat] ==
        IF n = 0 THEN S
        ELSE LET inner == within[n - 1] IN inner \cup UNION {edges[x] : x \in inner}
  IN within[Cardinality(DOMAIN edges)]

Children(k, x) == {k[x][i] : i \in 1..Len(k[x])}

\* x and the items below it.
Owned(k, x) == Closure([y \in DOMAIN k |-> Children(k, y)], {x})
=============================================================================
