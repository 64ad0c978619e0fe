------------------------------ MODULE JsonForest ------------------------------
(***************************************************************************)
(* What the cJSON tree functions promise, without pointers: a caller holds *)
(* items, each with a sequence of children; an item is at one place; a     *)
(* call moves one item, makes one tree or removes one tree.                *)
(***************************************************************************)
EXTENDS JsonChildren

CONSTANT Items

VARIABLES
  held,  \* items that exist
  kids   \* [Items -> Seq(Items)], the children each item owns

vars == <<held, kids>>

Root(x) == x \in held /\ \A p \in held : x \notin Children(kids, p)

Becomes(S, k) == held' = S /\ kids' = [i \in Items |-> IF i \in S THEN k[i] ELSE <<>>]

Init == held = {} /\ kids = [i \in Items |-> <<>>]

\* A root becomes the i-th child of an item outside its own tree.
Insert(p, i, x) ==
  Becomes(held, [kids EXCEPT ![p] = Inserted(@, i, x)]) /\ Root(x) /\ p \notin Owned(kids, x)

Take(p, i) == Becomes(held, [kids EXCEPT ![p] = Without(@, i)])

Discard(p, i) ==
  Becomes(held \ Owned(kids, kids[p][i]), [kids EXCEPT ![p] = Without(@, i)])

Exchange(p, i, x) ==
  /\ Becomes(held \ Owned(kids, kids[p][i]), [kids EXCEPT ![p] = Replaced(@, i, x)])
  /\ Root(x) /\ p \notin Owned(kids, x)

Drop(x) == Becomes(held \ Owned(kids, x), kids) /\ Root(x)

\* A new tree, alone or as the last child of an item that exists.
Sprout ==
  LET new == held' \ held IN
  \E x \in new :
    /\ held \subseteq held' /\ Owned(kids', x) = new
    /\ kids' \in [Items -> Seq(held')] /\ \A i \in Items \ held' : kids'[i] = <<>>
    /\ \A p, q \in new : \A i \in DOMAIN kids'[p], j \in DOMAIN kids'[q] :
         kids'[p][i] = kids'[q][j] => p = q /\ i = j
    /\ \/ \A i \in held : kids'[i] = kids[i]
       \/ \E p \in held : \A i \in held : kids'[i] = IF i = p THEN Appended(kids[i], x) ELSE kids[i]

Next ==
  \/ Sprout
  \/ \E x \in held : Drop(x)
  \/ \E p \in held :
       \/ \E x \in held, i \in 1..(Len(kids[p]) + 1) : Insert(p, i, x)
       \/ \E i \in DOMAIN kids[p] : Take(p, i) \/ Discard(p, i) \/ \E x \in held : Exchange(p, i, x)

Spec == Init /\ [][UNCHANGED vars \/ Next]_vars
=============================================================================
