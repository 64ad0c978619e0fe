----------------------------- MODULE JsonCompare -----------------------------
(***************************************************************************)
(* cJSON_Compare on the trees of JsonTree, and what it says of a copy.     *)
(***************************************************************************)
EXTENDS JsonTree
-----------------------------------------------------------------------------
(* Comparing.                                                               *)

RECURSIVE Compare(_, _, _, _), CompareElements(_, _, _, _), CompareMembers(_, _, _, _, _)
Compare(h, a, b, exact) ==
  /\ a # Null /\ b # Null /\ h.kind[a] = h.kind[b]
  /\ \/ a = b \/ h.kind[a] = "string"
     \/ h.kind[a] = "array" /\ CompareElements(h, h.child[a], h.child[b], exact)
     \/ /\ h.kind[a] = "object"
        /\ CompareMembers(h, h.child[a], a, b, exact)
        /\ CompareMembers(h, h.child[b], b, a, exact)

CompareElements(h, x, y, exact) ==
  IF x = Null \/ y = Null THEN x = y
  ELSE Compare(h, x, y, exact) /\ CompareElements(h, h.next[x], h.next[y], exact)

\* Each member from x on has an equal one of its name in b.
CompareMembers(h, x, a, b, exact) ==
  IF x = Null THEN TRUE
  ELSE /\ Compare(h, x, GetObjectItem(h, b, h.key[x], exact), exact)
       /\ CompareMembers(h, h.next[x], a, b, exact)
-----------------------------------------------------------------------------
\* In the tree below x no object has a member without a key or two of one name.
PlainTree(x, exact) ==
  \A y \in Reach(heap, {x}) : heap.kind[y] = "object" =>
    LET s == Chain(heap, heap.child[y])
    IN \A i, j \in DOMAIN s :
         heap.key[s[i]] # None /\ (i # j => ~SameName(heap.key[s[i]], heap.key[s[j]], exact))

\* A copy is equal to what it was made from, references in it and shared keys
\* included, as cJSON_Compare sees it.
CopyCompares ==
  \A item \in Readable :
    LET copy == Duplicate(Trial(3 * Cardinality(Items)), item, TRUE)
    IN copy.item # Null => \A exact \in BOOLEAN :
         PlainTree(item, exact) => Compare(copy.heap, item, copy.item, exact)
=============================================================================
