------------------------------- MODULE JsonList -------------------------------
(***************************************************************************)
(* The list of children of a cJSON item (src/srcs/json/cJSON.c).  The      *)
(* parent's child points to the first child; next links run to the last,  *)
(* whose next is NULL; prev links run back, and the first child's prev is  *)
(* the last one, so that an append needs no walk.  The operators below are *)
(* the four functions that relink, one LET step per assignment, on a heap  *)
(* of three pointer fields.                                                *)
(***************************************************************************)
EXTENDS JsonChildren

CONSTANTS
  Items,  \* addresses of cJSON structures
  Null    \* the null pointer

ASSUME NullAssumption == Null \notin Items

Pointers == Items \cup {Null}

Heaps == [next : [Items -> Pointers], prev : [Items -> Pointers],
          child : [Items -> Pointers]]
-----------------------------------------------------------------------------
SuffixObject(h, before, item) == [h EXCEPT !.next[before] = item, !.prev[item] = before]

AddItemToArray(h, array, item) ==
  LET first == h.child[array]
      last == h.prev[first]
  IN IF first = Null
     THEN [h EXCEPT !.child[array] = item, !.prev[item] = item, !.next[item] = Null]
     ELSE IF last = Null THEN h
     ELSE [SuffixObject(h, last, item) EXCEPT !.prev[first] = item]

\* The two tests of cJSON_DetachItemViaPointer that let it go on.
Detachable(h, parent, item) == item = h.child[parent] \/ h.prev[item] # Null

\* Mutant: the first child's link to the last is not moved.
MutantDetachItemViaPointer(h, parent, item) ==
  LET a == IF item # h.child[parent] THEN [h EXCEPT !.next[h.prev[item]] = h.next[item]] ELSE h
      b == IF a.next[item] # Null THEN [a EXCEPT !.prev[a.next[item]] = a.prev[item]] ELSE a
      c == IF item = h.child[parent] THEN [b EXCEPT !.child[parent] = b.next[item]] ELSE b
  IN [c EXCEPT !.prev[item] = Null, !.next[item] = Null]

DetachItemViaPointer(h, parent, item) ==
  LET first == h.child[parent]
      a == IF item # first THEN [h EXCEPT !.next[h.prev[item]] = h.next[item]] ELSE h
      b == IF a.next[item] # Null THEN [a EXCEPT !.prev[a.next[item]] = a.prev[item]] ELSE a
      c == IF item = first THEN [b EXCEPT !.child[parent] = b.next[item]]
           ELSE IF b.next[item] = Null THEN [b EXCEPT !.prev[first] = b.prev[item]]
           ELSE b
  IN [c EXCEPT !.prev[item] = Null, !.next[item] = Null]

\* cJSON_InsertItemInArray, once it has found the item the new one goes before.
InsertBefore(h, array, after, item) ==
  LET first == h.child[array]
      before == h.prev[after]
      a == [h EXCEPT !.next[item] = after, !.prev[item] = before, !.prev[after] = item]
  IN IF after = first THEN [a EXCEPT !.child[array] = item]
     ELSE [a EXCEPT !.next[before] = item]

\* Mutant: the replaced item is deleted with its links still set.
MutantReplaceItemViaPointer(h, parent, item, by) ==
  LET first == h.child[parent]
      a == [h EXCEPT !.next[by] = h.next[item], !.prev[by] = h.prev[item]]
      b == IF a.next[by] # Null THEN [a EXCEPT !.prev[a.next[by]] = by] ELSE a
      alone == IF b.prev[first] = first THEN [b EXCEPT !.prev[by] = by] ELSE b
  IN IF first = item THEN [alone EXCEPT !.child[parent] = by]
     ELSE [b EXCEPT !.next[b.prev[by]] = by, !.prev[first] = IF b.next[by] = Null THEN by ELSE @]

\* cJSON_ReplaceItemViaPointer up to the deletion of the replaced item.
ReplaceItemViaPointer(h, parent, item, by) ==
  LET first == h.child[parent]
      a == [h EXCEPT !.next[by] = h.next[item], !.prev[by] = h.prev[item]]
      b == IF a.next[by] # Null THEN [a EXCEPT !.prev[a.next[by]] = by] ELSE a
      alone == IF b.prev[first] = first THEN [b EXCEPT !.prev[by] = by] ELSE b
      linked == IF b.prev[by] # Null THEN [b EXCEPT !.next[b.prev[by]] = by] ELSE b
      c == IF first = item THEN [alone EXCEPT !.child[parent] = by]
           ELSE IF linked.next[by] = Null THEN [linked EXCEPT !.prev[first] = by]
           ELSE linked
  IN [c EXCEPT !.next[item] = Null, !.prev[item] = Null]
-----------------------------------------------------------------------------
(* What the fields have to say of a list.                                   *)

\* Heap h holds s as the children of parent.
Represents(h, parent, s) ==
  /\ s \in Seq(Items)
  /\ \A i, j \in 1..Len(s) : s[i] = s[j] => i = j
  /\ h.child[parent] = IF s = <<>> THEN Null ELSE s[1]
  /\ \A i \in 1..Len(s) :
       /\ h.next[s[i]] = IF i = Len(s) THEN Null ELSE s[i + 1]
       /\ h.prev[s[i]] = IF i = 1 THEN s[Len(s)] ELSE s[i - 1]

\* item is in no list: cJSON_New_Item and a detachment leave it so.
Loose(h, item) == h.next[item] = Null /\ h.prev[item] = Null

Among(item, s) == \E i \in 1..Len(s) : s[i] = item
=============================================================================
