---------------------------- MODULE JsonTreeProofs ----------------------------
(***************************************************************************)
(* The public calls of cJSON.c keep the heap in order, whichever of their  *)
(* allocations fails: the inductive invariant of JsonTree, from it         *)
(* WellLinked, OwnedOnce and FailureRestores, and, from what each call     *)
(* does to the trees (Turned), that the pointers implement JsonForest.     *)
(* The calls that loop (cJSON_Duplicate, cJSON_CreateStringArray and the   *)
(* like) build a tree beside the forest (Grown) until they give it to the  *)
(* caller or delete it.                                                    *)
(***************************************************************************)
EXTENDS JsonHeapProofs

USE NullAssumption
-----------------------------------------------------------------------------
(* What each call leaves, and what it does to the forest.                   *)

\* A new tree, alone or as the last child of an item there was.
Sprouted(S, k, S2, k2) ==
  \E x \in S2 \ S :
    /\ S \subseteq S2 /\ Owned(k2, x) = S2 \ S
    /\ \/ \A i \in S : k2[i] = k[i]
       \/ \E p \in S : \A i \in S : k2[i] = IF i = p THEN Appended(k[i], x) ELSE k[i]

Dropped(S, k, S2, k2) ==
  \E x \in S : IsRoot(k, x) /\ S2 = S \ Owned(k, x) /\ k2 = Pruned(k, Owned(k, x))

\* x becomes the i-th child of p.
Entered(S, k, S2, k2) ==
  \E p \in S, x \in S : \E i \in 1..(Len(k[p]) + 1) :
    /\ IsRoot(k, x) /\ p \notin Owned(k, x)
    /\ S2 = S /\ k2 = [k EXCEPT ![p] = Inserted(k[p], i, x)]

\* The i-th child of p goes, and is the caller's or is gone with its tree.
Left(S, k, S2, k2) ==
  \E p \in S : \E i \in 1..Len(k[p]) :
    LET rest == [k EXCEPT ![p] = Without(k[p], i)]
    IN \/ S2 = S /\ k2 = rest
       \/ S2 = S \ Owned(k, k[p][i]) /\ k2 = Pruned(rest, Owned(k, k[p][i]))

\* x takes the place of the i-th child of p, which is gone with its tree.
Exchanged(S, k, S2, k2) ==
  \E p \in S, x \in S : \E i \in 1..Len(k[p]) :
    /\ IsRoot(k, x) /\ p \notin Owned(k, x)
    /\ S2 = S \ Owned(k, k[p][i])
    /\ k2 = Pruned([k EXCEPT ![p] = Replaced(k[p], i, x)], Owned(k, k[p][i]))

\* What a call may do to the forest k of the items S.
Turned(S, k, S2, k2) ==
  \/ S2 = S /\ k2 = k
  \/ Sprouted(S, k, S2, k2) \/ Dropped(S, k, S2, k2)
  \/ Entered(S, k, S2, k2) \/ Left(S, k, S2, k2) \/ Exchanged(S, k, S2, k2)

\* The heap g is in order, the caller holds m, and the forest is the one there
\* was but for what a call may do.
Steady(S, k, g, m) == \E k2 : Sound(g, k2, m) /\ Turned(S, k, g.live, k2)

\* The lists are those a walk along next reads.
LEMMA SteadyFacts ==
  ASSUME NEW S, NEW k, NEW g, NEW m, Steady(S, k, g, m)
  PROVE  LET k2 == [p \in Items |-> ListOf(g, p)] IN Sound(g, k2, m) /\ Turned(S, k, g.live, k2)
<1>1. PICK k2 : Sound(g, k2, m) /\ Turned(S, k, g.live, k2)
  BY DEF Steady
<1>2. [p \in Items |-> ListOf(g, p)] = k2
  BY <1>1, ListOfFacts DEF Sound
<1> QED BY <1>1, <1>2

\* A heap that is the same is in order too.
LEMMA SoundSame ==
  ASSUME NEW h, NEW k, NEW m, Sound(h, k, m), NEW g \in HeapType, Same(g, h)
  PROVE  Sound(g, k, m)
<1>1. Good(g, k, {})
  BY GoodSame DEF Sound
<1>2. Held(g, k, m)
  BY DEF Sound, Held, Same
<1> QED BY <1>1, <1>2 DEF Sound

\* A call that leaves the forest alone.
LEMMA Stays ==
  ASSUME NEW S, NEW k, NEW g, NEW m, Sound(g, k, m), g.live = S
  PROVE  Steady(S, k, g, m)
BY DEF Steady, Turned

\* A call that leaves the heap alone.
LEMMA StaysSame ==
  ASSUME NEW h, NEW k, NEW m, Sound(h, k, m), NEW g \in HeapType, Same(g, h)
  PROVE  Steady(h.live, k, g, m) /\ Sound(g, k, m)
<1>1. Sound(g, k, m) /\ g.live = h.live
  BY SoundSame DEF Same
<1> QED BY <1>1, Stays

\* A leaf is a new tree.
LEMMA LeafSteady ==
  ASSUME NEW h, NEW k, NEW m, Sound(h, k, m), NEW g, NEW n, Leaf(h, g, n), NEW M, Sound(g, k, M)
  PROVE  Steady(h.live, k, g, M)
<1>1. Owned(k, n) = {n}
  BY LeafGood DEF Sound
<1>2. h.live \in SUBSET Items /\ n \in Items \ h.live /\ g.live = h.live \cup {n}
  BY SoundFacts DEF Leaf
<1>3. n \in g.live \ h.live /\ h.live \subseteq g.live /\ g.live \ h.live = {n}
  BY <1>2
<1>4. Sprouted(h.live, k, g.live, k)
  BY <1>1, <1>3 DEF Sprouted
<1> QED BY <1>4 DEF Steady, Turned

\* What makes one item gives it to the caller.
LEMMA MakesSteady ==
  ASSUME NEW h, NEW k, NEW m, Sound(h, k, m), NEW r, Makes(h, r)
  PROVE  Steady(h.live, k, r.heap, m \cup ({r.item} \ {Null}))
<1>1. CASE r.item = Null
  <2>1. Steady(h.live, k, r.heap, m)
    BY <1>1, StaysSame DEF Makes
  <2>2. m \cup ({r.item} \ {Null}) = m
    BY <1>1
  <2> QED BY <2>1, <2>2
<1>2. CASE r.item # Null
  <2> DEFINE M == m \cup {r.item}
  <2>1. Leaf(h, r.heap, r.item)
    BY <1>2 DEF Makes
  <2>2. Sound(r.heap, k, M)
    BY <2>1, LeafSound
  <2>3. m \cup ({r.item} \ {Null}) = M
    BY <1>2
  <2> HIDE DEF M
  <2>4. Steady(h.live, k, r.heap, M)
    BY <2>1, <2>2, LeafSteady
  <2> QED BY <2>3, <2>4
<1> QED BY <1>1, <1>2

\* x has become the last child of p.
Joined(S, k, p, x, g, m) == g.live = S /\ Sound(g, [k EXCEPT ![p] = Appended(k[p], x)], m)

\* A root of the caller's that becomes the last child of p.
LEMMA JoinSteady ==
  ASSUME NEW h, NEW k, NEW m, Sound(h, k, m), NEW p \in h.live \ h.ref, NEW x \in m, p \notin Owned(k, x),
         NEW g, NEW M, Joined(h.live, k, p, x, g, M)
  PROVE  Steady(h.live, k, g, M)
<1> DEFINE s == k[p]
           i == Len(s) + 1
           k2 == [k EXCEPT ![p] = Appended(s, x)]
<1>1. x \in h.live /\ IsRoot(k, x) /\ Len(s) \in Nat
  BY SoundFacts, ListFacts
<1>2. Appended(s, x) = Inserted(s, i, x)
  BY <1>1 DEF Appended, Inserted
<1>3. i \in 1..(Len(s) + 1) /\ k2 = [k EXCEPT ![p] = Inserted(k[p], i, x)]
  BY <1>1, <1>2
<1>4. Sound(g, k2, M) /\ g.live = h.live
  BY DEF Joined
<1> HIDE DEF k2, i
<1>5. Entered(h.live, k, g.live, k2)
  BY <1>1, <1>3, <1>4 DEF Entered
<1> QED BY <1>4, <1>5 DEF Steady, Turned

\* A leaf that becomes the last child of p is a new tree there.
LEMMA JoinLeafSteady ==
  ASSUME NEW h, NEW k, NEW m, Sound(h, k, m), NEW p \in h.live \ h.ref, NEW a, NEW n, Leaf(h, a, n),
         NEW g, NEW M, Joined(a.live, k, p, n, g, M)
  PROVE  Steady(h.live, k, g, M)
<1> DEFINE k2 == [k EXCEPT ![p] = Appended(k[p], n)]
<1>1. /\ h.live \in SUBSET Items /\ n \in Items \ h.live /\ a.live = h.live \cup {n}
      /\ k \in Sequences /\ p \in Items
  BY SoundFacts DEF Leaf
<1>2. Sound(g, k2, M) /\ g.live = a.live
  BY DEF Joined
<1>3. \A i \in Items : k2[i] = IF i = p THEN Appended(k[i], n) ELSE k[i]
  BY <1>1 DEF Sequences
<1> HIDE DEF k2
<1>4. k2 \in Sequences
  BY <1>2, SoundFacts
<1>5. Owned(k, n) = {n}
  BY LeafGood DEF Sound
<1>6. \A y \in Owned(k, n) : k2[y] = k[y]
  BY <1>1, <1>3, <1>5
<1>7. Owned(k2, n) = {n}
  BY <1>1, <1>4, <1>5, <1>6, OwnedSame
<1>8. \A i \in h.live : k2[i] = IF i = p THEN Appended(k[i], n) ELSE k[i]
  BY <1>1, <1>3
<1>9. n \in g.live \ h.live /\ h.live \subseteq g.live /\ g.live \ h.live = {n}
  BY <1>1, <1>2
<1>10. Sprouted(h.live, k, g.live, k2)
  BY <1>7, <1>8, <1>9 DEF Sprouted
<1> QED BY <1>2, <1>10 DEF Steady, Turned

\* cJSON_AddItemToArray.
LEMMA AppendJoins ==
  ASSUME NEW h, NEW k, NEW m, Sound(h, k, m), NEW p \in h.live \ h.ref, NEW x \in m, p \notin Owned(k, x)
  PROVE  Joined(h.live, k, p, x, AddItemToArray(h, p, x), m \ {x})
BY AppendSound DEF Joined

\* With a constant key the item is always taken.
LEMMA ConstMemberJoins ==
  ASSUME NEW h, NEW k, NEW m, Sound(h, k, m), NEW p \in h.live \ h.ref, NEW x \in m, p \notin Owned(k, x),
         NEW name \in ConstNames
  PROVE  /\ AddItemToObject(h, p, name, x, TRUE).item = x
         /\ Joined(h.live, k, p, x, AddItemToObject(h, p, name, x, TRUE).heap, m \ {x})
<1> DEFINE f == FreeKey(h, x)
           C == h.const \cup {x}
           g == Keyed(h, x, name, C)
<1>1. h \in HeapType /\ x \in Items /\ h.const \subseteq Items /\ k \in Sequences /\ h.texts \in Int
  BY SoundFacts, HeapFields
<1>2. f.const = h.const
  BY <1>1 DEF FreeKey, HeapType
<1>3. p # x /\ x # Null
  BY <1>1, OwnedFacts, NullAssumption
<1>4. AddItemToObject(h, p, name, x, TRUE) = Result(AddItemToArray(g, p, x), x)
  <2>1. g = [f EXCEPT !.key[x] = name, !.const = @ \cup {x}]
    BY <1>2 DEF Keyed
  <2> HIDE DEF g
  <2> QED BY <1>3, <2>1 DEF AddItemToObject
<1>5. C \in SUBSET Items /\ C \ {x} = h.const \ {x} /\ x \in C /\ name \in Keys
  BY <1>1 DEF Keys
<1> DEFINE t == 0
<1>6. t \in Int /\ h.texts = h.texts + t /\ t = IF name # None /\ x \notin C THEN 1 ELSE 0
  BY <1>1, <1>5
<1> HIDE DEF C, t
<1>7. Sound(g, k, m)
  BY <1>1, <1>5, <1>6, KeyedSound
<1>8. g.live = h.live /\ g.ref = h.ref
  BY <1>1, <1>5, KeyedFacts
<1> HIDE DEF g
<1>9. Joined(h.live, k, p, x, AddItemToArray(g, p, x), m \ {x})
  BY <1>7, <1>8, AppendJoins
<1> DEFINE r == AddItemToObject(h, p, name, x, TRUE)
<1>12. r = Result(AddItemToArray(g, p, x), x)
  BY <1>4
<1>10. r.item = x /\ r.heap = AddItemToArray(g, p, x)
  <2> HIDE DEF r
  <2> QED BY <1>12 DEF Result
<1> HIDE DEF r
<1>11. r.item = x /\ Joined(h.live, k, p, x, r.heap, m \ {x})
  BY <1>9, <1>10
<1> QED BY <1>11 DEF r

\* With a copied key nothing has changed if the copy fails.
LEMMA MemberJoins ==
  ASSUME NEW h, NEW k, NEW m, Sound(h, k, m), NEW p \in h.live \ h.ref, NEW x \in m, p \notin Owned(k, x),
         NEW name \in Names
  PROVE  LET r == AddItemToObject(h, p, name, x, FALSE)
         IN \/ r = Result(h, Null)
            \/ r.item = x /\ Joined(h.live, k, p, x, r.heap, m \ {x})
<1> DEFINE c == Strdup(h)
           f == FreeKey(c, x)
           C == h.const \ {x}
           g == Keyed(c, x, name, C)
           r == AddItemToObject(h, p, name, x, FALSE)
<1>1. h \in HeapType /\ x \in Items /\ h.const \subseteq Items /\ k \in Sequences /\ h.texts \in Int
  BY SoundFacts, HeapFields
<1>2. p # x /\ x # Null
  BY <1>1, OwnedFacts, NullAssumption
<1>3. CASE Failed(h, c)
  BY <1>3 DEF AddItemToObject
<1>4. CASE ~Failed(h, c)
  <2>1. /\ c \in HeapType /\ c.texts = h.texts + 1 /\ c.room = h.room /\ c.live = h.live /\ c.ref = h.ref
        /\ c.const = h.const /\ c.undefined = h.undefined /\ c.next = h.next /\ c.prev = h.prev
        /\ c.child = h.child /\ c.kind = h.kind /\ c.key = h.key
    BY <1>1, <1>4, CopiedFacts
  <2>10. ~Failed(h, Strdup(h))
    BY <1>4
  <2> HIDE DEF c
  <2>2. f.const = h.const
    BY <2>1 DEF FreeKey, HeapType
  <2>3. g = [f EXCEPT !.key[x] = name, !.const = @ \ {x}]
    BY <2>2 DEF Keyed
  <2>4. r = Result(AddItemToArray(g, p, x), x)
    <3> HIDE DEF g
    <3> QED BY <1>2, <2>10, <2>3 DEF AddItemToObject, c
  <2>5. C \in SUBSET Items /\ C \ {x} = h.const \ {x} /\ x \notin C /\ name \in Keys /\ name # None
    BY <1>1, DataAssumption DEF Keys
  <2> DEFINE t == 1
  <2>6. t \in Int /\ c.texts = h.texts + t /\ t = IF name # None /\ x \notin C THEN 1 ELSE 0
    BY <2>1, <2>5
  <2> HIDE DEF C, t
  <2>7. Sound(g, k, m)
    BY <1>1, <2>1, <2>5, <2>6, KeyedSound
  <2>8. g.live = h.live /\ g.ref = h.ref
    BY <1>1, <2>1, <2>5, KeyedFacts
  <2> HIDE DEF g
  <2>9. Joined(h.live, k, p, x, AddItemToArray(g, p, x), m \ {x})
    BY <2>7, <2>8, AppendJoins
  <2> HIDE DEF r
  <2>11. r.item = x /\ r.heap = AddItemToArray(g, p, x)
    BY <2>4 DEF Result
  <2>12. r.item = x /\ Joined(h.live, k, p, x, r.heap, m \ {x})
    BY <2>9, <2>11
  <2> QED BY <2>12 DEF r
<1> QED BY <1>3, <1>4

\* cJSON_AddItemReferenceToArray.
LEMMA ReferenceSteady ==
  ASSUME NEW h, NEW k, NEW m, Sound(h, k, m), NEW p \in h.live \ h.ref, NEW item \in Items
  PROVE  LET r == CreateReference(h, item)
         IN Steady(h.live, k, IF r.item = Null THEN h ELSE AddItemToArray(r.heap, p, r.item), m)
<1> DEFINE r == CreateReference(h, item)
<1>1. Makes(h, r)
  BY CreateReferenceMakes DEF Sound
<1>2. CASE r.item = Null
  BY <1>2, Stays
<1>3. CASE r.item # Null
  <2>1. Leaf(h, r.heap, r.item)
    BY <1>1, <1>3 DEF Makes
  <2> HIDE DEF r
  <2>2. Sound(r.heap, k, m \cup {r.item})
    BY <2>1, LeafSound
  <2>7. r.item \notin m /\ Owned(k, r.item) = {r.item}
    <3>1. r.item \notin m
      BY <2>1 DEF Sound, Held, Leaf
    <3>2. Good(h, k, {})
      BY DEF Sound
    <3> QED BY <2>1, <3>1, <3>2, LeafGood
  <2>3. p \in r.heap.live \ r.heap.ref /\ p # r.item
    BY <2>1 DEF Leaf
  <2> DEFINE M == m \cup {r.item}
  <2>4. p \notin Owned(k, r.item) /\ r.item \in M /\ M \ {r.item} = m
    BY <2>2, <2>3, <2>7
  <2>5. Sound(r.heap, k, M)
    BY <2>2
  <2> HIDE DEF M
  <2> DEFINE g == AddItemToArray(r.heap, p, r.item)
  <2>6. Joined(r.heap.live, k, p, r.item, g, M \ {r.item})
    BY <2>3, <2>4, <2>5, AppendJoins
  <2> HIDE DEF g
  <2>8. Joined(r.heap.live, k, p, r.item, g, m)
    BY <2>4, <2>6
  <2>9. Steady(h.live, k, g, m)
    BY <2>1, <2>8, JoinLeafSteady
  <2> QED BY <1>3, <2>9 DEF r, g
<1> QED BY <1>2, <1>3

\* A new item that becomes a member, or not: what is left if not.
LEMMA NewMember ==
  ASSUME NEW h, NEW k, NEW m, Sound(h, k, m), NEW p \in h.live \ h.ref, NEW name \in Names,
         NEW new, Makes(h, new)
  PROVE  LET r == AddItemToObject(new.heap, p, name, new.item, FALSE)
         IN \/ new.item = Null /\ r = Result(new.heap, Null) /\ Sound(new.heap, k, m)
            \/ /\ new.item # Null /\ r = Result(new.heap, Null) /\ Sound(new.heap, k, m \cup {new.item})
               /\ new.item \notin m
            \/ new.item # Null /\ r.item = new.item /\ Steady(h.live, k, r.heap, m)
<1> DEFINE r == AddItemToObject(new.heap, p, name, new.item, FALSE)
           M == m \cup {new.item}
<1>1. CASE new.item = Null
  <2>1. Sound(new.heap, k, m)
    BY <1>1, SoundSame DEF Makes
  <2> QED BY <1>1, <2>1 DEF AddItemToObject
<1>2. CASE new.item # Null
  <2>1. Leaf(h, new.heap, new.item)
    BY <1>2 DEF Makes
  <2>2. Sound(new.heap, k, m \cup {new.item})
    BY <2>1, LeafSound
  <2>7. new.item \notin m /\ Owned(k, new.item) = {new.item}
    <3>1. new.item \notin m
      BY <2>1 DEF Sound, Held, Leaf
    <3>2. Good(h, k, {})
      BY DEF Sound
    <3> QED BY <2>1, <3>1, <3>2, LeafGood
  <2>3. p \in new.heap.live \ new.heap.ref /\ p # new.item
    BY <2>1 DEF Leaf
  <2>4. p \notin Owned(k, new.item) /\ new.item \in M /\ M \ {new.item} = m
    BY <2>2, <2>3, <2>7
  <2>8. Sound(new.heap, k, M)
    BY <2>2
  <2> HIDE DEF M
  <2>5. \/ r = Result(new.heap, Null)
        \/ r.item = new.item /\ Joined(new.heap.live, k, p, new.item, r.heap, M \ {new.item})
    BY <2>3, <2>4, <2>8, MemberJoins
  <2> HIDE DEF r
  <2>9. \/ r = Result(new.heap, Null)
        \/ r.item = new.item /\ Joined(new.heap.live, k, p, new.item, r.heap, m)
    BY <2>4, <2>5
  <2>6. \/ r = Result(new.heap, Null)
        \/ r.item = new.item /\ Steady(h.live, k, r.heap, m)
    BY <2>1, <2>9, JoinLeafSteady
  <2> QED BY <1>2, <2>2, <2>6, <2>7 DEF r
<1> QED BY <1>1, <1>2

\* cJSON_AddNullToObject and its like, and what they leave when they fail.
LEMMA AddNewSteady ==
  ASSUME NEW h, NEW k, NEW m, Sound(h, k, m), NEW p \in h.live \ h.ref, NEW name \in Names, NEW kind \in Kinds
  PROVE  LET r == AddNewToObject(h, p, name, kind)
         IN /\ Steady(h.live, k, r.heap, m)
            /\ r.item = Null => r.heap \in HeapType /\ Same(r.heap, h)
<1> DEFINE new == Create(h, kind)
           added == AddItemToObject(new.heap, p, name, new.item, FALSE)
           r == AddNewToObject(h, p, name, kind)
<1>1. Makes(h, new)
  BY CreateMakes DEF Sound
<1>2. r = IF added.item # Null THEN added ELSE Result(Delete(added.heap, new.item), Null)
  BY DEF AddNewToObject
<1> HIDE DEF new, r
<1>3. \/ new.item = Null /\ added = Result(new.heap, Null) /\ Sound(new.heap, k, m)
      \/ /\ new.item # Null /\ added = Result(new.heap, Null) /\ Sound(new.heap, k, m \cup {new.item})
         /\ new.item \notin m
      \/ new.item # Null /\ added.item = new.item /\ Steady(h.live, k, added.heap, m)
  BY <1>1, NewMember
<1> HIDE DEF added
<1>4. CASE new.item # Null /\ added.item = new.item /\ Steady(h.live, k, added.heap, m)
  <2>1. r = added
    BY <1>2, <1>4
  <2> QED BY <1>4, <2>1 DEF r
<1>5. CASE added = Result(new.heap, Null)
  <2> DEFINE g == Delete(new.heap, new.item)
  <2>1. r.item = Null /\ r.heap = g
    BY <1>2, <1>5 DEF Result
  <2>2. g \in HeapType /\ Same(g, h)
    <3>1. CASE new.item = Null
      <4>1. new.heap \in HeapType /\ Same(new.heap, h)
        BY <1>1, <3>1 DEF Makes
      <4>2. g \in HeapType /\ Same(g, new.heap)
        BY <3>1, <4>1, DeleteNull
      <4> QED BY <4>1, <4>2, SameTrans
    <3>2. CASE new.item # Null
      <4>1. Leaf(h, new.heap, new.item) /\ Good(h, k, {})
        BY <1>1, <3>2 DEF Makes, Sound
      <4> QED BY <4>1, LeafDeleted
    <3> QED BY <3>1, <3>2
  <2>3. Steady(h.live, k, g, m)
    BY <2>2, StaysSame
  <2> QED BY <2>1, <2>2, <2>3 DEF r
<1> QED BY <1>3, <1>4, <1>5

\* Changing the children of p leaves the trees of the children it had alone.
LEMMA OwnedElsewhere ==
  ASSUME NEW h, NEW k, NEW m, Sound(h, k, m), NEW p \in h.live \ h.ref, NEW y \in Children(k, p),
         NEW g, NEW k2, NEW M, Sound(g, k2, M), \A q \in Items : q # p => k2[q] = k[q]
  PROVE  Owned(k2, y) = Owned(k, y)
<1>1. k \in Sequences /\ IsForest(k) /\ h.live \in SUBSET Items /\ p \in Items
  BY SoundFacts
<1>2. p \notin Owned(k, y) /\ y \in Items
  BY <1>1, ParentAbove
<1>3. k2 \in Sequences
  BY SoundFacts
<1>4. \A q \in Owned(k, y) : k2[q] = k[q]
  BY <1>1, <1>2, OwnedFacts
<1> QED BY <1>1, <1>2, <1>3, <1>4, OwnedSame

\* What a call that looks for a child of p finds.
Child(k, p, item) == item = Null \/ \E i \in 1..Len(k[p]) : item = k[p][i]

\* cJSON_DetachItemViaPointer gives the item to the caller; cJSON_DeleteItemFromArray frees it.
LEMMA DetachSteady ==
  ASSUME NEW h, NEW k, NEW m, Sound(h, k, m), NEW p \in h.live \ h.ref, NEW item, Child(k, p, item)
  PROVE  /\ LET r == DetachItem(h, p, item) IN Steady(h.live, k, r.heap, m \cup ({r.item} \ {Null}))
         /\ Steady(h.live, k, DeleteItem(h, p, item), m)
<1> DEFINE r == DetachItem(h, p, item)
<1>1. CASE item = Null
  <2>1. r = Result(h, Null) /\ h \in HeapType
    BY <1>1, SoundFacts DEF DetachItem
  <2>2. r.heap = h /\ r.item = Null
    BY <2>1 DEF Result
  <2>3. Delete(h, Null) \in HeapType /\ Same(Delete(h, Null), h)
    BY <2>1, DeleteNull
  <2>4. DeleteItem(h, p, item) = Delete(h, Null)
    BY <2>2 DEF DeleteItem
  <2>5. Steady(h.live, k, Delete(h, Null), m) /\ Steady(h.live, k, h, m)
    BY <2>3, StaysSame, Stays
  <2> HIDE DEF r
  <2>6. m \cup ({r.item} \ {Null}) = m
    BY <2>2
  <2> QED BY <2>2, <2>4, <2>5, <2>6 DEF r
<1>2. CASE item # Null
  <2>1. PICK i \in 1..Len(k[p]) : item = k[p][i]
    BY <1>2 DEF Child
  <2> DEFINE g == DetachItemViaPointer(h, p, item)
             d == Delete(g, item)
             k2 == [k EXCEPT ![p] = Without(k[p], i)]
             M == m \cup {item}
  <2>2. Detachable(h, p, k[p][i]) /\ Sound(DetachItemViaPointer(h, p, k[p][i]), k2, m \cup {k[p][i]})
        /\ DetachItemViaPointer(h, p, k[p][i]).live = h.live
    BY DetachSound
  <2>3. Detachable(h, p, item) /\ Sound(g, k2, M) /\ g.live = h.live
    BY <2>1, <2>2
  <2>4. item \notin m /\ item \in Children(k, p) /\ p \in h.live
    BY <2>1, ListFacts
  <2>5. r = Result(g, item)
    BY <1>2, <2>3 DEF DetachItem
  <2> HIDE DEF g
  <2>6. r.heap = g /\ r.item = item
    BY <2>5 DEF Result
  <2>7. DeleteItem(h, p, item) = d
    BY <2>6 DEF DeleteItem
  <2>8. item \in M /\ M \ {item} = m
    BY <2>4
  <2> HIDE DEF M
  <2>12. k2 = [k EXCEPT ![p] = Without(k[p], i)]
    OBVIOUS
  <2>16. \A q \in Items : q # p => k2[q] = k[q]
    BY SoundFacts DEF Sequences
  <2> HIDE DEF k2
  <2>11. Owned(k2, item) = Owned(k, item)
    BY <2>3, <2>4, <2>16, OwnedElsewhere
  <2>9. d.live = g.live \ Owned(k2, item) /\ Sound(d, Pruned(k2, Owned(k2, item)), M \ {item})
    BY <2>3, <2>8, DeleteSound
  <2> HIDE DEF r, d
  <2>10. m \cup ({r.item} \ {Null}) = M
    BY <1>2, <2>6 DEF M
  <2>13. Left(h.live, k, h.live, k2) /\ Left(h.live, k, d.live, Pruned(k2, Owned(k, item)))
    BY <2>1, <2>3, <2>4, <2>9, <2>11, <2>12 DEF Left
  <2>14. Steady(h.live, k, g, M)
    BY <2>3, <2>13 DEF Steady, Turned
  <2>15. Steady(h.live, k, d, m)
    BY <2>8, <2>9, <2>11, <2>13 DEF Steady, Turned
  <2> QED BY <2>6, <2>7, <2>10, <2>14, <2>15 DEF r
<1> QED BY <1>1, <1>2

\* cJSON_InsertItemInArray takes the item, or changes nothing.
LEMMA InsertSteady ==
  ASSUME NEW h, NEW k, NEW m, Sound(h, k, m), NEW p \in h.live \ h.ref, NEW which \in Nat,
         NEW x \in m, p \notin Owned(k, x)
  PROVE  LET r == InsertItemInArray(h, p, which, x)
         IN r = Result(h, Null) \/ (r.item = x /\ Steady(h.live, k, r.heap, m \ {x}))
<1> DEFINE r == InsertItemInArray(h, p, which, x)
           after == GetArrayItem(h, p, which)
<1>1. Good(h, k, {}) /\ Len(k[p]) \in Nat
  BY ListFacts DEF Sound
<1>2. after = IF which < Len(k[p]) THEN k[p][which + 1] ELSE Null
  BY <1>1, GetFacts
<1>3. r = IF after = Null THEN Result(AddItemToArray(h, p, x), x)
          ELSE IF after # h.child[p] /\ h.prev[after] = Null THEN Result(h, Null)
          ELSE Result(InsertBefore(h, p, after, x), x)
  BY DEF InsertItemInArray
<1> HIDE DEF r, after
<1>4. CASE after = Null
  <2>1. r.item = x /\ r.heap = AddItemToArray(h, p, x)
    BY <1>3, <1>4 DEF Result
  <2>2. Joined(h.live, k, p, x, r.heap, m \ {x})
    BY <2>1, AppendJoins
  <2>3. Steady(h.live, k, r.heap, m \ {x})
    BY <2>2, JoinSteady
  <2> QED BY <2>1, <2>3 DEF r
<1>5. CASE after # Null /\ ~(after # h.child[p] /\ h.prev[after] = Null)
  <2>1. r.item = x /\ r.heap = InsertBefore(h, p, after, x)
    BY <1>3, <1>5 DEF Result
  <2>2. which + 1 \in 1..Len(k[p]) /\ after = k[p][which + 1]
    BY <1>1, <1>2, <1>5
  <2>3. PICK i \in 1..Len(k[p]) : after = k[p][i]
    BY <2>2
  <2> DEFINE k2 == [k EXCEPT ![p] = Inserted(k[p], i, x)]
             g == InsertBefore(h, p, k[p][i], x)
  <2>4. Sound(g, k2, m \ {x}) /\ g.live = h.live
    <3>1. Relisted(h.live, k, p, Inserted(k[p], i, x), g, m \ {x})
      <4> HIDE DEF k2
      <4> QED BY InsertSound
    <3> QED BY <3>1 DEF Relisted
  <2>10. k2 = [k EXCEPT ![p] = Inserted(k[p], i, x)]
    OBVIOUS
  <2> HIDE DEF g, k2
  <2>6. x \in h.live /\ IsRoot(k, x) /\ i \in 1..(Len(k[p]) + 1)
    BY <1>1, <2>3, SoundFacts
  <2>7. Entered(h.live, k, g.live, k2)
    BY <2>4, <2>6, <2>10 DEF Entered
  <2>8. Steady(h.live, k, g, m \ {x})
    BY <2>4, <2>7, <2>10 DEF Steady, Turned
  <2>5. Steady(h.live, k, r.heap, m \ {x})
    BY <2>1, <2>3, <2>8 DEF g
  <2> QED BY <2>1, <2>5 DEF r
<1>6. CASE after # Null /\ after # h.child[p] /\ h.prev[after] = Null
  BY <1>3, <1>6 DEF r
<1> QED BY <1>4, <1>5, <1>6

\* cJSON_ReplaceItemViaPointer takes the item and frees the old one, or changes nothing.
LEMMA ReplaceSteady ==
  ASSUME NEW h, NEW k, NEW m, Sound(h, k, m), NEW p \in h.live \ h.ref, NEW item, Child(k, p, item),
         NEW x \in m, p \notin Owned(k, x)
  PROVE  LET r == ReplaceItem(h, p, item, x)
         IN r = Result(h, Null) \/ (r.item = x /\ Steady(h.live, k, r.heap, m \ {x}))
<1> DEFINE r == ReplaceItem(h, p, item, x)
<1>1. CASE h.child[p] = Null \/ item = Null
  BY <1>1 DEF ReplaceItem
<1>2. CASE ~(h.child[p] = Null \/ item = Null)
  <2>1. PICK i \in 1..Len(k[p]) : item = k[p][i]
    BY <1>2 DEF Child
  <2> DEFINE g == ReplaceItemViaPointer(h, p, item, x)
             k2 == [k EXCEPT ![p] = Replaced(k[p], i, x)]
             M == (m \ {x}) \cup {item}
  <2>2. Sound(ReplaceItemViaPointer(h, p, k[p][i], x), k2, (m \ {x}) \cup {k[p][i]}) /\ k[p][i] \notin m
    BY ReplaceSound
  <2>14. ReplaceItemViaPointer(h, p, k[p][i], x).live = h.live
    <3>1. /\ Sound(ReplaceItemViaPointer(h, p, k[p][i], x), [k EXCEPT ![p] = Replaced(k[p], i, x)],
                    (m \ {x}) \cup {k[p][i]})
          /\ ReplaceItemViaPointer(h, p, k[p][i], x).live = h.live
          /\ k[p][i] \notin m
      <4> HIDE DEF g, k2, M
      <4> QED BY ReplaceSound
    <3> QED BY <3>1
  <2>3. Sound(g, k2, M) /\ item \notin m /\ g.live = h.live
    BY <2>1, <2>2, <2>14
  <2>10. item \in Children(k, p) /\ x \in h.live /\ IsRoot(k, x)
    BY <2>1, ListFacts, SoundFacts
  <2>12. k2 = [k EXCEPT ![p] = Replaced(k[p], i, x)]
    OBVIOUS
  <2>15. \A q \in Items : q # p => k2[q] = k[q]
    BY SoundFacts DEF Sequences
  <2>11. Owned(k2, item) = Owned(k, item)
    <3> HIDE DEF g, k2, M
    <3> QED BY <2>3, <2>10, <2>15, OwnedElsewhere
  <2>4. x # item
    BY <2>3
  <2>5. r = Result(Delete(g, item), x)
    BY <1>2, <2>4 DEF ReplaceItem
  <2>6. item \in M /\ M \ {item} = m \ {x}
    BY <2>3
  <2> HIDE DEF M, k2, g, r
  <2> DEFINE d == Delete(g, item)
  <2>7. d.live = g.live \ Owned(k2, item) /\ Sound(d, Pruned(k2, Owned(k2, item)), M \ {item})
    BY <2>3, <2>6, DeleteSound
  <2> HIDE DEF d
  <2>13. Exchanged(h.live, k, d.live, Pruned(k2, Owned(k2, item)))
    BY <2>1, <2>3, <2>7, <2>10, <2>11, <2>12 DEF Exchanged
  <2>8. r.item = x /\ r.heap = d
    BY <2>5 DEF Result, d
  <2>9. Steady(h.live, k, r.heap, m \ {x})
    BY <2>6, <2>7, <2>8, <2>13 DEF Steady, Turned
  <2> QED BY <2>8, <2>9 DEF r
<1> QED BY <1>1, <1>2

\* The replacement is renamed even when there is nothing to replace.
LEMMA ReplaceMemberSteady ==
  ASSUME NEW h, NEW k, NEW m, Sound(h, k, m), NEW p \in h.live \ h.ref, NEW name \in Names,
         NEW exact \in BOOLEAN, NEW x \in m, p \notin Owned(k, x)
  PROVE  LET r == ReplaceItemInObject(h, p, name, x, exact)
         IN \/ r.item = Null /\ Steady(h.live, k, r.heap, m)
            \/ r.item = x /\ Steady(h.live, k, r.heap, m \ {x})
<1> DEFINE freed == [FreeKey(h, x) EXCEPT !.key[x] = None]
           named == Strdup(freed)
           keyed == [named EXCEPT !.key[x] = name, !.const = @ \ {x}]
           r == ReplaceItemInObject(h, p, name, x, exact)
           found == GetObjectItem(keyed, p, name, exact)
<1>1. r = IF Failed(freed, named) THEN Result(freed, Null) ELSE ReplaceItem(keyed, p, found, x)
  BY DEF ReplaceItemInObject
<1> HIDE DEF r, found
<1>2. h \in HeapType /\ x \in Items /\ h.const \in SUBSET Items /\ h.texts \in Int
  BY SoundFacts, HeapFields
<1> DEFINE none == None
           C == h.const
           D == h.const \ {x}
<1>3. freed = Keyed(h, x, none, C)
  <2> DEFINE f == FreeKey(h, x)
  <2>1. f \in HeapType /\ f.const = h.const
    BY <1>2 DEF FreeKey, HeapType
  <2> HIDE DEF f
  <2>2. [f EXCEPT !.key[x] = None] = [f EXCEPT !.key[x] = None, !.const = h.const]
    BY <2>1 DEF HeapType
  <2> QED BY <2>2 DEF f, Keyed
<1> HIDE DEF freed
<1>4. none \in Keys /\ none = None /\ C \in SUBSET Items /\ C \ {x} = h.const \ {x}
  BY <1>2 DEF Keys
<1> HIDE DEF none, C
<1>5. Sound(freed, k, m)
  <2> DEFINE t == 0
  <2>1. t \in Int /\ h.texts = h.texts + t /\ t = IF none # None /\ x \notin C THEN 1 ELSE 0
    BY <1>2, <1>4
  <2> HIDE DEF t
  <2>2. Sound(Keyed(h, x, none, C), k, m)
    BY <1>2, <1>4, <2>1, KeyedSound
  <2> QED BY <1>3, <2>2
<1>6. /\ freed.live = h.live /\ freed.ref = h.ref /\ freed.const = h.const /\ freed.key[x] = None
      /\ freed \in HeapType
  BY <1>2, <1>3, <1>4, KeyedFacts DEF C
<1>7. CASE Failed(freed, named)
  <2>1. r.item = Null /\ r.heap = freed
    BY <1>1, <1>7 DEF Result
  <2>2. Steady(h.live, k, freed, m)
    BY <1>5, <1>6, Stays
  <2> QED BY <2>1, <2>2 DEF r
<1>8. CASE ~Failed(freed, named)
  <2>1. /\ named \in HeapType /\ named.texts = freed.texts + 1 /\ named.room = freed.room
        /\ named.live = freed.live
        /\ named.ref = freed.ref /\ named.const = freed.const /\ named.undefined = freed.undefined
        /\ named.next = freed.next /\ named.prev = freed.prev
        /\ named.child = freed.child /\ named.kind = freed.kind /\ named.key = freed.key
    BY <1>6, <1>8, CopiedFacts
  <2>2. r = ReplaceItem(keyed, p, found, x)
    BY <1>1, <1>8
  <2>3. keyed = Keyed(named, x, name, D)
    <3>1. FreeKey(named, x) = named
      BY <1>6, <2>1 DEF FreeKey, OwnsKey
    <3>2. named.const \ {x} = D
      BY <1>6, <2>1
    <3> HIDE DEF named, D
    <3> QED BY <3>1, <3>2 DEF Keyed
  <2> HIDE DEF named, keyed
  <2>4. name \in Keys /\ name # None /\ D \in SUBSET Items /\ D \ {x} = freed.const \ {x} /\ x \notin D
    BY <1>2, <1>6, DataAssumption DEF Keys
  <2> HIDE DEF D
  <2>5. Sound(keyed, k, m)
    <3> DEFINE t == 1
    <3>1. t \in Int /\ named.texts = freed.texts + t /\ t = IF name # None /\ x \notin D THEN 1 ELSE 0
      BY <2>1, <2>4
    <3> HIDE DEF t
    <3>2. Sound(Keyed(named, x, name, D), k, m)
      BY <1>5, <2>1, <2>4, <3>1, KeyedSound
    <3> QED BY <2>3, <3>2
  <2>6. keyed.live = h.live /\ keyed.ref = h.ref
    BY <1>2, <1>6, <2>1, <2>3, <2>4, KeyedFacts
  <2>7. Child(k, p, found)
    <3>1. Good(keyed, k, {}) /\ p \in keyed.live \ keyed.ref
      BY <2>5, <2>6 DEF Sound
    <3> QED BY <3>1, GetFacts DEF Child, found
  <2>11. p \in keyed.live \ keyed.ref
    BY <2>6
  <2>10. \/ r = Result(keyed, Null)
         \/ r.item = x /\ Steady(keyed.live, k, r.heap, m \ {x})
    BY <2>2, <2>5, <2>7, <2>11, ReplaceSteady
  <2>8. \/ r = Result(keyed, Null)
        \/ r.item = x /\ Steady(h.live, k, r.heap, m \ {x})
    BY <2>6, <2>10
  <2>9. CASE r = Result(keyed, Null)
    <3>1. r.item = Null /\ r.heap = keyed
      BY <2>9 DEF Result
    <3>2. Steady(h.live, k, keyed, m)
      BY <2>5, <2>6, Stays
    <3> QED BY <3>1, <3>2 DEF r
  <2> QED BY <2>8, <2>9 DEF r
<1> QED BY <1>7, <1>8

\* cJSON_SetValuestring.
LEMMA ValueSteady ==
  ASSUME NEW h, NEW k, NEW m, Sound(h, k, m), NEW item \in Items
  PROVE  Steady(h.live, k, SetValuestring(h, item), m)
<1> DEFINE g == SetValuestring(h, item)
           c == Strdup(h)
<1>1. h \in HeapType /\ h.texts \in Int
  BY SoundFacts, HeapFields
<1>2. CASE ~OwnsValue(h, item) \/ Failed(h, c)
  <2>1. g = h
    BY <1>2 DEF SetValuestring
  <2> HIDE DEF g
  <2> QED BY <2>1, Stays DEF g
<1>3. CASE OwnsValue(h, item) /\ ~Failed(h, c)
  <2>1. /\ c \in HeapType /\ c.texts = h.texts + 1 /\ c.room = h.room /\ c.live = h.live /\ c.ref = h.ref
        /\ c.const = h.const /\ c.undefined = h.undefined /\ c.next = h.next /\ c.prev = h.prev
        /\ c.child = h.child /\ c.kind = h.kind /\ c.key = h.key
    BY <1>1, <1>3, CopiedFacts
  <2>2. g = [c EXCEPT !.texts = @ - 1]
    BY <1>3 DEF SetValuestring
  <2> HIDE DEF c, g
  <2>3. /\ g \in HeapType /\ g.texts = h.texts /\ g.room = h.room /\ g.live = h.live /\ g.ref = h.ref
        /\ g.const = h.const /\ g.undefined = h.undefined /\ g.next = h.next /\ g.prev = h.prev
        /\ g.child = h.child /\ g.kind = h.kind /\ g.key = h.key
    BY <1>1, <2>1, <2>2 DEF HeapType
  <2>4. Steady(h.live, k, g, m)
    BY <2>3, StaysSame DEF Same
  <2> QED BY <2>4 DEF g
<1> QED BY <1>2, <1>3

\* cJSON_Delete of what the caller was given.
LEMMA DeleteSteady ==
  ASSUME NEW h, NEW k, NEW m, Sound(h, k, m), NEW x \in m
  PROVE  Steady(h.live, k, Delete(h, x), m \ {x})
<1> DEFINE k2 == Pruned(k, Owned(k, x))
           g == Delete(h, x)
<1>1. g.live = h.live \ Owned(k, x) /\ Sound(g, k2, m \ {x}) /\ x \in h.live /\ IsRoot(k, x)
  BY DeleteSound, SoundFacts
<1> HIDE DEF g
<1>2. Dropped(h.live, k, g.live, k2)
  BY <1>1 DEF Dropped
<1>3. Steady(h.live, k, g, m \ {x})
  BY <1>1, <1>2 DEF Steady, Turned
<1> QED BY <1>3 DEF g

\* cJSON_AddItemReferenceToObject: a reference whose key cannot be copied is lost.
LEMMA MemberReferenceSteady ==
  ASSUME NEW h, NEW k, NEW m, Sound(h, k, m), NEW p \in h.live \ h.ref, NEW name \in Names, NEW item \in Items
  PROVE  LET new == CreateReference(h, item)
         IN Steady(h.live, k, AddItemToObject(new.heap, p, name, new.item, FALSE).heap, m)
<1> DEFINE new == CreateReference(h, item)
           r == AddItemToObject(new.heap, p, name, new.item, FALSE)
<1>1. Makes(h, new) /\ (new.item # Null => new.item \in new.heap.ref /\ new.heap.key[new.item] = None)
  BY CreateReferenceMakes DEF Sound
<1> HIDE DEF new
<1>2. \/ new.item = Null /\ r = Result(new.heap, Null) /\ Sound(new.heap, k, m)
      \/ /\ new.item # Null /\ r = Result(new.heap, Null) /\ Sound(new.heap, k, m \cup {new.item})
         /\ new.item \notin m
      \/ new.item # Null /\ r.item = new.item /\ Steady(h.live, k, r.heap, m)
  BY <1>1, NewMember
<1> HIDE DEF r
<1>3. CASE new.item = Null /\ r = Result(new.heap, Null) /\ Sound(new.heap, k, m)
  <2>1. r.heap = new.heap
    BY <1>3 DEF Result
  <2>2. Steady(h.live, k, r.heap, m)
    BY <1>1, <1>3, <2>1, Stays DEF Makes, Same
  <2> QED BY <2>2 DEF r, new
<1>4. CASE /\ new.item # Null /\ r = Result(new.heap, Null) /\ Sound(new.heap, k, m \cup {new.item})
           /\ new.item \notin m
  <2> DEFINE M == m \cup {new.item}
  <2>1. M \ {new.item} = m /\ Sound(new.heap, k, M)
    BY <1>4
  <2> HIDE DEF M
  <2>2. Sound(new.heap, k, M \ {new.item})
    BY <1>1, <1>4, <2>1, LostSound
  <2>3. r.heap = new.heap
    BY <1>4 DEF Result
  <2>5. Leaf(h, new.heap, new.item)
    BY <1>1, <1>4 DEF Makes
  <2>6. Sound(new.heap, k, m)
    BY <2>1, <2>2
  <2>4. Steady(h.live, k, r.heap, m)
    BY <2>3, <2>5, <2>6, LeafSteady
  <2> QED BY <2>4 DEF r, new
<1>5. CASE Steady(h.live, k, r.heap, m)
  BY <1>5 DEF r, new
<1> QED BY <1>2, <1>3, <1>4, <1>5
-----------------------------------------------------------------------------
(* What the loops work on are heaps and items, whatever they start from.    *)

Typed(r) == r.heap \in HeapType /\ r.item \in Pointers

\* cJSON_Delete leaves a heap.
LEMMA DeleteType ==
  ASSUME NEW h \in HeapType, NEW x \in Pointers
  PROVE  Delete(h, x) \in HeapType
<1> DEFINE N == Cardinality(Items) + 1
           visited == Visit(h)[N][x]
           S == visited.items
           f == Freed(h, S)
           u == f.undefined \/ visited.again \/ ~(S \subseteq h.live)
<1>1. N \in Nat
  BY ItemsAssumption, FS_CardinalityType
<1> HIDE DEF N
<1>2. visited \in Visits
  BY <1>1, VisitLoop
<1>3. Delete(h, x) = [f EXCEPT !.undefined = u]
  BY DEF Delete, N
<1> HIDE DEF visited
<1>4. S \in SUBSET Items /\ visited.again \in BOOLEAN
  BY <1>2 DEF Visits
<1> HIDE DEF S
<1>5. f \in HeapType
  BY <1>4, FreedFacts
<1> HIDE DEF f
<1>6. u \in BOOLEAN
  OBVIOUS
<1> HIDE DEF u
<1> QED BY <1>3, <1>5, <1>6 DEF HeapType

\* Create leaves a heap and a pointer.
LEMMA CreateType ==
  ASSUME NEW h \in HeapType, NEW kind \in Kinds
  PROVE  Typed(Create(h, kind))
<1> DEFINE new == NewItem(h)
           made == SetKind(new.heap, new.item, kind)
           bare == SetKind(made, new.item, None)
           filled == Strdup(made)
           r == Create(h, kind)
<1>1. new.heap \in HeapType /\ new.item \in Pointers
  BY NewItemFacts
<1>2. r = IF new.item = Null THEN new
          ELSE IF kind # "string" THEN Result(made, new.item)
          ELSE IF Failed(made, filled) THEN Result(Delete(bare, new.item), Null)
          ELSE Result(filled, new.item)
  BY DEF Create, SetKind
<1> HIDE DEF r, new
<1>3. CASE new.item = Null
  BY <1>1, <1>2, <1>3 DEF Typed, r
<1>4. CASE new.item # Null
  <2>1. new.item \in Items /\ kind \in Kinds \cup {None} /\ None \in Kinds \cup {None} /\ Null \in Pointers
    BY <1>1, <1>4 DEF Pointers
  <2>2. made \in HeapType
    BY <1>1, <2>1, SetKindFacts
  <2> HIDE DEF made
  <2>3. bare \in HeapType
    BY <2>1, <2>2, SetKindFacts
  <2>4. filled \in HeapType
    BY <2>2, StrdupFacts
  <2> HIDE DEF bare, filled
  <2>5. Delete(bare, new.item) \in HeapType
    BY <1>1, <2>3, DeleteType
  <2>6. r.heap \in HeapType /\ r.item \in Pointers
    BY <1>1, <1>2, <1>4, <2>1, <2>2, <2>4, <2>5 DEF Result
  <2> QED BY <2>6 DEF Typed, r
<1> QED BY <1>3, <1>4

\* CopyItem leaves a heap and a pointer.
LEMMA CopyItemType ==
  ASSUME NEW h \in HeapType, NEW item \in Items
  PROVE  Typed(CopyItem(h, item))
<1> DEFINE new == NewItem(h)
           n == new.item
           typed == [new.heap EXCEPT !.const = IF item \in h.const THEN @ \cup {n} ELSE @]
           valued == IF h.kind[item] = "string" THEN Strdup(typed) ELSE typed
           kinded == IF h.kind[item] = "string" /\ Failed(typed, valued) THEN valued
                     ELSE SetKind(valued, n, h.kind[item])
           named == IF OwnsKey(h, item) THEN Strdup(kinded) ELSE kinded
           last == [named EXCEPT !.key[n] = h.key[item]]
           r == CopyItem(h, item)
<1>1. new.heap \in HeapType /\ n \in Pointers
  BY NewItemFacts
<1>2. r = IF n = Null THEN new
          ELSE IF kinded.kind[n] = None THEN Result(Delete(kinded, n), Null)
          ELSE IF OwnsKey(h, item) /\ Failed(kinded, named) THEN Result(Delete(named, n), Null)
          ELSE Result(last, n)
  BY DEF CopyItem, FillCopy
<1> HIDE DEF r, new
<1>3. CASE n = Null
  BY <1>1, <1>2, <1>3 DEF Typed, r
<1>4. CASE n # Null
  <2>1. n \in Items /\ h.kind[item] \in Kinds \cup {None} /\ Null \in Pointers /\ h.key[item] \in Keys
    BY <1>1, <1>4, HeapFields DEF Pointers
  <2> HIDE DEF n
  <2>2. typed \in HeapType
    BY <1>1, <2>1 DEF HeapType
  <2> HIDE DEF typed
  <2>3. valued \in HeapType
    BY <2>2, StrdupFacts
  <2> HIDE DEF valued
  <2>4. kinded \in HeapType
    BY <2>1, <2>3, SetKindFacts
  <2> HIDE DEF kinded
  <2>5. named \in HeapType
    BY <2>4, StrdupFacts
  <2> HIDE DEF named
  <2>6. last \in HeapType
    BY <2>1, <2>5 DEF HeapType
  <2> HIDE DEF last
  <2>7. Delete(kinded, n) \in HeapType /\ Delete(named, n) \in HeapType
    BY <1>1, <2>4, <2>5, DeleteType
  <2>8. r.heap \in HeapType /\ r.item \in Pointers
    BY <1>1, <1>2, <1>4, <2>1, <2>6, <2>7 DEF Result
  <2> QED BY <2>8 DEF Typed, r
<1> QED BY <1>3, <1>4

\* Link and Close leave a heap.
LEMMA LinkType ==
  ASSUME NEW h \in HeapType, NEW parent \in Items, NEW last \in Pointers, NEW item \in Items
  PROVE  Link(h, parent, last, item) \in HeapType /\ Close(h, parent, last) \in HeapType
<1>1. h.next \in [Items -> Pointers] /\ h.prev \in [Items -> Pointers] /\ h.child \in [Items -> Pointers]
      /\ item \in Pointers /\ h.child[parent] \in Pointers
  BY HeapFields DEF Pointers
<1>2. [h.child EXCEPT ![parent] = item] \in [Items -> Pointers]
  BY <1>1
<1>3. Close(h, parent, last) \in HeapType
  <2>1. CASE h.child[parent] # Null
    <3>1. [h.prev EXCEPT ![h.child[parent]] = last] \in [Items -> Pointers]
      BY <1>1
    <3> QED BY <2>1, <3>1 DEF Close, HeapType
  <2> QED BY <2>1 DEF Close
<1>4. Link(h, parent, last, item) \in HeapType
  <2>1. CASE last = Null
    BY <1>2, <2>1 DEF Link, HeapType
  <2>2. CASE last # Null
    <3>1. last \in Items
      BY <2>2 DEF Pointers
    <3>2. /\ [h.next EXCEPT ![last] = item] \in [Items -> Pointers]
          /\ [h.prev EXCEPT ![item] = last] \in [Items -> Pointers]
      BY <1>1, <3>1
    <3> QED BY <2>2, <3>2 DEF Link, SuffixObject, HeapType
  <2> QED BY <2>1, <2>2
<1> QED BY <1>3, <1>4

Results == [heap : HeapType, item : Pointers]

FirstCopies == [c \in Copying |-> IF c.child = Null THEN Finish(c) ELSE GiveUp(c.heap, c.parent)]

\* The fields of a state of the loop of cJSON_Duplicate.
LEMMA CopyingFacts ==
  ASSUME NEW c \in Copying
  PROVE  /\ c.heap \in HeapType /\ c.parent \in Items /\ c.last \in Pointers /\ c.child \in Pointers
         /\ c.depth \in Nat
BY DEF Copying

\* A turn of the loop leaves a result.
LEMMA CopyChildrenType ==
  ASSUME NEW copy \in [Copying -> Results], NEW c \in Copying
  PROVE  CopyChildren(copy, c) \in Results
<1> DEFINE new == CopyItem(c.heap, c.child)
           inner == [heap |-> new.heap, parent |-> new.item, last |-> Null,
                     child |-> c.heap.child[c.child], depth |-> c.depth + 1]
           copied == copy[inner]
           outer == [heap |-> Link(copied.heap, c.parent, c.last, copied.item), parent |-> c.parent,
                     last |-> copied.item, child |-> c.heap.next[c.child], depth |-> c.depth]
           r == CopyChildren(copy, c)
<1>1. r = IF c.child = Null THEN Finish(c)
          ELSE IF c.depth >= CircularLimit THEN GiveUp(c.heap, c.parent)
          ELSE IF new.item = Null THEN GiveUp(new.heap, c.parent)
          ELSE IF copied.item = Null THEN GiveUp(copied.heap, c.parent)
          ELSE copy[outer]
  BY DEF CopyChildren, CopyChild
<1>2. /\ c.heap \in HeapType /\ c.parent \in Items /\ c.last \in Pointers /\ c.child \in Pointers
      /\ c.depth \in Nat /\ c.parent \in Pointers /\ Null \in Pointers
  BY CopyingFacts DEF Pointers
<1>3. \A h \in HeapType : GiveUp(h, c.parent) \in Results
  BY <1>2, DeleteType DEF GiveUp, Result, Results
<1>4. Finish(c) \in Results
  <2>1. Close(c.heap, c.parent, c.last) \in HeapType
    BY <1>2, LinkType
  <2> QED BY <1>2, <2>1 DEF Finish, Result, Results
<1> HIDE DEF r
<1>5. CASE c.child = Null \/ c.depth >= CircularLimit
  BY <1>1, <1>2, <1>3, <1>4, <1>5 DEF r
<1>6. CASE ~(c.child = Null \/ c.depth >= CircularLimit)
  <2>1. c.child \in Items
    BY <1>2, <1>6 DEF Pointers
  <2>2. new.heap \in HeapType /\ new.item \in Pointers
    BY <1>2, <2>1, CopyItemType DEF Typed
  <2> HIDE DEF new
  <2>3. CASE new.item = Null
    BY <1>1, <1>3, <1>6, <2>2, <2>3 DEF r
  <2>4. CASE new.item # Null
    <3>1. new.item \in Items
      BY <2>2, <2>4 DEF Pointers
    <3>2. c.heap.child[c.child] \in Pointers /\ c.heap.next[c.child] \in Pointers /\ c.depth + 1 \in Nat
      BY <1>2, <2>1, HeapFields
    <3>3. inner \in Copying
      BY <1>2, <2>2, <3>1, <3>2 DEF Copying
    <3> HIDE DEF inner
    <3>4. copied.heap \in HeapType /\ copied.item \in Pointers
      BY <3>3 DEF Results
    <3> HIDE DEF copied
    <3>5. CASE copied.item = Null
      BY <1>1, <1>3, <1>6, <2>4, <3>4, <3>5 DEF r
    <3>6. CASE copied.item # Null
      <4>1. copied.item \in Items
        BY <3>4, <3>6 DEF Pointers
      <4>2. Link(copied.heap, c.parent, c.last, copied.item) \in HeapType
        BY <1>2, <3>4, <4>1, LinkType
      <4>3. outer \in Copying
        BY <1>2, <3>2, <3>4, <4>2 DEF Copying
      <4> HIDE DEF outer
      <4>4. copy[outer] \in Results
        BY <4>3
      <4> QED BY <1>1, <1>6, <2>4, <3>6, <4>4 DEF r
    <3> QED BY <3>5, <3>6
  <2> QED BY <2>3, <2>4
<1> QED BY <1>5, <1>6

\* So does the end of it.
LEMMA FirstCopiesType == FirstCopies \in [Copying -> Results]
<1> SUFFICES ASSUME NEW c \in Copying
             PROVE  (IF c.child = Null THEN Finish(c) ELSE GiveUp(c.heap, c.parent)) \in Results
  BY DEF FirstCopies
<1>1. /\ c.heap \in HeapType /\ c.parent \in Items /\ c.last \in Pointers
      /\ c.parent \in Pointers /\ Null \in Pointers
  BY CopyingFacts DEF Pointers
<1>2. Close(c.heap, c.parent, c.last) \in HeapType /\ Delete(c.heap, c.parent) \in HeapType
  BY <1>1, LinkType, DeleteType
<1> QED BY <1>1, <1>2 DEF Finish, GiveUp, Result, Results

\* Copies takes one turn more with each number.
LEMMA CopiesLoop ==
  /\ Copies[0] = FirstCopies
  /\ \A n \in Nat : n # 0 => /\ Copies[n - 1] \in [Copying -> Results]
                             /\ Copies[n] = [c \in Copying |-> CopyChildren(Copies[n - 1], c)]
<1> DEFINE D == [Copying -> Results]
           start == FirstCopies
           step == [F \in D |-> [c \in Copying |-> CopyChildren(F, c)]]
           Is(w) == w = [n \in Nat |->
                           IF n = 0
                           THEN [c \in Copying |-> IF c.child = Null THEN Finish(c) ELSE GiveUp(c.heap, c.parent)]
                           ELSE [c \in Copying |-> CopyChildren(w[n - 1], c)]]
           copies == CHOOSE w : Is(w)
<1>1. start \in D
  BY FirstCopiesType
<1>2. step \in [D -> D]
  BY CopyChildrenType
<1> HIDE DEF D, step, start
<1>3. PICK f \in [Nat -> D] : f[0] = start /\ \A n \in Nat : n # 0 => f[n] = step[f[n - 1]]
  <2>1. \E f \in [Nat -> D] : f[0] = start /\ \A n \in Nat : n # 0 => f[n] = step[f[n - 1]]
    BY <1>1, <1>2, Loop
  <2> QED BY <2>1
<1>4. ASSUME NEW n \in Nat, n # 0
      PROVE  f[n - 1] \in D /\ f[n] = [c \in Copying |-> CopyChildren(f[n - 1], c)]
  <2>1. f[n - 1] \in D
    BY <1>3, <1>4
  <2> QED BY <1>3, <1>4, <2>1 DEF step
<1>5. Is(f)
  BY <1>3, <1>4 DEF start, FirstCopies
<1>6. Is(copies)
  BY <1>5
<1>7. Copies = copies
  BY DEF Copies
<1> HIDE DEF copies
<1>8. copies[0] = start /\ \A n \in Nat : n # 0 => copies[n] = [c \in Copying |-> CopyChildren(copies[n - 1], c)]
  BY <1>6 DEF start, FirstCopies
<1> DEFINE G == {n \in Nat : copies[n] \in D}
<1>9. 0 \in G
  BY <1>1, <1>8
<1>10. ASSUME NEW n \in G PROVE n + 1 \in G
  <2>1. n \in Nat /\ copies[n] \in D /\ n + 1 \in Nat /\ n + 1 # 0 /\ (n + 1) - 1 = n
    OBVIOUS
  <2>2. copies[n + 1] = [c \in Copying |-> CopyChildren(copies[n], c)]
    BY <1>8, <2>1
  <2>3. step[copies[n]] = [c \in Copying |-> CopyChildren(copies[n], c)]
    BY <2>1 DEF step
  <2> QED BY <1>2, <2>1, <2>2, <2>3
<1>11. G = Nat
  <2>1. G \in SUBSET Nat
    OBVIOUS
  <2> HIDE DEF G
  <2> QED BY <1>9, <1>10, <2>1, EveryTurn
<1>12. \A n \in Nat : n # 0 => copies[n - 1] \in D
  BY <1>11
<1> QED BY <1>7, <1>8, <1>12 DEF D, start

Progress == [heap : HeapType, item : Pointers, last : Pointers]

\* A turn of the loop of cJSON_CreateStringArray leaves a state of it.
LEMMA AddElementType ==
  ASSUME NEW so \in Progress, NEW kind \in Kinds
  PROVE  AddElement(so, kind) \in Progress
<1> DEFINE new == Create(so.heap, kind)
           gone == Delete(new.heap, so.item)
           linked == Link(new.heap, so.item, so.last, new.item)
<1>1. so.heap \in HeapType /\ so.item \in Pointers /\ so.last \in Pointers /\ Null \in Pointers
  BY DEF Progress, Pointers
<1>2. new.heap \in HeapType /\ new.item \in Pointers
  BY <1>1, CreateType DEF Typed
<1>3. AddElement(so, kind) =
        IF so.item = Null THEN so
        ELSE IF new.item = Null THEN [heap |-> gone, item |-> Null, last |-> Null]
        ELSE [heap |-> linked, item |-> so.item, last |-> new.item]
  BY DEF AddElement, Extended
<1> HIDE DEF new
<1>4. gone \in HeapType
  BY <1>1, <1>2, DeleteType
<1>5. so.item # Null /\ new.item # Null => linked \in HeapType
  BY <1>1, <1>2, LinkType DEF Pointers
<1> HIDE DEF gone, linked
<1>6. CASE so.item = Null
  BY <1>3, <1>6
<1>7. CASE so.item # Null /\ new.item = Null
  BY <1>1, <1>3, <1>4, <1>7 DEF Progress
<1>8. CASE so.item # Null /\ new.item # Null
  BY <1>1, <1>2, <1>3, <1>5, <1>8 DEF Progress
<1> QED BY <1>6, <1>7, <1>8

\* Elements takes one turn more with each number.
LEMMA ElementsLoop ==
  ASSUME NEW start \in Progress, NEW kind \in Kinds
  PROVE  /\ Elements(start, kind)[0] = start
         /\ \A n \in Nat : n # 0 => Elements(start, kind)[n] = AddElement(Elements(start, kind)[n - 1], kind)
<1> DEFINE D == Progress
           step == [so \in D |-> AddElement(so, kind)]
           Is(w) == w = [i \in Nat |-> IF i = 0 THEN start ELSE AddElement(w[i - 1], kind)]
           made == CHOOSE w : Is(w)
<1>1. start \in D
  OBVIOUS
<1>2. step \in [D -> D]
  BY AddElementType
<1> HIDE DEF D, step
<1>3. PICK f \in [Nat -> D] : f[0] = start /\ \A n \in Nat : n # 0 => f[n] = step[f[n - 1]]
  <2>1. \E f \in [Nat -> D] : f[0] = start /\ \A n \in Nat : n # 0 => f[n] = step[f[n - 1]]
    BY <1>1, <1>2, Loop
  <2> QED BY <2>1
<1>4. ASSUME NEW n \in Nat, n # 0
      PROVE  f[n] = AddElement(f[n - 1], kind)
  <2>1. f[n - 1] \in D
    BY <1>3, <1>4
  <2> QED BY <1>3, <1>4, <2>1 DEF step
<1>5. Is(f)
  BY <1>3, <1>4
<1>6. Is(made)
  BY <1>5
<1>7. Elements(start, kind) = made
  BY DEF Elements
<1> HIDE DEF made
<1>8. made[0] = start /\ \A n \in Nat : n # 0 => made[n] = AddElement(made[n - 1], kind)
  BY <1>6
<1> QED BY <1>7, <1>8
-----------------------------------------------------------------------------
(* A tree that is being built.                                              *)

\* Nothing of g is new but the tree below the root n, and without it g is b.
Grown(b, kb, g, k, n, open) ==
  /\ Good(g, k, open) /\ n \in g.live \ g.ref /\ IsRoot(k, n) /\ n \notin b.live
  /\ Same(Freed(g, Owned(k, n)), b)
  /\ \A y \in b.live : k[y] = kb[y]

\* Heaps that are the same are the same with S freed.
LEMMA SameFreed ==
  ASSUME NEW g \in HeapType, NEW h \in HeapType, Same(g, h), NEW S \in SUBSET Items
  PROVE  Same(Freed(g, S), Freed(h, S))
<1>1. OwnAlike(g, h, S)
  BY DEF Same, OwnAlike, OwnsKey, OwnsValue
<1>2. Texts(g, S) = Texts(h, S)
  BY <1>1, TextsAlike
<1> QED BY <1>2, FreedSame DEF Same

\* What a heap in which a tree is being built has.
LEMMA GrownFacts ==
  ASSUME NEW b, NEW kb, NEW g, NEW k, NEW n, NEW open, Grown(b, kb, g, k, n, open)
  PROVE  /\ Good(g, k, open) /\ g \in HeapType /\ n \in Items /\ n \in g.live /\ n \notin g.ref
         /\ n \notin b.live
         /\ IsRoot(k, n) /\ IsForest(k) /\ k \in Sequences /\ Kept(g, k) /\ g.live \in SUBSET Items
         /\ Owned(k, n) \subseteq g.live /\ Owned(k, n) \in SUBSET Items /\ n \in Owned(k, n)
         /\ b.live = g.live \ Owned(k, n)
<1>1. Good(g, k, open) /\ n \in g.live /\ n \notin g.ref /\ n \notin b.live /\ IsRoot(k, n)
  BY DEF Grown
<1>2. g \in HeapType /\ IsForest(k) /\ Kept(g, k) /\ k \in Sequences /\ g.live \in SUBSET Items
  BY <1>1, GoodShape DEF Good
<1>3. Owned(k, n) \subseteq g.live /\ Owned(k, n) \in SUBSET Items /\ n \in Owned(k, n) /\ n \in Items
  BY <1>1, OwnedLive
<1>4. b.live = g.live \ Owned(k, n)
  <2>1. Freed(g, Owned(k, n)).live = g.live \ Owned(k, n)
    BY <1>2, <1>3, FreedFacts
  <2> QED BY <2>1 DEF Grown, Same
<1> QED BY <1>1, <1>2, <1>3, <1>4

\* What was a root before is one still, and nothing else of b has become one.
LEMMA GrownRoots ==
  ASSUME NEW b, NEW kb, NEW g, NEW k, NEW n, NEW open, Grown(b, kb, g, k, n, open), Kept(b, kb),
         NEW y \in b.live
  PROVE  IsRoot(k, y) <=> IsRoot(kb, y)
<1>1. /\ k \in Sequences /\ Kept(g, k) /\ b.live = g.live \ Owned(k, n) /\ n \in Items
  BY GrownFacts
<1>2. \A z \in b.live : k[z] = kb[z]
  BY DEF Grown
<1>3. \A z \in b.live : Children(k, z) = Children(kb, z)
  BY <1>2 DEF Children
<1>4. \A z \in Items : y \in Children(k, z) => z \in b.live
  <2> SUFFICES ASSUME NEW z \in Items, y \in Children(k, z) PROVE z \in b.live
    OBVIOUS
  <2>1. z \notin Owned(k, n)
    BY <1>1, OwnedFacts
  <2>2. z \in g.live
    BY <1>1 DEF Kept, Children
  <2> QED BY <1>1, <2>1, <2>2
<1>5. \A z \in Items : y \in Children(kb, z) => z \in b.live
  BY DEF Kept, Children
<1> QED BY <1>3, <1>4, <1>5 DEF IsRoot

\* The same in a heap that is the same.
LEMMA GrownSame ==
  ASSUME NEW b, NEW kb, NEW g, NEW k, NEW n, NEW open, Grown(b, kb, g, k, n, open),
         NEW h \in HeapType, Same(h, g)
  PROVE  Grown(b, kb, h, k, n, open)
<1>1. Good(g, k, open) /\ g \in HeapType /\ Owned(k, n) \in SUBSET Items
  BY GrownFacts
<1>2. Good(h, k, open)
  BY <1>1, GoodSame
<1>3. Same(Freed(h, Owned(k, n)), b)
  BY <1>1, SameFreed, SameTrans DEF Grown
<1>4. h.live = g.live /\ h.ref = g.ref
  BY DEF Same
<1> QED BY <1>2, <1>3, <1>4 DEF Grown

\* A new item is such a tree; its list is open or not.
LEMMA LeafGrown ==
  ASSUME NEW h, NEW k, NEW open, Good(h, k, open), NEW g, NEW n, Leaf(h, g, n), n \notin g.ref
  PROVE  Grown(h, k, g, k, n, open) /\ Grown(h, k, g, k, n, open \cup {n}) /\ k[n] = <<>>
<1>1. /\ Good(g, k, open) /\ IsRoot(k, n) /\ k[n] = <<>> /\ Same(Freed(g, Owned(k, n)), h)
  BY LeafGood
<1>2. n \in g.live /\ n \notin h.live
  BY DEF Leaf
<1>3. Good(g, k, open \cup {n})
  <2> DEFINE more == open \cup {n}
  <2>1. Whole(g, k, open)
    BY <1>1 DEF Good
  <2>2. ASSUME NEW p \in g.live \ g.ref PROVE Lists(g, p, k[p], p \in more)
    <3>1. Lists(g, p, k[p], p \in open)
      BY <2>1 DEF Whole
    <3>2. CASE p = n
      BY <1>1, <3>1, <3>2 DEF Lists
    <3>3. CASE p # n
      <4>1. (p \in more) = (p \in open)
        BY <3>3
      <4> QED BY <3>1, <4>1
    <3> QED BY <3>2, <3>3
  <2>3. Whole(g, k, more)
    BY <2>2 DEF Whole
  <2> HIDE DEF more
  <2>4. Good(g, k, more)
    BY <1>1, <2>3 DEF Good
  <2> QED BY <2>4 DEF more
<1> QED BY <1>1, <1>2, <1>3 DEF Grown

\* Deleting the tree being built restores the heap.
LEMMA GrownDeleted ==
  ASSUME NEW b, NEW kb, NEW g, NEW k, NEW n, NEW open, Grown(b, kb, g, k, n, open)
  PROVE  Delete(g, n) \in HeapType /\ Same(Delete(g, n), b)
<1>1. Good(g, k, open) /\ g \in HeapType /\ Owned(k, n) \in SUBSET Items /\ n \in g.live /\ IsRoot(k, n)
  BY GrownFacts
<1>2. Delete(g, n) = Freed(g, Owned(k, n))
  BY <1>1, DeleteCorrect
<1> QED BY <1>1, <1>2, FreedFacts DEF Grown

\* The caller is given the tree.
LEMMA GrownSound ==
  ASSUME NEW b, NEW kb, NEW m, Sound(b, kb, m), NEW g, NEW k, NEW n, Grown(b, kb, g, k, n, {})
  PROVE  Sound(g, k, m \cup {n})
<1> DEFINE S == Owned(k, n)
           f == Freed(g, S)
           none == {}
<1>1. /\ Good(g, k, none) /\ g \in HeapType /\ n \in Items /\ n \in g.live /\ n \notin g.ref
      /\ n \notin b.live
      /\ IsRoot(k, n) /\ IsForest(k) /\ S \in SUBSET Items /\ b.live = g.live \ S /\ S \subseteq g.live
      /\ Kept(g, k) /\ g.live \in SUBSET Items
  <2>1. Grown(b, kb, g, k, n, none)
    OBVIOUS
  <2> HIDE DEF none
  <2> QED BY <2>1, GrownFacts
<1>2. Kept(b, kb) /\ Held(b, kb, m)
  BY DEF Sound, Good
<1>3. \A y \in b.live : IsRoot(k, y) <=> IsRoot(kb, y)
  <2>1. Grown(b, kb, g, k, n, none)
    OBVIOUS
  <2> HIDE DEF none
  <2> QED BY <1>2, <2>1, GrownRoots
<1>4. ASSUME NEW y \in g.live, IsRoot(k, y), y # n PROVE y \in b.live
  <2>1. y \in Items
    BY <1>1
  <2>2. y \in S => \E p \in S : y \in Children(k, p)
    BY <1>1, <1>4, ParentOwned
  <2> QED BY <1>1, <1>4, <2>2 DEF IsRoot
<1>5. f.ref = g.ref \ S /\ f.key = Cleared(g.key, S, None)
  BY <1>1, FreedFacts
<1> HIDE DEF S
<1>6. b.ref = g.ref \ S /\ \A y \in b.live : b.key[y] = g.key[y]
  <2>1. Same(f, b)
    BY DEF Grown, S
  <2>2. \A y \in b.live : y \in Items /\ y \notin S
    BY <1>1
  <2>3. b.ref = f.ref /\ b.key = f.key
    BY <2>1 DEF Same
  <2> QED BY <1>5, <2>2, <2>3, ClearedAt
<1>7. Held(g, k, m \cup {n})
  <2>1. m \cup {n} \subseteq g.live /\ \A x \in m \cup {n} : IsRoot(k, x)
    BY <1>1, <1>2, <1>3 DEF Held
  <2>2. ASSUME NEW x \in g.live, IsRoot(k, x), x \notin m \cup {n} PROVE x \in g.ref /\ g.key[x] = None
    <3>1. x \in b.live
      BY <1>4, <2>2
    <3>2. x \in b.ref /\ b.key[x] = None
      BY <1>2, <1>3, <2>2, <3>1 DEF Held
    <3> QED BY <1>6, <3>1, <3>2
  <2> QED BY <2>1, <2>2 DEF Held
<1> QED BY <1>1, <1>7 DEF Sound

LastOf(k, p) == IF k[p] = <<>> THEN Null ELSE k[p][Len(k[p])]

\* x can go after the items s of the open list of p.
Linkable(g, p, s, x, last) ==
  /\ g \in HeapType /\ p \in Items /\ s \in Seq(Items) /\ x \in Items /\ ~Among(x, s)
  /\ \A i, j \in 1..Len(s) : s[i] = s[j] => i = j
  /\ Lists(g, p, s, TRUE) /\ Loose(g, x)
  /\ last = IF s = <<>> THEN Null ELSE s[Len(s)]

\* It has gone there.
Linked(g, p, s, x, l) ==
  /\ Lists(l, p, Appended(s, x), TRUE)
  /\ l \in HeapType
  /\ l.room = g.room /\ l.live = g.live /\ l.ref = g.ref /\ l.const = g.const /\ l.texts = g.texts
  /\ l.undefined = g.undefined /\ l.kind = g.kind /\ l.key = g.key
  /\ \A i \in Items : i # x /\ ~Among(i, s) => l.next[i] = g.next[i] /\ l.prev[i] = g.prev[i]
  /\ \A q \in Items \ {p} : l.child[q] = g.child[q]

\* Link appends to a list that is open.
LEMMA LinkLists ==
  ASSUME NEW g, NEW p, NEW s, NEW x, NEW last, Linkable(g, p, s, x, last)
  PROVE  Linked(g, p, s, x, Link(g, p, last, x))
<1> DEFINE t == Appended(s, x)
           l == Link(g, p, last, x)
           n == Len(s)
<1>0. /\ g \in HeapType /\ p \in Items /\ s \in Seq(Items) /\ x \in Items /\ ~Among(x, s)
      /\ \A i, j \in 1..Len(s) : s[i] = s[j] => i = j
      /\ Lists(g, p, s, TRUE) /\ Loose(g, x)
      /\ last = IF s = <<>> THEN Null ELSE s[Len(s)]
  BY DEF Linkable
<1> USE <1>0
<1>1. /\ g.next \in [Items -> Pointers] /\ g.prev \in [Items -> Pointers] /\ g.child \in [Items -> Pointers]
      /\ n \in Nat /\ x # Null
  BY HeapFields, NullAssumption
<1>2. /\ t \in Seq(Items) /\ Len(t) = n + 1 /\ t[n + 1] = x
      /\ \A i \in 1..n : t[i] = s[i] /\ s[i] # x
  BY AppendedFacts
<1>3. /\ g.child[p] = IF s = <<>> THEN Null ELSE s[1]
      /\ \A i \in 1..n : /\ g.next[s[i]] = IF i = n THEN Null ELSE s[i + 1]
                         /\ g.prev[s[i]] = IF i # 1 THEN s[i - 1] ELSE Null
      /\ g.next[x] = Null /\ g.prev[x] = Null
  BY DEF Lists, Loose
<1>4. last \in Pointers
  BY DEF Pointers
<1>5. l \in HeapType
  BY <1>4, LinkType
<1> HIDE DEF t
<1>6. CASE s = <<>>
  <2>1. last = Null /\ n = 0
    BY <1>6
  <2>2. l = [g EXCEPT !.child[p] = x]
    BY <2>1 DEF Link
  <2> HIDE DEF l
  <2>3. /\ l.room = g.room /\ l.live = g.live /\ l.ref = g.ref /\ l.const = g.const /\ l.texts = g.texts
        /\ l.undefined = g.undefined /\ l.kind = g.kind /\ l.key = g.key /\ l.next = g.next /\ l.prev = g.prev
        /\ l.child = [g.child EXCEPT ![p] = x]
    BY <2>2 DEF HeapType
  <2>4. l.child[p] = x /\ \A q \in Items \ {p} : l.child[q] = g.child[q]
    BY <1>1, <2>3
  <2>5. Len(t) = 1 /\ t[1] = x /\ t # <<>>
    <3> HIDE DEF n
    <3>1. n + 1 = 1
      BY <2>1
    <3>2. Len(t) = 1 /\ t[1] = x
      BY <1>2, <3>1
    <3>3. t = <<>> => Len(t) = 0
      OBVIOUS
    <3> QED BY <3>2, <3>3
  <2>6. Lists(l, p, t, TRUE)
    BY <1>3, <2>3, <2>4, <2>5 DEF Lists
  <2> QED BY <1>5, <2>3, <2>4, <2>6 DEF l, t, Linked
<1>7. CASE s # <<>>
  <2>1. n \in 1..n /\ last = s[n] /\ last \in Items /\ last # Null /\ last # x /\ n # 0
    <3>1. n # 0
      BY <1>7
    <3>2. n \in 1..n
      BY <1>1, <3>1
    <3>3. last = s[n]
      BY <1>7
    <3> QED BY <1>2, <3>1, <3>2, <3>3, NullAssumption
  <2>2. l = [g EXCEPT !.next[last] = x, !.prev[x] = last]
    BY <2>1 DEF Link, SuffixObject
  <2> HIDE DEF l
  <2>3. /\ l.room = g.room /\ l.live = g.live /\ l.ref = g.ref /\ l.const = g.const /\ l.texts = g.texts
        /\ l.undefined = g.undefined /\ l.kind = g.kind /\ l.key = g.key /\ l.child = g.child
        /\ l.next = [g.next EXCEPT ![last] = x] /\ l.prev = [g.prev EXCEPT ![x] = last]
    BY <2>2 DEF HeapType
  <2>4. /\ l.next[last] = x /\ \A i \in Items \ {last} : l.next[i] = g.next[i]
        /\ l.prev[x] = last /\ \A i \in Items \ {x} : l.prev[i] = g.prev[i]
    BY <1>1, <2>1, <2>3
  <2>5. l.child[p] = t[1] /\ t # <<>>
    <3>1. 1 \in 1..n
      BY <1>1, <2>1
    <3> QED BY <1>2, <1>3, <1>7, <2>3, <3>1
  <2>6. ASSUME NEW i \in 1..Len(t)
        PROVE  /\ l.next[t[i]] = IF i = Len(t) THEN Null ELSE t[i + 1]
               /\ l.prev[t[i]] = IF i # 1 THEN t[i - 1] ELSE Null
    <3>1. CASE i = n + 1
      <4>1. t[i] = x /\ i # 1 /\ i - 1 = n /\ i = Len(t)
        BY <1>1, <1>2, <2>1, <3>1
      <4>2. t[i - 1] = last
        BY <1>2, <2>1, <4>1
      <4> QED BY <1>3, <2>1, <2>4, <4>1, <4>2
    <3>2. CASE i # n + 1
      <4>1. i \in 1..n /\ t[i] = s[i] /\ s[i] \in Items /\ s[i] # x /\ i # Len(t)
        BY <1>1, <1>2, <3>2
      <4>2. l.next[s[i]] = t[i + 1]
        <5>1. CASE i = n
          BY <1>2, <2>1, <2>4, <5>1
        <5>2. CASE i # n
          <6>1. s[i] # last
            BY <2>1, <4>1, <5>2
          <6>2. i + 1 \in 1..n /\ t[i + 1] = s[i + 1]
            BY <1>1, <1>2, <4>1, <5>2
          <6> QED BY <1>3, <2>4, <4>1, <5>2, <6>1, <6>2
        <5> QED BY <5>1, <5>2
      <4>3. l.prev[s[i]] = IF i # 1 THEN t[i - 1] ELSE Null
        <5>1. l.prev[s[i]] = g.prev[s[i]]
          BY <2>4, <4>1
        <5>2. i # 1 => i - 1 \in 1..n /\ t[i - 1] = s[i - 1]
          BY <1>1, <1>2, <4>1
        <5> QED BY <1>3, <4>1, <5>1, <5>2
      <4> QED BY <4>1, <4>2, <4>3
    <3> QED BY <3>1, <3>2
  <2>7. Lists(l, p, t, TRUE)
    BY <2>5, <2>6 DEF Lists
  <2>8. \A i \in Items : i # x /\ ~Among(i, s) => l.next[i] = g.next[i] /\ l.prev[i] = g.prev[i]
    BY <2>1, <2>4 DEF Among
  <2> QED BY <1>5, <2>3, <2>7, <2>8 DEF l, t, Linked
<1> QED BY <1>6, <1>7

\* The next child goes into the list of P, which is open.
LEMMA GrownLinked ==
  ASSUME NEW b, NEW kb, NEW h, NEW k, NEW P, NEW O, P \in O, Grown(b, kb, h, k, P, O),
         NEW g, NEW k2, NEW x, Grown(h, k, g, k2, x, O)
  PROVE  LET k3 == [k2 EXCEPT ![P] = Appended(k2[P], x)]
         IN Grown(b, kb, Link(g, P, LastOf(k, P), x), k3, P, O) /\ LastOf(k3, P) = x
<1> DEFINE s == k2[P]
           t == Appended(s, x)
           k3 == [k2 EXCEPT ![P] = t]
           last == LastOf(k, P)
           l == Link(g, P, last, x)
           F == Children(k2, P) \cup {x}
           OP == Owned(k, P)
           OX == Owned(k2, x)
           S == OP \cup OX
<1>1. /\ Good(h, k, O) /\ h \in HeapType /\ P \in Items /\ P \in h.live /\ P \notin h.ref /\ P \notin b.live
      /\ IsRoot(k, P) /\ IsForest(k) /\ k \in Sequences /\ Kept(h, k) /\ h.live \in SUBSET Items
      /\ OP \subseteq h.live /\ OP \in SUBSET Items /\ P \in OP /\ b.live = h.live \ OP
  BY GrownFacts
<1>2. /\ Good(g, k2, O) /\ g \in HeapType /\ x \in Items /\ x \in g.live /\ x \notin g.ref /\ x \notin h.live
      /\ IsRoot(k2, x) /\ IsForest(k2) /\ k2 \in Sequences /\ Kept(g, k2) /\ g.live \in SUBSET Items
      /\ OX \subseteq g.live /\ OX \in SUBSET Items /\ x \in OX /\ h.live = g.live \ OX
  BY GrownFacts
<1>3. /\ \A y \in b.live : k[y] = kb[y]
      /\ \A y \in h.live : k2[y] = k[y]
      /\ Same(Freed(h, OP), b) /\ Same(Freed(g, OX), h)
  BY DEF Grown
<1>4. P \in g.live /\ P \notin OX /\ P # x
  BY <1>1, <1>2
<1> HIDE DEF OP, OX
<1>5. P \notin g.ref /\ IsRoot(k2, P)
  <2>1. h.ref = g.ref \ OX
    BY <1>2, <1>3, FreedFacts DEF Same
  <2>2. IsRoot(k2, P)
    BY <1>1, GrownRoots
  <2> QED BY <1>1, <1>4, <2>1, <2>2
<1>6. /\ s = k[P] /\ s \in Seq(Items) /\ last = (IF s = <<>> THEN Null ELSE s[Len(s)])
      /\ \A i, j \in 1..Len(s) : s[i] = s[j] => i = j
      /\ \A i \in 1..Len(s) : s[i] \in Children(k2, P)
      /\ ~Among(x, s)
  <2>1. s = k[P]
    BY <1>1, <1>3
  <2>2. s \in Seq(Items) /\ \A i, j \in 1..Len(s) : s[i] = s[j] => i = j
    BY <1>1, <1>2 DEF Sequences, IsForest, OneParent
  <2>3. last = IF s = <<>> THEN Null ELSE s[Len(s)]
    BY <2>1 DEF LastOf
  <2>4. \A i \in 1..Len(s) : s[i] \in Children(k2, P)
    BY DEF Children
  <2>5. ~Among(x, s)
    BY <1>1, <1>2, <2>4 DEF Among, IsRoot
  <2> QED BY <2>1, <2>2, <2>3, <2>4, <2>5
<1>7. Lists(g, P, s, TRUE) /\ Loose(g, x)
  <2>1. Whole(g, k2, O) /\ RootsLoose(g, k2)
    BY <1>2 DEF Good
  <2>2. Lists(g, P, s, P \in O)
    BY <1>4, <1>5, <2>1 DEF Whole
  <2>3. (P \in O) = TRUE
    OBVIOUS
  <2> QED BY <1>2, <2>1, <2>2, <2>3 DEF RootsLoose
<1>8. /\ t \in Seq(Items) /\ Len(t) = Len(s) + 1 /\ t[Len(s) + 1] = x
      /\ \A i \in 1..Len(s) : t[i] = s[i]
      /\ \A i, j \in 1..Len(t) : t[i] = t[j] => i = j
  <2> HIDE DEF s
  <2> QED BY <1>2, <1>6, AppendedFacts
<1>9. /\ Lists(l, P, t, TRUE)
      /\ l \in HeapType
      /\ l.room = g.room /\ l.live = g.live /\ l.ref = g.ref /\ l.const = g.const /\ l.texts = g.texts
      /\ l.undefined = g.undefined /\ l.kind = g.kind /\ l.key = g.key
      /\ \A i \in Items : i # x /\ ~Among(i, s) => l.next[i] = g.next[i] /\ l.prev[i] = g.prev[i]
      /\ \A q \in Items \ {P} : l.child[q] = g.child[q]
  <2> HIDE DEF s, last
  <2>1. Linkable(g, P, s, x, last)
    BY <1>1, <1>2, <1>6, <1>7 DEF Linkable
  <2>2. Linked(g, P, s, x, l)
    BY <2>1, LinkLists
  <2> HIDE DEF l
  <2> QED BY <2>2 DEF Linked
<1> HIDE DEF t, l, last
<1>10. /\ k3[P] = t /\ \A q \in Items : q # P => k3[q] = k2[q]
       /\ k3 \in Sequences
  BY <1>1, <1>2, <1>8 DEF Sequences
<1>11. \A i \in 1..Len(t) : t[i] \in Children(k2, P) \cup {x}
  <2> TAKE i \in 1..Len(t)
  <2>1. Len(s) \in Nat
    BY <1>6
  <2>2. i \in 1..Len(s) \/ i = Len(s) + 1
    BY <1>8, <2>1
  <2> QED BY <1>6, <1>8, <2>2
<1>12. IsForest(k3)
  BY <1>1, <1>2, <1>4, <1>8, <1>11, ForestMore DEF OX
<1> HIDE DEF s
<1>13. Children(k3, P) = F
  <2>1. Children(k3, P) = {t[i] : i \in 1..Len(t)}
    BY <1>10 DEF Children
  <2>2. Children(k2, P) = {s[i] : i \in 1..Len(s)}
    BY DEF Children, s
  <2>3. Len(s) \in Nat
    BY <1>6
  <2>4. \A i \in 1..Len(s) : i \in 1..Len(t) /\ t[i] = s[i]
    BY <1>8, <2>3
  <2>5. Len(s) + 1 \in 1..Len(t)
    BY <1>8, <2>3
  <2>6. \A y \in Children(k2, P) : \E i \in 1..Len(t) : y = t[i]
    BY <2>2, <2>4
  <2>7. x = t[Len(s) + 1]
    BY <1>8
  <2> QED BY <1>11, <2>1, <2>5, <2>6, <2>7
<1>14. Children(k2, P) \subseteq g.live /\ F \in SUBSET g.live
  BY <1>1, <1>2 DEF Kept
<1>15. \A i \in Items \ F : l.next[i] = g.next[i] /\ l.prev[i] = g.prev[i]
  BY <1>6, <1>9 DEF Among
<1>16. Relinks(g, k2, O, l, P, F, k3, O)
  <2>1. Lists(l, P, k3[P], P \in O)
    <3>1. (P \in O) = TRUE
      OBVIOUS
    <3> QED BY <1>9, <1>10, <3>1
  <2>2. \A y \in F : y \in Children(k2, P) \/ IsRoot(k2, y)
    BY <1>2
  <2>3. Children(k2, P) \subseteq F
    OBVIOUS
  <2> HIDE DEF F, k3
  <2> QED BY <1>4, <1>5, <1>9, <1>10, <1>12, <1>13, <1>14, <1>15, <2>1, <2>2, <2>3 DEF Relinks
<1> HIDE DEF k3
<1>17. /\ Good(l, k3, O)
       /\ \A y \in g.live : IsRoot(k3, y) <=> IF y \in F THEN y \notin Children(k3, P) ELSE IsRoot(k2, y)
  <2> HIDE DEF F
  <2> QED BY <1>2, <1>16, Relinked
<1>18. P \notin F /\ IsRoot(k3, P)
  <2>1. P \notin F
    BY <1>1, <1>4, <1>5 DEF IsRoot
  <2> HIDE DEF F
  <2> QED BY <1>4, <1>5, <1>17, <2>1
<1>19. Owned(k3, P) = S
  <2>1. Owned(k2, P) = OP
    <3>1. \A y \in Owned(k, P) : k2[y] = k[y]
      BY <1>1, <1>3 DEF OP
    <3> QED BY <1>1, <1>2, <3>1, OwnedSame DEF OP
  <2>2. Owned(k3, P) = Owned(k2, P) \cup Owned(k2, x)
    <3>1. Children(k3, P) = Children(k2, P) \cup {x}
      BY <1>13
    <3> HIDE DEF F
    <3>2. P \notin Owned(k2, x)
      BY <1>4 DEF OX
    <3> QED BY <1>1, <1>2, <1>10, <3>1, <3>2, OwnedMore
  <2> QED BY <2>1, <2>2 DEF OX
<1>20. F \subseteq S
  <2>1. Children(k2, P) = Children(k, P)
    BY <1>1, <1>3 DEF Children
  <2>2. Children(k, P) \subseteq OP
    BY <1>1, OwnedFacts DEF OP
  <2> QED BY <1>2, <2>1, <2>2
<1>21. S \in SUBSET Items /\ OX \cap OP = {} /\ OX \cup OP = S
  BY <1>1, <1>2
<1>22. Same(Freed(l, S), Freed(g, S))
  <2>1. OwnAlike(l, g, S)
    BY <1>9 DEF OwnAlike, OwnsKey, OwnsValue
  <2>2. Texts(l, S) = Texts(g, S)
    BY <2>1, TextsAlike
  <2>3. \A i \in Items \ S : l.next[i] = g.next[i] /\ l.prev[i] = g.prev[i] /\ l.child[i] = g.child[i]
    BY <1>1, <1>9, <1>15, <1>20
  <2> HIDE DEF S
  <2> QED BY <1>2, <1>9, <1>21, <2>2, <2>3, FreedSame
<1>23. Same(Freed(g, S), b)
  <2>1. Same(Freed(Freed(g, OX), OP), Freed(g, OX \cup OP))
    BY <1>1, <1>2, <1>21, FreedTwice
  <2>2. Freed(g, OX) \in HeapType
    BY <1>2, FreedFacts
  <2>3. Same(Freed(Freed(g, OX), OP), Freed(h, OP))
    BY <1>1, <1>3, <2>2, SameFreed
  <2>4. Same(Freed(g, S), Freed(Freed(g, OX), OP))
    BY <1>21, <2>1, SameTrans
  <2> HIDE DEF S
  <2>5. Same(Freed(g, S), Freed(h, OP))
    BY <2>3, <2>4, SameTrans
  <2> QED BY <1>3, <2>5, SameTrans
<1>24. Same(Freed(l, Owned(k3, P)), b)
  <2> HIDE DEF S
  <2> QED BY <1>19, <1>22, <1>23, SameTrans
<1>25. \A y \in b.live : k3[y] = kb[y]
  BY <1>1, <1>3, <1>10
<1>26. Grown(b, kb, l, k3, P, O)
  BY <1>1, <1>4, <1>5, <1>9, <1>17, <1>18, <1>24, <1>25 DEF Grown
<1>27. LastOf(k3, P) = x
  <2>1. Len(s) \in Nat
    BY <1>6
  <2>2. Len(<<>>) = 0
    OBVIOUS
  <2>3. t # <<>> /\ t[Len(t)] = x
    BY <1>8, <2>1, <2>2
  <2> QED BY <1>10, <2>3 DEF LastOf
<1> QED BY <1>26, <1>27 DEF l, last, k3, t, s

\* The list of P is closed.
LEMMA GrownClosed ==
  ASSUME NEW b, NEW kb, NEW h, NEW k, NEW P, NEW O, P \in O, Grown(b, kb, h, k, P, O),
         NEW open, P \notin open, \A q \in Items \ {P} : q \in open <=> q \in O
  PROVE  Grown(b, kb, Close(h, P, LastOf(k, P)), k, P, open)
<1> DEFINE s == k[P]
           last == LastOf(k, P)
           l == Close(h, P, last)
           F == Children(k, P)
           S == Owned(k, P)
<1>1. /\ Good(h, k, O) /\ h \in HeapType /\ P \in Items /\ P \in h.live /\ P \notin h.ref /\ P \notin b.live
      /\ IsRoot(k, P) /\ IsForest(k) /\ k \in Sequences /\ Kept(h, k) /\ h.live \in SUBSET Items
      /\ S \subseteq h.live /\ S \in SUBSET Items /\ P \in S /\ b.live = h.live \ S
  BY GrownFacts
<1>2. Same(Freed(h, S), b) /\ \A y \in b.live : k[y] = kb[y]
  BY DEF Grown
<1>3. /\ s \in Seq(Items) /\ (\A i, j \in 1..Len(s) : s[i] = s[j] => i = j) /\ Len(s) \in Nat
      /\ \A i \in 1..Len(s) : s[i] \in F
      /\ last = (IF s = <<>> THEN Null ELSE s[Len(s)])
  <2>1. s \in Seq(Items) /\ (\A i, j \in 1..Len(s) : s[i] = s[j] => i = j)
    BY <1>1 DEF Sequences, IsForest, OneParent
  <2>2. \A i \in 1..Len(s) : s[i] \in F
    BY DEF Children
  <2>3. last = IF s = <<>> THEN Null ELSE s[Len(s)]
    BY DEF LastOf
  <2> QED BY <2>1, <2>2, <2>3
<1>4. Lists(h, P, s, TRUE)
  <2>1. Whole(h, k, O)
    BY <1>1 DEF Good
  <2>2. Lists(h, P, s, P \in O)
    BY <1>1, <2>1 DEF Whole
  <2>3. (P \in O) = TRUE
    OBVIOUS
  <2> QED BY <2>2, <2>3
<1>5. h.next \in [Items -> Pointers] /\ h.prev \in [Items -> Pointers] /\ h.child \in [Items -> Pointers]
  BY <1>1, HeapFields
<1>6. F \subseteq S /\ F \in SUBSET h.live
  BY <1>1, OwnedFacts DEF Kept
<1> HIDE DEF F, S, last
<1>7. /\ l \in HeapType /\ Lists(l, P, s, FALSE)
      /\ l.room = h.room /\ l.live = h.live /\ l.ref = h.ref /\ l.const = h.const /\ l.texts = h.texts
      /\ l.undefined = h.undefined /\ l.kind = h.kind /\ l.key = h.key /\ l.next = h.next /\ l.child = h.child
      /\ \A i \in Items \ F : l.prev[i] = h.prev[i]
  <2>1. CASE s = <<>>
    <3>1. h.child[P] = Null
      BY <1>4, <2>1 DEF Lists
    <3>2. l = h
      BY <3>1 DEF Close
    <3> HIDE DEF l
    <3>3. Lists(h, P, s, FALSE)
      BY <1>4, <2>1 DEF Lists
    <3> QED BY <1>1, <3>2, <3>3
  <2>2. CASE s # <<>>
    <3>1. Len(s) # 0 /\ 1 \in 1..Len(s) /\ Len(s) \in 1..Len(s)
      BY <1>3, <2>2
    <3>2. /\ h.child[P] = s[1] /\ s[1] \in Items /\ s[1] # Null /\ s[1] \in F /\ last = s[Len(s)]
          /\ last \in Pointers
      BY <1>3, <1>4, <2>2, <3>1, NullAssumption DEF Lists, Pointers
    <3>3. l = [h EXCEPT !.prev[s[1]] = last]
      BY <3>2 DEF Close
    <3> HIDE DEF l
    <3>4. /\ l.room = h.room /\ l.live = h.live /\ l.ref = h.ref /\ l.const = h.const /\ l.texts = h.texts
          /\ l.undefined = h.undefined /\ l.kind = h.kind /\ l.key = h.key /\ l.next = h.next
          /\ l.child = h.child
          /\ l.prev = [h.prev EXCEPT ![s[1]] = last]
      BY <1>1, <3>3 DEF HeapType
    <3>5. l \in HeapType
      BY <1>1, <3>2, LinkType DEF l
    <3>6. l.prev[s[1]] = last /\ \A i \in Items \ {s[1]} : l.prev[i] = h.prev[i]
      BY <1>5, <3>2, <3>4
    <3>7. ASSUME NEW i \in 1..Len(s)
          PROVE  l.prev[s[i]] = IF i # 1 THEN s[i - 1] ELSE s[Len(s)]
      <4>1. CASE i = 1
        BY <3>2, <3>6, <4>1
      <4>2. CASE i # 1
        <5>1. s[i] # s[1] /\ s[i] \in Items
          BY <1>3, <3>1, <4>2
        <5>2. h.prev[s[i]] = s[i - 1]
          BY <1>4, <4>2 DEF Lists
        <5> QED BY <3>6, <4>2, <5>1, <5>2
      <4> QED BY <4>1, <4>2
    <3>8. Lists(l, P, s, FALSE)
      <4> HIDE DEF s
      <4> QED BY <1>4, <3>4, <3>7 DEF Lists
    <3>9. \A i \in Items \ F : l.prev[i] = h.prev[i]
      BY <3>2, <3>6
    <3> QED BY <3>4, <3>5, <3>8, <3>9
  <2> QED BY <2>1, <2>2
<1> HIDE DEF l
<1>8. Relinks(h, k, O, l, P, F, k, open)
  <2>1. Lists(l, P, k[P], P \in open)
    <3>1. (P \in open) = FALSE
      OBVIOUS
    <3> QED BY <1>7, <3>1
  <2>2. \A y \in F : y \in Children(k, P) \/ IsRoot(k, y)
    BY DEF F
  <2>3. Children(k, P) \subseteq F /\ F \ Children(k, P) = {}
    BY DEF F
  <2> QED BY <1>1, <1>6, <1>7, <2>1, <2>2, <2>3 DEF Relinks
<1>9. Good(l, k, open)
  BY <1>1, <1>8, Relinked
<1>10. Same(Freed(l, S), Freed(h, S))
  <2>1. OwnAlike(l, h, S)
    BY <1>7 DEF OwnAlike, OwnsKey, OwnsValue
  <2>2. Texts(l, S) = Texts(h, S)
    BY <2>1, TextsAlike
  <2>3. \A i \in Items \ S : l.prev[i] = h.prev[i]
    BY <1>6, <1>7
  <2>4. S \in SUBSET Items
    BY <1>1
  <2> QED BY <1>1, <1>7, <2>2, <2>3, <2>4, FreedSame
<1>11. Same(Freed(l, Owned(k, P)), b)
  BY <1>2, <1>10, SameTrans DEF S
<1> QED BY <1>1, <1>2, <1>7, <1>9, <1>11 DEF Grown, l, last
-----------------------------------------------------------------------------
(* The loop of cJSON_Duplicate.                                             *)

\* The call is over: it has made P, or nothing.
Made(b, kb, r, P, open) ==
  IF r.item = Null THEN r.heap \in HeapType /\ Same(r.heap, b)
  ELSE r.item = P /\ \E k2 : Grown(b, kb, r.heap, k2, P, open)

\* The call makes a tree below c.parent.
Building(b, kb, c, open) ==
  /\ open \subseteq b.live
  /\ \E k : Grown(b, kb, c.heap, k, c.parent, open \cup {c.parent}) /\ c.last = LastOf(k, c.parent)

CopiesRight(copy) ==
  \A c \in Copying : \A b, kb, open : Building(b, kb, c, open) => Made(b, kb, copy[c], c.parent, open)

\* The loop ends with the tree made.
LEMMA FinishMade ==
  ASSUME NEW c \in Copying, NEW b, NEW kb, NEW open, Building(b, kb, c, open)
  PROVE  Made(b, kb, Finish(c), c.parent, open)
<1> DEFINE P == c.parent
           O == open \cup {P}
           r == Finish(c)
<1>1. PICK k : Grown(b, kb, c.heap, k, P, O) /\ c.last = LastOf(k, P)
  BY DEF Building
<1>2. P \in Items /\ P # Null
  BY CopyingFacts, NullAssumption
<1>3. P \in O /\ P \notin open /\ \A q \in Items \ {P} : q \in open <=> q \in O
  <2>1. P \notin b.live
    BY <1>1 DEF Grown
  <2> QED BY <2>1 DEF Building
<1> HIDE DEF O, P
<1>4. Grown(b, kb, Close(c.heap, P, LastOf(k, P)), k, P, open)
  BY <1>1, <1>3, GrownClosed
<1>5. r.heap = Close(c.heap, P, LastOf(k, P)) /\ r.item = P
  BY <1>1 DEF Finish, Result, P
<1> HIDE DEF r
<1> QED BY <1>2, <1>4, <1>5 DEF Made, r, P

\* The loop gives up with nothing made.
LEMMA GiveUpMade ==
  ASSUME NEW b, NEW kb, NEW h, NEW k, NEW P, NEW O, Grown(b, kb, h, k, P, O), NEW open
  PROVE  Made(b, kb, GiveUp(h, P), P, open)
<1>1. Delete(h, P) \in HeapType /\ Same(Delete(h, P), b)
  BY GrownDeleted
<1> DEFINE r == GiveUp(h, P)
<1>2. r.heap = Delete(h, P) /\ r.item = Null
  BY DEF GiveUp, Result
<1> HIDE DEF r
<1>3. Made(b, kb, r, P, open)
  BY <1>1, <1>2 DEF Made
<1> QED BY <1>3 DEF r

\* A turn that is right for the trees below makes the right tree.
LEMMA TurnMade ==
  ASSUME NEW copy \in [Copying -> Results], CopiesRight(copy),
         NEW c \in Copying, NEW b, NEW kb, NEW open, Building(b, kb, c, open)
  PROVE  Made(b, kb, CopyChildren(copy, c), c.parent, open)
<1> DEFINE P == c.parent
           O == open \cup {P}
           new == CopyItem(c.heap, c.child)
           inner == [heap |-> new.heap, parent |-> new.item, last |-> Null,
                     child |-> c.heap.child[c.child], depth |-> c.depth + 1]
           copied == copy[inner]
           outer == [heap |-> Link(copied.heap, c.parent, c.last, copied.item), parent |-> c.parent,
                     last |-> copied.item, child |-> c.heap.next[c.child], depth |-> c.depth]
           r == CopyChildren(copy, c)
<1>1. r = IF c.child = Null THEN Finish(c)
          ELSE IF c.depth >= CircularLimit THEN GiveUp(c.heap, c.parent)
          ELSE IF new.item = Null THEN GiveUp(new.heap, c.parent)
          ELSE IF copied.item = Null THEN GiveUp(copied.heap, c.parent)
          ELSE copy[outer]
  BY DEF CopyChildren, CopyChild
<1> HIDE DEF r
<1>2. PICK k : Grown(b, kb, c.heap, k, P, O) /\ c.last = LastOf(k, P)
  BY DEF Building
<1>3. /\ c.heap \in HeapType /\ c.parent \in Items /\ c.last \in Pointers /\ c.child \in Pointers
      /\ c.depth \in Nat /\ Null \in Pointers /\ P \in Items
  BY CopyingFacts DEF Pointers
<1>4. Good(c.heap, k, O) /\ O \subseteq c.heap.live /\ P \in O
  <2>1. P \in c.heap.live
    BY <1>2, GrownFacts
  <2>2. b.live \subseteq c.heap.live
    BY <1>2, GrownFacts
  <2>3. Good(c.heap, k, O)
    BY <1>2 DEF Grown
  <2> QED BY <2>1, <2>2, <2>3 DEF Building
<1> HIDE DEF O
<1>5. CASE c.child = Null
  <2>1. r = Finish(c)
    BY <1>1, <1>5
  <2> QED BY <2>1, FinishMade DEF r
<1>6. CASE c.child # Null /\ c.depth >= CircularLimit
  <2>1. r = GiveUp(c.heap, P)
    BY <1>1, <1>6
  <2>2. Made(b, kb, GiveUp(c.heap, P), P, open)
    BY <1>2, GiveUpMade
  <2> QED BY <2>1, <2>2 DEF r
<1>7. CASE c.child # Null /\ ~(c.depth >= CircularLimit)
  <2>1. c.child \in Items
    BY <1>3, <1>7 DEF Pointers
  <2>2. new.heap \in HeapType /\ new.item \in Pointers
    BY <1>3, <2>1, CopyItemType DEF Typed
  <2>3. Makes(c.heap, new) /\ (new.item # Null => new.item \notin new.heap.ref)
    BY <1>4, <2>1, CopyItemMakes
  <2> HIDE DEF new
  <2>4. CASE new.item = Null
    <3>1. r = GiveUp(new.heap, P)
      BY <1>1, <1>7, <2>4
    <3>2. Same(new.heap, c.heap)
      BY <2>3, <2>4 DEF Makes
    <3>3. Grown(b, kb, new.heap, k, P, O)
      BY <1>2, <2>2, <3>2, GrownSame
    <3>4. Made(b, kb, GiveUp(new.heap, P), P, open)
      BY <3>3, GiveUpMade
    <3> QED BY <3>1, <3>4 DEF r
  <2>5. CASE new.item # Null
    <3> DEFINE x == new.item
               OX == O \cup {x}
    <3>1. x \in Items
      BY <2>2, <2>5 DEF Pointers
    <3>2. c.heap.child[c.child] \in Pointers /\ c.heap.next[c.child] \in Pointers /\ c.depth + 1 \in Nat
      BY <1>3, <2>1, HeapFields
    <3>3. inner \in Copying
      BY <1>3, <2>2, <3>1, <3>2 DEF Copying
    <3>4. Leaf(c.heap, new.heap, x) /\ x \notin new.heap.ref
      BY <2>3, <2>5 DEF Makes
    <3>5. Grown(c.heap, k, new.heap, k, x, OX) /\ k[x] = <<>>
      <4> HIDE DEF x
      <4>1. Grown(c.heap, k, new.heap, k, x, O \cup {x})
        BY <1>4, <3>4, LeafGrown
      <4>2. k[x] = <<>>
        BY <1>4, <3>4, LeafGood
      <4> QED BY <4>1, <4>2
    <3>6. LastOf(k, x) = Null
      BY <3>5 DEF LastOf
    <3>7. inner.heap = new.heap /\ inner.parent = x /\ inner.last = Null
      OBVIOUS
    <3> HIDE DEF inner, x
    <3>8. Building(c.heap, k, inner, O)
      BY <1>4, <3>5, <3>6, <3>7 DEF Building
    <3>9. Made(c.heap, k, copied, x, O)
      BY <3>3, <3>7, <3>8 DEF CopiesRight
    <3>10. copied.heap \in HeapType /\ copied.item \in Pointers
      BY <3>3 DEF Results
    <3> HIDE DEF copied
    <3>11. CASE copied.item = Null
      <4>1. r = GiveUp(copied.heap, P)
        BY <1>1, <1>7, <2>5, <3>11
      <4>2. Same(copied.heap, c.heap)
        BY <3>9, <3>11 DEF Made
      <4>3. Grown(b, kb, copied.heap, k, P, O)
        BY <1>2, <3>10, <4>2, GrownSame
      <4>4. Made(b, kb, GiveUp(copied.heap, P), P, open)
        BY <4>3, GiveUpMade
      <4> QED BY <4>1, <4>4 DEF r
    <3>12. CASE copied.item # Null
      <4>1. PICK k2 : Grown(c.heap, k, copied.heap, k2, x, O)
        BY <3>9, <3>12 DEF Made
      <4>2. copied.item = x
        BY <3>9, <3>12 DEF Made
      <4> DEFINE k3 == [k2 EXCEPT ![P] = Appended(k2[P], x)]
      <4>3. Grown(b, kb, Link(copied.heap, P, LastOf(k, P), x), k3, P, O) /\ LastOf(k3, P) = x
        BY <1>2, <1>4, <4>1, GrownLinked
      <4>4. Link(copied.heap, c.parent, c.last, copied.item) \in HeapType
        BY <1>3, <3>1, <3>10, <4>2, LinkType
      <4>5. outer \in Copying
        BY <1>3, <3>2, <3>10, <4>4 DEF Copying
      <4>6. outer.heap = Link(copied.heap, P, LastOf(k, P), x) /\ outer.parent = P /\ outer.last = x
        BY <1>2, <4>2
      <4> HIDE DEF outer, k3
      <4>7. Building(b, kb, outer, open)
        <5>1. open \subseteq b.live
          BY DEF Building
        <5>2. Grown(b, kb, outer.heap, k3, outer.parent, open \cup {outer.parent}) /\ outer.last = LastOf(k3, outer.parent)
          BY <4>3, <4>6 DEF O
        <5> QED BY <5>1, <5>2 DEF Building
      <4>8. Made(b, kb, copy[outer], P, open)
        BY <4>5, <4>6, <4>7 DEF CopiesRight
      <4>9. r = copy[outer]
        BY <1>1, <1>7, <2>5, <3>12
      <4> QED BY <4>8, <4>9 DEF r
    <3> QED BY <3>11, <3>12
  <2> QED BY <2>4, <2>5
<1> QED BY <1>5, <1>6, <1>7, BoundsAssumption

\* The loop of cJSON_Duplicate makes a tree or nothing, whatever its fuel.
LEMMA CopiesMade ==
  \A n \in Nat : Copies[n] \in [Copying -> Results] /\ CopiesRight(Copies[n])
<1> DEFINE G == {n \in Nat : CopiesRight(Copies[n])}
<1>1. 0 \in G
  <2>1. Copies[0] = FirstCopies
    BY CopiesLoop
  <2>2. ASSUME NEW c \in Copying, NEW b, NEW kb, NEW open, Building(b, kb, c, open)
        PROVE  Made(b, kb, FirstCopies[c], c.parent, open)
    <3>1. FirstCopies[c] = IF c.child = Null THEN Finish(c) ELSE GiveUp(c.heap, c.parent)
      BY DEF FirstCopies
    <3>2. Made(b, kb, Finish(c), c.parent, open)
      BY <2>2, FinishMade
    <3>3. Made(b, kb, GiveUp(c.heap, c.parent), c.parent, open)
      <4> DEFINE O == open \cup {c.parent}
      <4>1. PICK k : Grown(b, kb, c.heap, k, c.parent, O)
        BY <2>2 DEF Building
      <4> HIDE DEF O
      <4> QED BY <4>1, GiveUpMade
    <3> QED BY <3>1, <3>2, <3>3
  <2> QED BY <2>1, <2>2 DEF CopiesRight
<1>2. ASSUME NEW n \in G PROVE n + 1 \in G
  <2>1. n \in Nat /\ CopiesRight(Copies[n]) /\ n + 1 \in Nat /\ n + 1 # 0 /\ (n + 1) - 1 = n
    OBVIOUS
  <2>2. /\ Copies[n] \in [Copying -> Results]
        /\ Copies[n + 1] = [c \in Copying |-> CopyChildren(Copies[n], c)]
    BY <2>1, CopiesLoop
  <2> DEFINE F == Copies[n]
  <2>3. F \in [Copying -> Results] /\ CopiesRight(F)
    BY <2>1, <2>2
  <2>4. Copies[n + 1] = [c \in Copying |-> CopyChildren(F, c)]
    BY <2>2
  <2> HIDE DEF F
  <2>5. ASSUME NEW c \in Copying, NEW b, NEW kb, NEW open, Building(b, kb, c, open)
        PROVE  Made(b, kb, Copies[n + 1][c], c.parent, open)
    <3>1. Copies[n + 1][c] = CopyChildren(F, c)
      BY <2>4
    <3>2. Made(b, kb, CopyChildren(F, c), c.parent, open)
      BY <2>3, <2>5, TurnMade
    <3> QED BY <3>1, <3>2
  <2>6. CopiesRight(Copies[n + 1])
    BY <2>5 DEF CopiesRight
  <2> QED BY <2>1, <2>6
<1>3. G = Nat
  <2>1. G \in SUBSET Nat
    OBVIOUS
  <2> HIDE DEF G
  <2> QED BY <1>1, <1>2, <2>1, EveryTurn
<1>4. ASSUME NEW n \in Nat PROVE Copies[n] \in [Copying -> Results]
  <2>1. n + 1 \in Nat /\ n + 1 # 0 /\ (n + 1) - 1 = n
    OBVIOUS
  <2> QED BY <2>1, CopiesLoop
<1> QED BY <1>3, <1>4

\* A tree made is given to the caller, and a call that made none changed nothing.
LEMMA MadeSteady ==
  ASSUME NEW b, NEW kb, NEW m, Sound(b, kb, m), NEW r, NEW P \in Items, Made(b, kb, r, P, {})
  PROVE  /\ r.item = Null => r.heap \in HeapType /\ Same(r.heap, b)
         /\ Steady(b.live, kb, r.heap, m \cup ({r.item} \ {Null}))
<1>1. CASE r.item = Null
  <2>1. r.heap \in HeapType /\ Same(r.heap, b)
    BY <1>1 DEF Made
  <2>2. Steady(b.live, kb, r.heap, m)
    BY <2>1, StaysSame
  <2>3. m \cup ({r.item} \ {Null}) = m
    BY <1>1
  <2> QED BY <2>1, <2>2, <2>3
<1>2. CASE r.item # Null
  <2>1. r.item = P
    BY <1>2 DEF Made
  <2>2. PICK k2 : Grown(b, kb, r.heap, k2, P, {})
    BY <1>2 DEF Made
  <2>3. Sound(r.heap, k2, m \cup {P})
    BY <2>2, GrownSound
  <2> DEFINE none == {}
             g == r.heap
  <2>5. Grown(b, kb, g, k2, P, none)
    BY <2>2
  <2> HIDE DEF none, g
  <2>6. /\ P \in g.live /\ P \notin b.live /\ g.live \in SUBSET Items
        /\ P \in Owned(k2, P) /\ Owned(k2, P) \subseteq g.live
        /\ b.live = g.live \ Owned(k2, P)
    BY <2>5, GrownFacts
  <2>7. \A y \in b.live : k2[y] = kb[y]
    BY <2>5 DEF Grown
  <2>8. P \in g.live \ b.live /\ b.live \subseteq g.live /\ Owned(k2, P) = g.live \ b.live
    BY <2>6
  <2>9. Sprouted(b.live, kb, g.live, k2)
    BY <2>7, <2>8 DEF Sprouted
  <2>4. m \cup ({r.item} \ {Null}) = m \cup {P}
    BY <1>2, <2>1
  <2>10. Steady(b.live, kb, r.heap, m \cup {P})
    BY <2>3, <2>9 DEF Steady, Turned, g
  <2> QED BY <1>2, <2>4, <2>10
<1> QED BY <1>1, <1>2

\* A copy is made and given to the caller, or nothing has changed.
LEMMA DuplicateSteady ==
  ASSUME NEW h, NEW k, NEW m, Sound(h, k, m), NEW item \in Items, NEW recurse \in BOOLEAN
  PROVE  LET r == Duplicate(h, item, recurse)
         IN /\ r.item = Null => r.heap \in HeapType /\ Same(r.heap, h)
            /\ Steady(h.live, k, r.heap, m \cup ({r.item} \ {Null}))
<1> DEFINE new == CopyItem(h, item)
           c == [heap |-> new.heap, parent |-> new.item, last |-> Null, child |-> h.child[item], depth |-> 0]
           r == Duplicate(h, item, recurse)
           none == {}
<1>1. Good(h, k, none) /\ h \in HeapType
  BY DEF Sound, Good
<1>2. r = IF new.item = Null \/ ~recurse THEN new ELSE Copies[new.heap.fuel][c]
  BY DEF Duplicate
<1>3. Makes(h, new) /\ (new.item # Null => new.item \notin new.heap.ref)
  <2> HIDE DEF none
  <2> QED BY <1>1, CopyItemMakes
<1>4. new.heap \in HeapType /\ new.item \in Pointers
  BY <1>1, CopyItemType DEF Typed
<1> HIDE DEF new, r
<1>5. CASE new.item = Null \/ ~recurse
  <2>1. r = new
    BY <1>2, <1>5
  <2>2. Steady(h.live, k, new.heap, m \cup ({new.item} \ {Null}))
    BY <1>3, MakesSteady
  <2>3. new.item = Null => Same(new.heap, h)
    BY <1>3 DEF Makes
  <2> QED BY <1>4, <2>1, <2>2, <2>3 DEF r
<1>6. CASE ~(new.item = Null \/ ~recurse)
  <2> DEFINE x == new.item
             F == Copies[new.heap.fuel]
             O == none \cup {x}
  <2>1. x \in Items /\ Leaf(h, new.heap, x) /\ x \notin new.heap.ref
    BY <1>3, <1>4, <1>6 DEF Pointers, Makes
  <2>2. F \in [Copying -> Results] /\ CopiesRight(F)
    BY <1>4, HeapFields, CopiesMade
  <2>3. c \in Copying
    BY <1>1, <1>4, <2>1, HeapFields DEF Copying, Pointers
  <2>4. r = F[c] /\ c.heap = new.heap /\ c.parent = x /\ c.last = Null
    BY <1>2, <1>6
  <2> HIDE DEF F, c, x, none
  <2>5. Grown(h, k, new.heap, k, x, O)
    BY <1>1, <2>1, LeafGrown
  <2>6. k[x] = <<>>
    BY <1>1, <2>1, LeafGood
  <2>7. LastOf(k, x) = Null
    BY <2>6 DEF LastOf
  <2>8. Building(h, k, c, none)
    <3>1. none \subseteq h.live
      BY DEF none
    <3> QED BY <2>4, <2>5, <2>7, <3>1 DEF Building
  <2>9. Made(h, k, r, x, none)
    BY <2>2, <2>3, <2>4, <2>8 DEF CopiesRight
  <2>10. Made(h, k, r, x, {})
    BY <2>9 DEF none
  <2> QED BY <2>1, <2>10, MadeSteady DEF r
<1> QED BY <1>5, <1>6
-----------------------------------------------------------------------------
(* The loop of cJSON_CreateStringArray and its like.                        *)

Filling(b, kb, so, P) ==
  IF so.item = Null THEN so.heap \in HeapType /\ Same(so.heap, b)
  ELSE so.item = P /\ \E k : Grown(b, kb, so.heap, k, P, {P}) /\ so.last = LastOf(k, P)

\* A turn adds an element, or gives the array up.
LEMMA ElementMade ==
  ASSUME NEW b, NEW kb, NEW so \in Progress, NEW P \in Items, Filling(b, kb, so, P), NEW kind \in Kinds
  PROVE  Filling(b, kb, AddElement(so, kind), P)
<1> DEFINE new == Create(so.heap, kind)
           r == AddElement(so, kind)
           O == {P}
<1>1. so.heap \in HeapType /\ so.item \in Pointers /\ so.last \in Pointers
  BY DEF Progress
<1>2. new.heap \in HeapType /\ new.item \in Pointers
  BY <1>1, CreateType DEF Typed
<1>3. r = IF so.item = Null THEN so
          ELSE IF new.item = Null THEN [heap |-> Delete(new.heap, so.item), item |-> Null, last |-> Null]
          ELSE [heap |-> Link(new.heap, so.item, so.last, new.item), item |-> so.item, last |-> new.item]
  BY DEF AddElement, Extended
<1> HIDE DEF r
<1>4. CASE so.item = Null
  <2>1. r = so
    BY <1>3, <1>4
  <2> QED BY <2>1 DEF r
<1>5. CASE so.item # Null
  <2>1. so.item = P /\ P # Null /\ P \in O
    BY <1>5 DEF Filling
  <2>2. PICK k : Grown(b, kb, so.heap, k, P, O) /\ so.last = LastOf(k, P)
    BY <1>5 DEF Filling
  <2> HIDE DEF O
  <2>3. Good(so.heap, k, O)
    BY <2>2 DEF Grown
  <2>4. Makes(so.heap, new) /\ (new.item # Null => new.item \notin new.heap.ref)
    BY <2>3, CreateMakes
  <2> HIDE DEF new
  <2>5. CASE new.item = Null
    <3>1. Same(new.heap, so.heap)
      BY <2>4, <2>5 DEF Makes
    <3>2. Grown(b, kb, new.heap, k, P, O)
      BY <1>2, <2>2, <3>1, GrownSame
    <3>3. Delete(new.heap, P) \in HeapType /\ Same(Delete(new.heap, P), b)
      BY <3>2, GrownDeleted
    <3>4. r.item = Null /\ r.heap = Delete(new.heap, P)
      BY <1>3, <2>1, <2>5
    <3> QED BY <3>3, <3>4 DEF Filling, r
  <2>6. CASE new.item # Null
    <3> DEFINE x == new.item
               k3 == [k EXCEPT ![P] = Appended(k[P], x)]
    <3>1. Leaf(so.heap, new.heap, x) /\ x \notin new.heap.ref
      BY <2>4, <2>6 DEF Makes
    <3> HIDE DEF x
    <3>2. Grown(so.heap, k, new.heap, k, x, O)
      BY <2>3, <3>1, LeafGrown
    <3>3. Grown(b, kb, Link(new.heap, P, LastOf(k, P), x), k3, P, O) /\ LastOf(k3, P) = x
      BY <2>1, <2>2, <3>2, GrownLinked
    <3>4. r.item = P /\ r.heap = Link(new.heap, P, LastOf(k, P), x) /\ r.last = x
      BY <1>3, <2>1, <2>2, <2>6 DEF x
    <3> HIDE DEF k3
    <3>5. Filling(b, kb, r, P)
      BY <2>1, <3>3, <3>4 DEF Filling, O
    <3> QED BY <3>5 DEF r
  <2> QED BY <2>5, <2>6
<1> QED BY <1>4, <1>5

\* An array is made and given to the caller, or nothing has changed.
LEMMA CreateArraySteady ==
  ASSUME NEW h, NEW k, NEW m, Sound(h, k, m), NEW kind \in Kinds, NEW count \in Nat
  PROVE  LET r == CreateArrayOf(h, kind, count)
         IN /\ r.item = Null => r.heap \in HeapType /\ Same(r.heap, h)
            /\ Steady(h.live, k, r.heap, m \cup ({r.item} \ {Null}))
<1> DEFINE array == Create(h, "array")
           P == array.item
           start == [heap |-> array.heap, item |-> P, last |-> Null]
           E == Elements(start, kind)
           made == E[count]
           r == CreateArrayOf(h, kind, count)
           none == {}
<1>1. Good(h, k, none) /\ h \in HeapType /\ "array" \in Kinds
  BY DEF Sound, Good, Kinds
<1>2. r = IF made.item = Null THEN Result(made.heap, Null)
          ELSE Result(Close(made.heap, made.item, made.last), made.item)
  BY DEF CreateArrayOf, Ended
<1> HIDE DEF r
<1>3. array.heap \in HeapType /\ P \in Pointers
  BY <1>1, CreateType DEF Typed
<1>4. Makes(h, array) /\ (P # Null => P \notin array.heap.ref)
  <2> HIDE DEF none
  <2> QED BY <1>1, CreateMakes
<1> HIDE DEF array
<1>5. start \in Progress
  BY <1>3 DEF Progress, Pointers
<1>6. start.item = P /\ start.heap = array.heap /\ start.last = Null
  OBVIOUS
<1> HIDE DEF start
<1>7. E[0] = start /\ \A n \in Nat : n # 0 => E[n] = AddElement(E[n - 1], kind)
  BY <1>5, ElementsLoop
<1> HIDE DEF E
<1>8. CASE P = Null
  <2> DEFINE G == {n \in Nat : E[n] = start}
  <2>1. 0 \in G
    BY <1>7
  <2>2. ASSUME NEW n \in G PROVE n + 1 \in G
    <3>1. n \in Nat /\ E[n] = start /\ n + 1 \in Nat /\ n + 1 # 0 /\ (n + 1) - 1 = n
      OBVIOUS
    <3>2. E[n + 1] = AddElement(start, kind)
      BY <1>7, <3>1
    <3>3. AddElement(start, kind) = start
      BY <1>6, <1>8 DEF AddElement, Extended
    <3> QED BY <3>1, <3>2, <3>3
  <2>3. G = Nat
    <3>1. G \in SUBSET Nat
      OBVIOUS
    <3> HIDE DEF G
    <3> QED BY <2>1, <2>2, <3>1, EveryTurn
  <2>4. made = start
    BY <2>3
  <2> HIDE DEF made
  <2>5. r.item = Null /\ r.heap = array.heap
    BY <1>2, <1>6, <1>8, <2>4 DEF Result
  <2>6. Same(array.heap, h)
    BY <1>4, <1>8 DEF Makes
  <2>7. Steady(h.live, k, array.heap, m)
    BY <1>3, <2>6, StaysSame
  <2>8. m \cup ({r.item} \ {Null}) = m
    BY <2>5
  <2> QED BY <1>3, <2>5, <2>6, <2>7, <2>8 DEF r
<1>9. CASE P # Null
  <2>1. P \in Items /\ Leaf(h, array.heap, P) /\ P \notin array.heap.ref
    BY <1>3, <1>4, <1>9 DEF Pointers, Makes
  <2> HIDE DEF P, none
  <2>2. Filling(h, k, start, P)
    <3> DEFINE O == none \cup {P}
    <3>1. Grown(h, k, array.heap, k, P, O)
      BY <1>1, <2>1, LeafGrown
    <3>2. k[P] = <<>>
      BY <1>1, <2>1, LeafGood
    <3>3. LastOf(k, P) = Null
      BY <3>2 DEF LastOf
    <3>4. O = {P}
      BY DEF none
    <3> QED BY <1>6, <1>9, <3>1, <3>3, <3>4 DEF Filling
  <2> DEFINE G == {n \in Nat : E[n] \in Progress /\ Filling(h, k, E[n], P)}
  <2>3. 0 \in G
    BY <1>5, <1>7, <2>2
  <2>4. ASSUME NEW n \in G PROVE n + 1 \in G
    <3> DEFINE so == E[n]
    <3>1. /\ n \in Nat /\ so \in Progress /\ Filling(h, k, so, P) /\ n + 1 \in Nat /\ n + 1 # 0
          /\ (n + 1) - 1 = n
      OBVIOUS
    <3>2. E[n + 1] = AddElement(so, kind)
      BY <1>7, <3>1
    <3> HIDE DEF so
    <3>3. AddElement(so, kind) \in Progress
      BY <3>1, AddElementType
    <3>4. Filling(h, k, AddElement(so, kind), P)
      BY <2>1, <3>1, ElementMade
    <3> QED BY <3>1, <3>2, <3>3, <3>4
  <2>5. G = Nat
    <3>1. G \in SUBSET Nat
      OBVIOUS
    <3> HIDE DEF G
    <3> QED BY <2>3, <2>4, <3>1, EveryTurn
  <2>6. Filling(h, k, made, P)
    BY <2>5
  <2> HIDE DEF made, G
  <2>7. Made(h, k, r, P, {})
    <3>1. CASE made.item = Null
      <4>1. r.item = Null /\ r.heap = made.heap
        BY <1>2, <3>1 DEF Result
      <4> QED BY <2>6, <3>1, <4>1 DEF Filling, Made
    <3>2. CASE made.item # Null
      <4> DEFINE O == {P}
      <4>1. made.item = P
        BY <2>6, <3>2 DEF Filling
      <4>2. PICK k2 : Grown(h, k, made.heap, k2, P, O) /\ made.last = LastOf(k2, P)
        BY <2>6, <3>2 DEF Filling
      <4>3. P \in O /\ P \notin none /\ \A q \in Items \ {P} : q \in none <=> q \in O
        BY DEF none
      <4> HIDE DEF O
      <4>4. Grown(h, k, Close(made.heap, P, LastOf(k2, P)), k2, P, none)
        BY <4>2, <4>3, GrownClosed
      <4>5. r.item = P /\ r.heap = Close(made.heap, P, LastOf(k2, P))
        BY <1>2, <3>2, <4>1, <4>2 DEF Result
      <4> QED BY <3>2, <4>1, <4>4, <4>5 DEF Made, none
    <3> QED BY <3>1, <3>2
  <2> QED BY <2>1, <2>7, MadeSteady DEF r
<1> QED BY <1>8, <1>9
-----------------------------------------------------------------------------
(* The invariant.                                                           *)

\* The heap holds the forest kids, of which the caller holds the roots mine.
IInv == Sound(heap, kids, mine) /\ heap.fuel = 0

\* The first heap is empty.
LEMMA Starts == Init => IInv
<1> SUFFICES ASSUME Init PROVE IInv
  OBVIOUS
<1>1. PICK room \in Rooms :
     heap = [room |-> room, live |-> {}, ref |-> {}, const |-> {}, texts |-> 0, fuel |-> 0, undefined |-> FALSE,
             next |-> [i \in Items |-> Null], prev |-> [i \in Items |-> Null],
             child |-> [i \in Items |-> Null], kind |-> [i \in Items |-> None],
             key |-> [i \in Items |-> None]]
  BY DEF Init
<1>2. kids = [i \in Items |-> <<>>] /\ mine = {}
  BY DEF Init
<1>3. room \in RoomType
  BY BoundsAssumption
<1>4. heap \in HeapType
  <2>1. /\ [i \in Items |-> Null] \in [Items -> Pointers]
        /\ [i \in Items |-> None] \in [Items -> Kinds \cup {None}]
        /\ [i \in Items |-> None] \in [Items -> Keys]
    BY DEF Pointers, Keys
  <2> QED BY <1>1, <1>3, <2>1 DEF HeapType
<1>5. /\ heap.live = {} /\ heap.ref = {} /\ heap.const = {} /\ heap.texts = 0 /\ heap.fuel = 0
      /\ ~heap.undefined
      /\ heap.next = [i \in Items |-> Null] /\ heap.prev = [i \in Items |-> Null]
      /\ heap.child = [i \in Items |-> Null] /\ heap.kind = [i \in Items |-> None]
      /\ heap.key = [i \in Items |-> None]
  BY <1>1
<1>6. \A p \in Items : kids[p] = <<>> /\ Children(kids, p) = {}
  BY <1>2 DEF Children
<1>7. IsForest(kids)
  <2>1. kids \in Sequences
    BY <1>2 DEF Sequences
  <2>2. OneParent(kids)
    BY <1>6 DEF OneParent
  <2> DEFINE level == [i \in Items |-> 0]
  <2>3. level \in [Items -> Nat] /\ Levelled(kids, level)
    BY <1>6 DEF Levelled
  <2> HIDE DEF level
  <2> QED BY <2>1, <2>2, <2>3 DEF IsForest
<1>8. Kept(heap, kids) /\ Whole(heap, kids, {}) /\ RootsLoose(heap, kids) /\ Blank(heap)
  BY <1>5, <1>6 DEF Kept, Whole, RootsLoose, Blank
<1>9. Counted(heap)
  <2>1. Texts(heap, {}) = 0
    <3>1. {i \in {} : OwnsKey(heap, i)} = {} /\ {i \in {} : OwnsValue(heap, i)} = {}
      OBVIOUS
    <3> QED BY <3>1, FS_EmptySet DEF Texts
  <2> QED BY <1>5, <2>1 DEF Counted
<1>10. Held(heap, kids, mine)
  BY <1>2, <1>5 DEF Held
<1> QED BY <1>4, <1>5, <1>7, <1>8, <1>9, <1>10 DEF IInv, Sound, Good

\* A step keeps the invariant and does to the forest what a call may do.
Continues == IInv' /\ Turned(heap.live, kids, heap'.live, kids')

\* A call that leaves the heap in order keeps the invariant.
LEMMA Becoming ==
  ASSUME NEW h, Becomes(h), Steady(heap.live, kids, h, mine')
  PROVE  Continues
<1>1. h.fuel = 0 /\ heap' = h /\ kids' = [p \in Items |-> ListOf(h, p)]
  BY DEF Becomes
<1> DEFINE m == mine'
           k == [p \in Items |-> ListOf(h, p)]
<1>2. Steady(heap.live, kids, h, m)
  OBVIOUS
<1> HIDE DEF m
<1>3. Sound(h, k, m) /\ Turned(heap.live, kids, h.live, k)
  BY <1>2, SteadyFacts
<1> QED BY <1>1, <1>3 DEF IInv, Continues, m

\* A call that gives and takes nothing.
LEMMA Returning ==
  ASSUME NEW h, Returns(h), Steady(heap.live, kids, h, mine)
  PROVE  Continues
BY Becoming DEF Returns

\* A call that gives an item to the caller.
LEMMA Giving ==
  ASSUME NEW r, Gives(r), Steady(heap.live, kids, r.heap, mine \cup ({r.item} \ {Null}))
  PROVE  Continues
BY Becoming DEF Gives

\* A call that takes an item from the caller.
LEMMA Taking ==
  ASSUME NEW r, Takes(r), Steady(heap.live, kids, r.heap, mine \ {r.item})
  PROVE  Continues
BY Becoming DEF Takes

\* What a call starts from.
LEMMA Calling ==
  ASSUME IInv, NEW n \in Nat, NEW h \in Calls(n)
  PROVE  Sound(h, kids, mine) /\ h.live = heap.live /\ h.ref = heap.ref
<1>1. PICK f \in 0..n : h = [heap EXCEPT !.fuel = f]
  BY DEF Calls
<1>2. heap \in HeapType /\ f \in Nat
  BY DEF IInv, Sound, Good
<1>3. h \in HeapType /\ Same(h, heap)
  BY <1>1, <1>2 DEF HeapType, Same
<1>4. Sound(h, kids, mine)
  BY <1>3, SoundSame DEF IInv
<1> QED BY <1>3, <1>4 DEF Same

\* What the invariant says of the items a call may be given.
LEMMA Standing ==
  ASSUME IInv
  PROVE  /\ Sound(heap, kids, mine) /\ heap \in HeapType /\ heap.live \in SUBSET Items
         /\ mine \subseteq Items /\ Null \notin mine /\ mine \ {Null} = mine
         /\ \A p \in Parents : p \in heap.live \ heap.ref /\ p \in Items /\ kids[p] \in Seq(Items)
         /\ \A p \in Parents : \A x \in Addable(p) : x \in mine /\ p \notin Owned(kids, x)
<1>1. Sound(heap, kids, mine)
  BY DEF IInv
<1>2. heap \in HeapType /\ heap.live \in SUBSET Items /\ mine \subseteq Items /\ kids \in Sequences
  BY <1>1, SoundFacts
<1>3. mine \ {Null} = mine /\ Null \notin mine
  BY <1>2, NullAssumption
<1> QED BY <1>1, <1>2, <1>3 DEF Parents, Addable, Sequences

\* A call that looks for an item finds a child or nothing.
LEMMA FoundFacts ==
  ASSUME IInv, NEW p \in Parents, NEW item \in Found(p)
  PROVE  Child(kids, p, item)
<1>1. /\ Sound(heap, kids, mine) /\ p \in heap.live \ heap.ref /\ kids[p] \in Seq(Items)
  BY Standing
<1>2. Good(heap, kids, {})
  BY <1>1 DEF Sound
<1>3. CASE \E i \in 0..Len(kids[p]) : item = GetArrayItem(heap, p, i)
  <2>1. PICK i \in 0..Len(kids[p]) : item = GetArrayItem(heap, p, i)
    BY <1>3
  <2>2. i \in Nat /\ Len(kids[p]) \in Nat
    BY <1>1
  <2>3. item = IF i < Len(kids[p]) THEN kids[p][i + 1] ELSE Null
    BY <1>1, <1>2, <2>1, <2>2, GetFacts
  <2> QED BY <2>2, <2>3 DEF Child
<1>4. CASE \E n \in Names \cup ConstNames, exact \in BOOLEAN : item = GetObjectItem(heap, p, n, exact)
  BY <1>1, <1>2, <1>4, GetFacts DEF Child
<1> QED BY <1>3, <1>4 DEF Found
-----------------------------------------------------------------------------
(* Each call keeps it.                                                      *)

\* Calls that make an item or an array.
LEMMA Creates ==
  ASSUME IInv, CallCreate \/ CallCreateReference \/ CallCreateArrayOf
  PROVE  Continues
<1>1. ASSUME CallCreate PROVE Continues
  <2>1. PICK h \in Calls(2), kind \in NewKinds : Gives(Create(h, kind))
    BY <1>1 DEF CallCreate
  <2> DEFINE r == Create(h, kind)
  <2>2. Sound(h, kids, mine) /\ h.live = heap.live /\ kind \in Kinds
    BY Calling, DataAssumption
  <2>3. Makes(h, r)
    BY <2>2, CreateMakes DEF Sound
  <2>4. Gives(r)
    BY <2>1
  <2> HIDE DEF r
  <2>5. Steady(heap.live, kids, r.heap, mine \cup ({r.item} \ {Null}))
    BY <2>2, <2>3, MakesSteady
  <2> QED BY <2>4, <2>5, Giving
<1>2. ASSUME CallCreateReference PROVE Continues
  <2>1. PICK h \in Calls(1) :
          \/ Gives(CreateReferenceTo(h, "string", Null))
          \/ \E p \in Parents : Gives(CreateReferenceTo(h, heap.kind[p], heap.child[p]))
    BY <1>2 DEF CallCreateReference
  <2>2. PICK kind \in Kinds \cup {None}, child \in Pointers : Gives(CreateReferenceTo(h, kind, child))
    <3>1. "string" \in Kinds \cup {None} /\ Null \in Pointers
      BY DEF Kinds, Pointers
    <3>2. \A p \in Parents : heap.kind[p] \in Kinds \cup {None} /\ heap.child[p] \in Pointers
      BY Standing, HeapFields
    <3> QED BY <2>1, <3>1, <3>2
  <2> DEFINE r == CreateReferenceTo(h, kind, child)
  <2>3. Sound(h, kids, mine) /\ h.live = heap.live
    BY Calling
  <2>4. Makes(h, r)
    BY <2>3, CreateReferenceToMakes DEF Sound
  <2>5. Gives(r)
    BY <2>2
  <2> HIDE DEF r
  <2>6. Steady(heap.live, kids, r.heap, mine \cup ({r.item} \ {Null}))
    BY <2>3, <2>4, MakesSteady
  <2> QED BY <2>5, <2>6, Giving
<1>3. ASSUME CallCreateArrayOf PROVE Continues
  <2>1. PICK h \in Calls(MaxFuel), count \in 1..MaxArray : Gives(CreateArrayOf(h, "string", count))
    BY <1>3 DEF CallCreateArrayOf
  <2> DEFINE r == CreateArrayOf(h, "string", count)
  <2>2. Sound(h, kids, mine) /\ h.live = heap.live /\ "string" \in Kinds /\ count \in Nat
    BY Calling, BoundsAssumption DEF Kinds
  <2>3. Gives(r)
    BY <2>1
  <2>4. Steady(heap.live, kids, r.heap, mine \cup ({r.item} \ {Null}))
    BY <2>2, CreateArraySteady
  <2> HIDE DEF r
  <2> QED BY <2>3, <2>4, Giving
<1> QED BY <1>1, <1>2, <1>3

\* Calls that add an item of the caller's.
LEMMA Adds ==
  ASSUME IInv, CallAddToArray \/ CallAddToObject
  PROVE  Continues
<1>1. ASSUME CallAddToArray PROVE Continues
  <2>1. PICK p \in Parents : \E x \in Addable(p) : Takes(Result(AddItemToArray(heap, p, x), x))
    BY <1>1 DEF CallAddToArray
  <2>0. PICK x \in Addable(p) : Takes(Result(AddItemToArray(heap, p, x), x))
    BY <2>1
  <2> DEFINE g == AddItemToArray(heap, p, x)
             r == Result(g, x)
  <2>2. Steady(heap.live, kids, g, mine \ {x})
    <3>1. Sound(heap, kids, mine) /\ p \in heap.live \ heap.ref /\ x \in mine /\ p \notin Owned(kids, x)
      BY Standing
    <3>2. Joined(heap.live, kids, p, x, g, mine \ {x})
      BY <3>1, AppendJoins
    <3> HIDE DEF g
    <3> QED BY <3>1, <3>2, JoinSteady
  <2> HIDE DEF g
  <2>3. r.heap = g /\ r.item = x
    BY DEF Result
  <2>4. Takes(r)
    BY <2>0 DEF g
  <2> HIDE DEF r
  <2> QED BY <2>2, <2>3, <2>4, Taking
<1>2. ASSUME CallAddToObject PROVE Continues
  <2>0. PICK p \in Parents : \E x \in Addable(p) :
          \/ \E name \in ConstNames : Takes(AddItemToObject(heap, p, name, x, TRUE))
          \/ \E h \in Calls(1), name \in Names : Takes(AddItemToObject(h, p, name, x, FALSE))
    BY <1>2 DEF CallAddToObject
  <2>1. PICK x \in Addable(p) :
          \/ \E name \in ConstNames : Takes(AddItemToObject(heap, p, name, x, TRUE))
          \/ \E h \in Calls(1), name \in Names : Takes(AddItemToObject(h, p, name, x, FALSE))
    BY <2>0
  <2>2. p \in heap.live \ heap.ref /\ x \in mine /\ p \notin Owned(kids, x) /\ mine \ {Null} = mine
    BY Standing
  <2>3. ASSUME NEW name \in ConstNames, Takes(AddItemToObject(heap, p, name, x, TRUE)) PROVE Continues
    <3> DEFINE r == AddItemToObject(heap, p, name, x, TRUE)
    <3>0. r.item = x /\ Joined(heap.live, kids, p, x, r.heap, mine \ {x})
      BY <2>2, ConstMemberJoins DEF IInv
    <3>2. Takes(r)
      BY <2>3
    <3> HIDE DEF r
    <3>1. Steady(heap.live, kids, r.heap, mine \ {x})
      BY <2>2, <3>0, JoinSteady DEF IInv
    <3> QED BY <3>0, <3>1, <3>2, Taking
  <2>4. ASSUME NEW h \in Calls(1), NEW name \in Names, Takes(AddItemToObject(h, p, name, x, FALSE))
        PROVE  Continues
    <3> DEFINE r == AddItemToObject(h, p, name, x, FALSE)
    <3>1. Sound(h, kids, mine) /\ h.live = heap.live /\ p \in h.live \ h.ref
      BY <2>2, Calling
    <3>2. r = Result(h, Null) \/ (r.item = x /\ Joined(h.live, kids, p, x, r.heap, mine \ {x}))
      BY <2>2, <3>1, MemberJoins
    <3>3. Takes(r)
      BY <2>4
    <3> HIDE DEF r
    <3>4. Steady(heap.live, kids, r.heap, mine \ {r.item})
      <4>1. CASE r = Result(h, Null)
        <5>1. r.heap = h /\ r.item = Null
          BY <4>1 DEF Result
        <5> QED BY <2>2, <3>1, <5>1, Stays
      <4>2. CASE r.item = x /\ Joined(h.live, kids, p, x, r.heap, mine \ {x})
        <5>1. Steady(h.live, kids, r.heap, mine \ {x})
          BY <2>2, <3>1, <4>2, JoinSteady
        <5> QED BY <3>1, <4>2, <5>1
      <4> QED BY <3>2, <4>1, <4>2
    <3> QED BY <3>3, <3>4, Taking
  <2> QED BY <2>1, <2>3, <2>4
<1> QED BY <1>1, <1>2

\* Calls that add a reference or a new member.
LEMMA AddsMore ==
  ASSUME IInv, CallAddReferenceToArray \/ CallAddReferenceToObject \/ CallAddNew
  PROVE  Continues
<1>1. ASSUME CallAddReferenceToArray PROVE Continues
  <2>1. PICK h \in Calls(1), p \in Parents, item \in heap.live \ Lost :
          LET reference == CreateReference(h, item)
          IN Returns(IF reference.item = Null THEN h
                     ELSE AddItemToArray(reference.heap, p, reference.item))
    BY <1>1 DEF CallAddReferenceToArray
  <2> DEFINE r == CreateReference(h, item)
             g == IF r.item = Null THEN h ELSE AddItemToArray(r.heap, p, r.item)
  <2>2. Sound(h, kids, mine) /\ h.live = heap.live /\ p \in h.live \ h.ref /\ item \in Items
    BY Calling, Standing
  <2>3. Steady(heap.live, kids, g, mine)
    BY <2>2, ReferenceSteady
  <2>4. Returns(g)
    BY <2>1
  <2> HIDE DEF g
  <2> QED BY <2>3, <2>4, Returning
<1>2. ASSUME CallAddReferenceToObject PROVE Continues
  <2>1. PICK h \in Calls(2), p \in Parents, name \in Names, item \in heap.live \ Lost :
          LET reference == CreateReference(h, item)
          IN Returns(AddItemToObject(reference.heap, p, name, reference.item, FALSE).heap)
    BY <1>2 DEF CallAddReferenceToObject
  <2> DEFINE r == CreateReference(h, item)
             g == AddItemToObject(r.heap, p, name, r.item, FALSE).heap
  <2>2. Sound(h, kids, mine) /\ h.live = heap.live /\ p \in h.live \ h.ref /\ item \in Items
    BY Calling, Standing
  <2>3. Steady(heap.live, kids, g, mine)
    BY <2>2, MemberReferenceSteady
  <2>4. Returns(g)
    BY <2>1
  <2> HIDE DEF g
  <2> QED BY <2>3, <2>4, Returning
<1>3. ASSUME CallAddNew PROVE Continues
  <2>1. PICK h \in Calls(3), p \in Parents, name \in Names, kind \in NewKinds :
          Returns(AddNewToObject(h, p, name, kind).heap)
    BY <1>3 DEF CallAddNew
  <2> DEFINE g == AddNewToObject(h, p, name, kind).heap
  <2>2. Sound(h, kids, mine) /\ h.live = heap.live /\ p \in h.live \ h.ref /\ kind \in Kinds
    BY Calling, Standing, DataAssumption
  <2>3. Steady(heap.live, kids, g, mine)
    BY <2>2, AddNewSteady
  <2>4. Returns(g)
    BY <2>1
  <2> HIDE DEF g
  <2> QED BY <2>3, <2>4, Returning
<1> QED BY <1>1, <1>2, <1>3

\* Calls that detach, insert, replace or change a text.
LEMMA Changes ==
  ASSUME IInv, CallDetach \/ CallInsert \/ CallReplace \/ CallSetValuestring
  PROVE  Continues
<1>0. Sound(heap, kids, mine) /\ mine \ {Null} = mine
  BY Standing
<1>1. ASSUME CallDetach PROVE Continues
  <2>0. PICK p \in Parents : \E item \in Found(p) :
          Gives(DetachItem(heap, p, item)) \/ Returns(DeleteItem(heap, p, item))
    BY <1>1 DEF CallDetach
  <2>1. PICK item \in Found(p) :
          Gives(DetachItem(heap, p, item)) \/ Returns(DeleteItem(heap, p, item))
    BY <2>0
  <2>2. Child(kids, p, item) /\ p \in heap.live \ heap.ref
    BY FoundFacts, Standing
  <2> DEFINE r == DetachItem(heap, p, item)
             g == DeleteItem(heap, p, item)
  <2>3. Steady(heap.live, kids, r.heap, mine \cup ({r.item} \ {Null})) /\ Steady(heap.live, kids, g, mine)
    BY <1>0, <2>2, DetachSteady
  <2>4. Gives(r) \/ Returns(g)
    BY <2>1
  <2> HIDE DEF r, g
  <2> QED BY <2>3, <2>4, Giving, Returning
<1>2. ASSUME CallInsert PROVE Continues
  <2>1. PICK p \in Parents : \E which \in 0..Len(kids[p]), x \in Addable(p) :
          Takes(InsertItemInArray(heap, p, which, x))
    BY <1>2 DEF CallInsert
  <2>2. PICK which \in 0..Len(kids[p]), x \in Addable(p) : Takes(InsertItemInArray(heap, p, which, x))
    BY <2>1
  <2>3. p \in heap.live \ heap.ref /\ x \in mine /\ p \notin Owned(kids, x) /\ which \in Nat
    BY Standing
  <2> DEFINE r == InsertItemInArray(heap, p, which, x)
  <2>4. r = Result(heap, Null) \/ (r.item = x /\ Steady(heap.live, kids, r.heap, mine \ {x}))
    BY <1>0, <2>3, InsertSteady
  <2>5. Takes(r)
    BY <2>2
  <2> HIDE DEF r
  <2>6. Steady(heap.live, kids, r.heap, mine \ {r.item})
    <3>1. CASE r = Result(heap, Null)
      <4>1. r.heap = heap /\ r.item = Null
        BY <3>1 DEF Result
      <4> QED BY <1>0, <4>1, Stays
    <3> QED BY <2>4, <3>1
  <2> QED BY <2>5, <2>6, Taking
<1>3. ASSUME CallReplace PROVE Continues
  <2>0. PICK p \in Parents : \E x \in Addable(p) :
          \/ \E item \in Found(p) : Takes(ReplaceItem(heap, p, item, x))
          \/ \E h \in Calls(1), name \in Names, exact \in BOOLEAN :
               Takes(ReplaceItemInObject(h, p, name, x, exact))
    BY <1>3 DEF CallReplace
  <2>1. PICK x \in Addable(p) :
          \/ \E item \in Found(p) : Takes(ReplaceItem(heap, p, item, x))
          \/ \E h \in Calls(1), name \in Names, exact \in BOOLEAN :
               Takes(ReplaceItemInObject(h, p, name, x, exact))
    BY <2>0
  <2>2. p \in heap.live \ heap.ref /\ x \in mine /\ p \notin Owned(kids, x)
    BY Standing
  <2>3. ASSUME NEW item \in Found(p), Takes(ReplaceItem(heap, p, item, x)) PROVE Continues
    <3> DEFINE r == ReplaceItem(heap, p, item, x)
    <3>1. Child(kids, p, item)
      BY FoundFacts
    <3>2. r = Result(heap, Null) \/ (r.item = x /\ Steady(heap.live, kids, r.heap, mine \ {x}))
      BY <1>0, <2>2, <3>1, ReplaceSteady
    <3>3. Takes(r)
      BY <2>3
    <3> HIDE DEF r
    <3>4. Steady(heap.live, kids, r.heap, mine \ {r.item})
      <4>1. CASE r = Result(heap, Null)
        <5>1. r.heap = heap /\ r.item = Null
          BY <4>1 DEF Result
        <5> QED BY <1>0, <5>1, Stays
      <4> QED BY <3>2, <4>1
    <3> QED BY <3>3, <3>4, Taking
  <2>4. ASSUME NEW h \in Calls(1), NEW name \in Names, NEW exact \in BOOLEAN,
               Takes(ReplaceItemInObject(h, p, name, x, exact))
        PROVE  Continues
    <3> DEFINE r == ReplaceItemInObject(h, p, name, x, exact)
    <3>1. Sound(h, kids, mine) /\ h.live = heap.live /\ p \in h.live \ h.ref
      BY <2>2, Calling
    <3>2. \/ r.item = Null /\ Steady(heap.live, kids, r.heap, mine)
          \/ r.item = x /\ Steady(heap.live, kids, r.heap, mine \ {x})
      <4>1. /\ x \in mine /\ p \notin Owned(kids, x) /\ Sound(h, kids, mine) /\ h.live = heap.live
            /\ p \in h.live \ h.ref
        BY <2>2, <3>1
      <4>2. \A b \in BOOLEAN :
              LET q == ReplaceItemInObject(h, p, name, x, b)
              IN \/ q.item = Null /\ Steady(h.live, kids, q.heap, mine)
                 \/ q.item = x /\ Steady(h.live, kids, q.heap, mine \ {x})
        BY <4>1, ReplaceMemberSteady
      <4> QED BY <3>1, <4>2
    <3>3. Takes(r)
      BY <2>4
    <3> HIDE DEF r
    <3>4. Steady(heap.live, kids, r.heap, mine \ {r.item})
      BY <1>0, <3>2
    <3> QED BY <3>3, <3>4, Taking
  <2> QED BY <2>1, <2>3, <2>4
<1>4. ASSUME CallSetValuestring PROVE Continues
  <2>1. PICK h \in Calls(1), item \in heap.live \ Lost : Returns(SetValuestring(h, item))
    BY <1>4 DEF CallSetValuestring
  <2>2. Sound(h, kids, mine) /\ h.live = heap.live /\ item \in Items
    BY Calling, Standing
  <2>3. Steady(heap.live, kids, SetValuestring(h, item), mine)
    BY <2>2, ValueSteady
  <2> QED BY <2>1, <2>3, Returning
<1> QED BY <1>1, <1>2, <1>3, <1>4

\* Calls that delete or copy.
LEMMA Ends ==
  ASSUME IInv, CallDelete \/ CallDuplicate
  PROVE  Continues
<1>1. ASSUME CallDelete PROVE Continues
  <2>1. PICK x \in mine : Takes(Result(Delete(heap, x), x))
    BY <1>1 DEF CallDelete
  <2> DEFINE g == Delete(heap, x)
             r == Result(g, x)
  <2>2. Steady(heap.live, kids, g, mine \ {x})
    BY Standing, DeleteSteady
  <2> HIDE DEF g
  <2>3. r.heap = g /\ r.item = x
    BY DEF Result
  <2>4. Takes(r)
    BY <2>1 DEF g
  <2> HIDE DEF r
  <2> QED BY <2>2, <2>3, <2>4, Taking
<1>2. ASSUME CallDuplicate PROVE Continues
  <2>1. PICK item \in Readable \ Lost : \E h \in Calls(MaxFuel), recurse \in BOOLEAN :
          Gives(Duplicate(h, item, recurse))
    BY <1>2 DEF CallDuplicate
  <2>2. PICK h \in Calls(MaxFuel), recurse \in BOOLEAN : Gives(Duplicate(h, item, recurse))
    BY <2>1
  <2> DEFINE r == Duplicate(h, item, recurse)
  <2>3. Sound(h, kids, mine) /\ h.live = heap.live /\ item \in Items
    BY Calling, Standing, BoundsAssumption DEF Readable
  <2>4. Steady(heap.live, kids, r.heap, mine \cup ({r.item} \ {Null}))
    BY <2>3, DuplicateSteady
  <2>5. Gives(r)
    BY <2>2
  <2> HIDE DEF r
  <2> QED BY <2>4, <2>5, Giving
<1> QED BY <1>1, <1>2

\* Every step keeps the invariant.
LEMMA Steps == IInv /\ [Next]_vars => IInv'
<1>1. ASSUME IInv, Next PROVE IInv'
  BY <1>1, Creates, Adds, AddsMore, Changes, Ends DEF Next, Continues
<1>2. ASSUME IInv, UNCHANGED vars PROVE IInv'
  BY <1>2 DEF IInv, vars
<1> QED BY <1>1, <1>2

\* The invariant holds of every behaviour.
THEOREM Invariant == Spec => []IInv
BY Starts, Steps, PTL DEF Spec
-----------------------------------------------------------------------------
(* What the invariant says to the caller.                                   *)

\* Roots and lost items, as the invariant has them.
LEMMA RootsFacts ==
  ASSUME IInv
  PROVE  /\ \A x : x \in Roots <=> x \in heap.live /\ IsRoot(kids, x)
         /\ \A x \in Lost : x \in heap.ref /\ heap.key[x] = None
<1>1. \A x : x \in Roots <=> x \in heap.live /\ IsRoot(kids, x)
  BY DEF Roots, IsRoot
<1>2. Held(heap, kids, mine)
  BY DEF IInv, Sound
<1> QED BY <1>1, <1>2 DEF Held, Lost

\* The invariant makes every list whole.
LEMMA LinksWhole == IInv => WellLinked
<1> SUFFICES ASSUME IInv PROVE WellLinked
  OBVIOUS
<1>1. Good(heap, kids, {}) /\ Held(heap, kids, mine) /\ heap.fuel = 0
  BY DEF IInv, Sound
<1>2. /\ heap \in HeapType /\ heap.live \in SUBSET Items /\ Blank(heap) /\ Counted(heap)
      /\ RootsLoose(heap, kids)
  BY <1>1, GoodShape DEF Good
<1>3. TypeOK
  <2>1. heap.texts \in Nat
    BY <1>2, TextsType DEF Counted
  <2>2. /\ heap.next \in [Items -> Pointers] /\ heap.prev \in [Items -> Pointers]
        /\ heap.child \in [Items -> Pointers]
        /\ heap.kind \in [Items -> Kinds \cup {None}] /\ heap.key \in [Items -> Keys]
    BY <1>2, HeapFields
  <2>3. mine \subseteq heap.live
    BY <1>1 DEF Held
  <2>4. heap.live \subseteq Items /\ heap.ref \subseteq heap.live /\ heap.const \subseteq heap.live
    BY <1>2 DEF Blank
  <2> QED BY <1>1, <2>1, <2>2, <2>3, <2>4 DEF TypeOK, Keys
<1>4. \A p \in heap.live \ heap.ref : Represents(heap, p, kids[p])
  BY <1>1, ListRepresented
<1>5. \A x \in Roots : Loose(heap, x)
  BY <1>2, RootsFacts DEF RootsLoose
<1> QED BY <1>3, <1>4, <1>5 DEF WellLinked

\* An item that is not lost is below one thing the caller was given.
LEMMA OneOwner ==
  ASSUME IInv, NEW x \in heap.live \ Lost
  PROVE  \E r \in mine : x \in Owned(kids, r) /\ \A q \in mine : x \in Owned(kids, q) => q = r
<1>1. /\ Good(heap, kids, {}) /\ Held(heap, kids, mine) /\ IsForest(kids) /\ kids \in Sequences
      /\ Kept(heap, kids) /\ heap.live \in SUBSET Items /\ heap \in HeapType
  BY SoundFacts DEF IInv
<1>2. x \in Items
  BY <1>1
<1>3. PICK r \in Items : IsRoot(kids, r) /\ x \in Owned(kids, r)
  BY <1>1, <1>2, RootAbove
<1>4. r \in mine
  <2>1. CASE r = x
    <3>1. x \in Roots
      BY <1>3, <2>1, RootsFacts
    <3> QED BY <2>1, <3>1 DEF Lost
  <2>2. CASE r # x
    <3>1. kids[r] # <<>>
      BY <1>1, <1>3, <2>2, OwnedLeaf
    <3>2. r \in heap.live \ heap.ref
      BY <1>1, <3>1 DEF Kept
    <3> QED BY <1>1, <1>3, <3>2 DEF Held
  <2> QED BY <2>1, <2>2
<1>5. ASSUME NEW q \in mine, x \in Owned(kids, q) PROVE q = r
  <2>1. q \in Items /\ IsRoot(kids, q)
    BY <1>1 DEF Held
  <2>2. q # r => Owned(kids, q) \cap Owned(kids, r) = {}
    BY <1>1, <1>3, <2>1, RootsApart
  <2> QED BY <1>3, <1>5, <2>2
<1> QED BY <1>3, <1>4, <1>5

\* The invariant gives every item one owner.
LEMMA OwnersCounted == IInv => OwnedOnce
<1> SUFFICES ASSUME IInv PROVE OwnedOnce
  OBVIOUS
<1>1. Counted(heap)
  BY DEF IInv, Sound, Good
<1>2. ASSUME NEW x \in heap.live \ Lost
      PROVE  Cardinality({r \in mine : x \in Owned(kids, r)}) = 1
  <2>1. PICK r \in mine : x \in Owned(kids, r) /\ \A q \in mine : x \in Owned(kids, q) => q = r
    BY OneOwner
  <2>2. {q \in mine : x \in Owned(kids, q)} = {r}
    BY <2>1
  <2> QED BY <2>2, FS_Singleton
<1>3. heap.texts = Cardinality({i \in heap.live : OwnsKey(heap, i)})
                     + Cardinality({i \in heap.live : OwnsValue(heap, i)})
  BY <1>1 DEF Counted, Texts
<1>4. ~heap.undefined
  BY <1>1 DEF Counted
<1> QED BY <1>2, <1>3, <1>4, RootsFacts DEF OwnedOnce

\* A call on the heap with all the room it may want starts from the same trees.
LEMMA TrialFacts ==
  ASSUME IInv, NEW f \in Nat
  PROVE  /\ Trial(f) \in HeapType /\ Trial(f).fuel = f
         /\ Sound(Trial(f), kids, mine)
         /\ Trial(f).live = heap.live /\ Trial(f).ref = heap.ref
<1> DEFINE N == Cardinality(Items)
           room == [items |-> N, references |-> N, texts |-> 2 * N, constants |-> N]
           g == [heap EXCEPT !.fuel = f, !.room = room]
<1>1. Trial(f) = g
  BY DEF Trial
<1>2. Good(heap, kids, {}) /\ Held(heap, kids, mine) /\ heap \in HeapType
  BY DEF IInv, Sound, Good
<1>3. room \in RoomType
  <2>1. N \in Nat
    BY ItemsAssumption, FS_CardinalityType
  <2> HIDE DEF N
  <2>2. 2 * N \in Nat
    BY <2>1
  <2> QED BY <2>1, <2>2 DEF RoomType
<1> HIDE DEF room
<1>4. /\ g \in HeapType /\ g.fuel = f
      /\ g.live = heap.live /\ g.ref = heap.ref /\ g.const = heap.const /\ g.texts = heap.texts
      /\ g.undefined = heap.undefined
      /\ g.next = heap.next /\ g.prev = heap.prev /\ g.child = heap.child /\ g.kind = heap.kind
      /\ g.key = heap.key
  BY <1>2, <1>3 DEF HeapType
<1> HIDE DEF g
<1>5. Good(g, kids, {})
  BY <1>2, <1>4, GoodAlike
<1>6. Held(g, kids, mine)
  BY <1>2, <1>4 DEF Held
<1> QED BY <1>1, <1>4, <1>5, <1>6 DEF Sound

\* A heap that is the same is the heap but for the fuel used.
LEMMA Untouched ==
  ASSUME NEW h \in HeapType, NEW r, r.item = Null => r.heap \in HeapType /\ Same(r.heap, h)
  PROVE  r.item = Null => [r.heap EXCEPT !.fuel = h.fuel] = h
BY SameHeap

\* The invariant makes calls that fail leave the heap as it was.
LEMMA FailuresRestore == IInv => FailureRestores
<1> SUFFICES ASSUME IInv PROVE FailureRestores
  OBVIOUS
<1> DEFINE h == [f \in 1..MaxFuel |-> Trial(f)]
           Restored(r, f) == r.item = Null => [r.heap EXCEPT !.fuel = f] = h[f]
<1>1. DOMAIN h = 1..MaxFuel
  OBVIOUS
<1>2. ASSUME NEW f \in 1..MaxFuel
      PROVE  /\ Restored(CreateArrayOf(h[f], "string", MaxArray), f)
             /\ \A p \in Parents, name \in Names : Restored(AddNewToObject(h[f], p, name, "string"), f)
             /\ \A item \in Readable \cap Roots : Restored(Duplicate(h[f], item, TRUE), f)
  <2> DEFINE t == Trial(f)
  <2>1. h[f] = t
    OBVIOUS
  <2>2. f \in Nat
    BY BoundsAssumption
  <2>3. t \in HeapType /\ t.fuel = f /\ Sound(t, kids, mine) /\ t.live = heap.live /\ t.ref = heap.ref
    BY <2>2, TrialFacts
  <2>4. "string" \in Kinds /\ MaxArray \in Nat
    BY BoundsAssumption DEF Kinds
  <2> HIDE DEF h, t
  <2>5. Restored(CreateArrayOf(t, "string", MaxArray), f)
    <3> DEFINE r == CreateArrayOf(t, "string", MaxArray)
    <3>1. r.item = Null => r.heap \in HeapType /\ Same(r.heap, t)
      BY <2>3, <2>4, CreateArraySteady
    <3> HIDE DEF r
    <3>2. r.item = Null => [r.heap EXCEPT !.fuel = f] = t
      BY <2>3, <3>1, Untouched
    <3> QED BY <2>1, <3>2 DEF r
  <2>6. ASSUME NEW p \in Parents, NEW name \in Names
        PROVE  Restored(AddNewToObject(t, p, name, "string"), f)
    <3> DEFINE r == AddNewToObject(t, p, name, "string")
    <3>1. p \in t.live \ t.ref
      BY <2>3 DEF Parents
    <3>2. r.item = Null => r.heap \in HeapType /\ Same(r.heap, t)
      BY <2>3, <2>4, <3>1, AddNewSteady
    <3> HIDE DEF r
    <3>3. r.item = Null => [r.heap EXCEPT !.fuel = f] = t
      BY <2>3, <3>2, Untouched
    <3> QED BY <2>1, <3>3 DEF r
  <2>7. ASSUME NEW item \in Readable \cap Roots
        PROVE  Restored(Duplicate(t, item, TRUE), f)
    <3> DEFINE r == Duplicate(t, item, TRUE)
    <3>1. item \in Items /\ TRUE \in BOOLEAN
      BY Standing DEF Readable
    <3>2. r.item = Null => r.heap \in HeapType /\ Same(r.heap, t)
      BY <2>3, <3>1, DuplicateSteady
    <3> HIDE DEF r
    <3>3. r.item = Null => [r.heap EXCEPT !.fuel = f] = t
      BY <2>3, <3>2, Untouched
    <3> QED BY <2>1, <3>3 DEF r
  <2> QED BY <2>1, <2>5, <2>6, <2>7
<1> HIDE DEF h
<1> QED BY <1>1, <1>2 DEF FailureRestores, h

\* The lists of the heap are whole, whatever calls the caller made.
THEOREM WellLinkedHolds == Spec => []WellLinked
<1>1. IInv => WellLinked
  BY LinksWhole
<1> QED BY <1>1, Invariant, PTL

\* What the caller was given owns every item that is not lost, each once.
THEOREM OwnedOnceHolds == Spec => []OwnedOnce
<1>1. IInv => OwnedOnce
  BY OwnersCounted
<1> QED BY <1>1, Invariant, PTL

\* A call that makes something and fails leaves the heap as it was.
THEOREM FailureRestoresHolds == Spec => []FailureRestores
<1>1. IInv => FailureRestores
  BY FailuresRestore
<1> QED BY <1>1, Invariant, PTL
-----------------------------------------------------------------------------
(* What a call does to the pointers is a step of the forest.                *)

\* The forest reads its sequences as the trees do.
LEMMA SameReading ==
  /\ \A k, x : Forest!Children(k, x) = Children(k, x) /\ Forest!Owned(k, x) = Owned(k, x)
  /\ \A s, i, x : /\ Forest!Appended(s, x) = Appended(s, x) /\ Forest!Without(s, i) = Without(s, i)
                  /\ Forest!Inserted(s, i, x) = Inserted(s, i, x)
                  /\ Forest!Replaced(s, i, x) = Replaced(s, i, x)
<1>1. \A k, x : Forest!Children(k, x) = Children(k, x)
  BY DEF Forest!Children, Children
<1>2. \A k, x : Forest!Owned(k, x) = Owned(k, x)
  <2>1. \A e, S : Forest!Closure(e, S) = Closure(e, S)
    BY Zenon DEF Forest!Closure, Closure, Forest!Cardinality, Cardinality,
                 Forest!IsFiniteSet, IsFiniteSet
  <2> QED BY <1>1, <2>1 DEF Forest!Owned, Owned
<1>3. \A s, i, x : /\ Forest!Appended(s, x) = Appended(s, x) /\ Forest!Without(s, i) = Without(s, i)
                   /\ Forest!Inserted(s, i, x) = Inserted(s, i, x)
                   /\ Forest!Replaced(s, i, x) = Replaced(s, i, x)
  BY DEF Forest!Appended, Appended, Forest!Without, Without, Forest!Inserted, Inserted,
         Forest!Replaced, Replaced
<1> QED BY <1>1, <1>2, <1>3

\* What a heap in order says of the forest it stands for.
LEMMA ForestFacts ==
  ASSUME NEW h, NEW k, NEW m, Sound(h, k, m)
  PROVE  /\ h.live \in SUBSET Items /\ k \in [Items -> Seq(h.live)]
         /\ \A i \in Items : i \notin h.live => k[i] = <<>>
         /\ \A p, q \in Items : \A i \in 1..Len(k[p]), j \in 1..Len(k[q]) :
              k[p][i] = k[q][j] => p = q /\ i = j
         /\ \A p \in Items : Len(k[p]) \in Nat /\ DOMAIN k[p] = 1..Len(k[p])
<1>1. h.live \in SUBSET Items /\ k \in [Items -> Seq(Items)] /\ Kept(h, k) /\ OneParent(k)
  BY SoundFacts DEF Sound, Good, Sequences, IsForest
<1>2. ASSUME NEW p \in Items PROVE k[p] \in Seq(h.live) /\ Len(k[p]) \in Nat /\ DOMAIN k[p] = 1..Len(k[p])
  <2>1. k[p] \in Seq(Items) /\ Len(k[p]) \in Nat /\ DOMAIN k[p] = 1..Len(k[p])
    BY <1>1
  <2>2. \A i \in 1..Len(k[p]) : k[p][i] \in h.live
    BY <1>1 DEF Kept, Children
  <2> QED BY <2>1, <2>2
<1>3. \A i \in Items : i \notin h.live => k[i] = <<>>
  BY <1>1 DEF Kept
<1> QED BY <1>1, <1>2, <1>3 DEF OneParent

\* A root of the pointers is one of the forest.
LEMMA ForestRoot ==
  ASSUME Sound(heap, kids, mine), NEW x \in heap.live, IsRoot(kids, x)
  PROVE  Forest!Root(x)
<1>1. heap.live \in SUBSET Items
  BY ForestFacts
<1> QED BY <1>1, SameReading DEF Forest!Root, IsRoot

\* The forest becomes k but for the items that are gone.
LEMMA ForestBecomes ==
  ASSUME Sound(heap', kids', mine'), NEW S, heap'.live = S, NEW k, \A i \in S : kids'[i] = k[i]
  PROVE  Forest!Becomes(S, k)
<1> DEFINE h == heap'
           k2 == kids'
           m == mine'
<1>1. Sound(h, k2, m)
  OBVIOUS
<1> HIDE DEF h, k2, m
<1>2. /\ k2 \in [Items -> Seq(h.live)]
      /\ \A i \in Items : i \notin h.live => k2[i] = <<>>
  BY <1>1, ForestFacts
<1>3. h.live = S /\ \A i \in S : k2[i] = k[i]
  BY DEF h, k2
<1>4. k2 = [i \in Items |-> IF i \in S THEN k[i] ELSE <<>>]
  BY <1>2, <1>3
<1> QED BY <1>3, <1>4 DEF Forest!Becomes, h, k2

LEMMA SproutsForest ==
  ASSUME Sound(heap, kids, mine), Sound(heap', kids', mine'),
         Sprouted(heap.live, kids, heap'.live, kids')
  PROVE  Forest!Sprout
<1> DEFINE h == heap'
           k2 == kids'
           m == mine'
<1>1. Sound(h, k2, m) /\ Sprouted(heap.live, kids, h.live, k2)
  OBVIOUS
<1> HIDE DEF h, k2, m
<1> DEFINE new == h.live \ heap.live
<1>2. PICK x \in new :
        /\ heap.live \subseteq h.live /\ Owned(k2, x) = new
        /\ \/ \A i \in heap.live : k2[i] = kids[i]
           \/ \E p \in heap.live : \A i \in heap.live :
                k2[i] = IF i = p THEN Appended(kids[i], x) ELSE kids[i]
  BY <1>1 DEF Sprouted
<1>3. /\ k2 \in [Items -> Seq(h.live)] /\ \A i \in Items \ h.live : k2[i] = <<>>
      /\ \A p, q \in new : \A i \in DOMAIN k2[p], j \in DOMAIN k2[q] :
           k2[p][i] = k2[q][j] => p = q /\ i = j
  <2>1. /\ h.live \in SUBSET Items /\ k2 \in [Items -> Seq(h.live)]
        /\ \A i \in Items : i \notin h.live => k2[i] = <<>>
        /\ \A p, q \in Items : \A i \in 1..Len(k2[p]), j \in 1..Len(k2[q]) :
             k2[p][i] = k2[q][j] => p = q /\ i = j
        /\ \A p \in Items : Len(k2[p]) \in Nat /\ DOMAIN k2[p] = 1..Len(k2[p])
    BY <1>1, ForestFacts
  <2>2. \A p \in new : p \in Items
    BY <2>1
  <2> HIDE DEF new
  <2>3. ASSUME NEW p \in new, NEW q \in new, NEW i \in DOMAIN k2[p], NEW j \in DOMAIN k2[q],
               k2[p][i] = k2[q][j]
        PROVE  p = q /\ i = j
    <3>1. p \in Items /\ q \in Items /\ i \in 1..Len(k2[p]) /\ j \in 1..Len(k2[q])
      BY <2>1, <2>2
    <3> QED BY <2>1, <2>3, <3>1
  <2>4. \A i \in Items \ h.live : k2[i] = <<>>
    BY <2>1
  <2> QED BY <2>1, <2>3, <2>4
<1>4. /\ Forest!Owned(k2, x) = new
      /\ \/ \A i \in heap.live : k2[i] = kids[i]
         \/ \E p \in heap.live : \A i \in heap.live :
              k2[i] = IF i = p THEN Forest!Appended(kids[i], x) ELSE kids[i]
  BY <1>2, SameReading
<1> QED BY <1>2, <1>3, <1>4 DEF Forest!Sprout, h, k2

\* Every call is a step of the forest, or leaves it as it is.
LEMMA TurnsForest ==
  ASSUME Sound(heap, kids, mine), Sound(heap', kids', mine'),
         Turned(heap.live, kids, heap'.live, kids')
  PROVE  UNCHANGED Forest!vars \/ Forest!Next
<1> DEFINE S == heap.live
           S2 == heap'.live
           k2 == kids'
<1>0. /\ kids \in [Items -> Seq(S)] /\ S \in SUBSET Items
      /\ \A p \in S : p \in Items /\ Len(kids[p]) \in Nat /\ DOMAIN kids[p] = 1..Len(kids[p])
  BY ForestFacts
<1>1. CASE S2 = S /\ k2 = kids
  BY <1>1 DEF Forest!vars
<1>2. CASE Sprouted(S, kids, S2, k2)
  BY <1>2, SproutsForest DEF Forest!Next
<1>3. CASE Dropped(S, kids, S2, k2)
  <2>1. PICK x \in S : IsRoot(kids, x) /\ S2 = S \ Owned(kids, x) /\ k2 = Pruned(kids, Owned(kids, x))
    BY <1>3 DEF Dropped
  <2>2. \A i \in S2 : k2[i] = kids[i]
    BY <1>0, <2>1 DEF Pruned
  <2>3. Forest!Becomes(S \ Forest!Owned(kids, x), kids)
    BY <2>1, <2>2, ForestBecomes, SameReading
  <2>4. Forest!Drop(x)
    BY <2>1, <2>3, ForestRoot DEF Forest!Drop
  <2> QED BY <2>4 DEF Forest!Next
<1>4. CASE Entered(S, kids, S2, k2)
  <2>0. PICK p \in S, x \in S : \E i \in 1..(Len(kids[p]) + 1) :
          /\ IsRoot(kids, x) /\ p \notin Owned(kids, x)
          /\ S2 = S /\ k2 = [kids EXCEPT ![p] = Inserted(kids[p], i, x)]
    BY <1>4 DEF Entered
  <2>1. PICK i \in 1..(Len(kids[p]) + 1) :
          /\ IsRoot(kids, x) /\ p \notin Owned(kids, x)
          /\ S2 = S /\ k2 = [kids EXCEPT ![p] = Inserted(kids[p], i, x)]
    BY <2>0
  <2>2. k2 = [kids EXCEPT ![p] = Forest!Inserted(kids[p], i, x)]
    BY <2>1, SameReading
  <2>3. Forest!Becomes(S, [kids EXCEPT ![p] = Forest!Inserted(kids[p], i, x)])
    BY <2>1, <2>2, ForestBecomes
  <2>4. Forest!Insert(p, i, x)
    BY <2>1, <2>3, ForestRoot, SameReading DEF Forest!Insert
  <2> QED BY <2>4 DEF Forest!Next
<1>5. CASE Left(S, kids, S2, k2)
  <2>0. PICK p \in S : \E i \in 1..Len(kids[p]) :
          LET rest == [kids EXCEPT ![p] = Without(kids[p], i)]
          IN \/ S2 = S /\ k2 = rest
             \/ S2 = S \ Owned(kids, kids[p][i]) /\ k2 = Pruned(rest, Owned(kids, kids[p][i]))
    BY <1>5 DEF Left
  <2> DEFINE rest(i) == [kids EXCEPT ![p] = Forest!Without(kids[p], i)]
  <2>1. PICK i \in 1..Len(kids[p]) :
             \/ S2 = S /\ k2 = rest(i)
             \/ S2 = S \ Owned(kids, kids[p][i]) /\ k2 = Pruned(rest(i), Owned(kids, kids[p][i]))
    BY <2>0, SameReading
  <2>2. \A j \in S2 : k2[j] = rest(i)[j]
    BY <1>0, <2>1 DEF Pruned
  <2>3. S2 = S \/ S2 = S \ Forest!Owned(kids, kids[p][i])
    BY <2>1, SameReading
  <2> HIDE DEF rest
  <2>4. Forest!Becomes(S, rest(i)) \/ Forest!Becomes(S \ Forest!Owned(kids, kids[p][i]), rest(i))
    BY <2>2, <2>3, ForestBecomes
  <2>5. Forest!Take(p, i) \/ Forest!Discard(p, i)
    BY <2>4 DEF Forest!Take, Forest!Discard, rest
  <2> QED BY <1>0, <2>5 DEF Forest!Next
<1>6. CASE Exchanged(S, kids, S2, k2)
  <2>0. PICK p \in S, x \in S : \E i \in 1..Len(kids[p]) :
          /\ IsRoot(kids, x) /\ p \notin Owned(kids, x)
          /\ S2 = S \ Owned(kids, kids[p][i])
          /\ k2 = Pruned([kids EXCEPT ![p] = Replaced(kids[p], i, x)], Owned(kids, kids[p][i]))
    BY <1>6 DEF Exchanged
  <2> DEFINE after(i) == [kids EXCEPT ![p] = Forest!Replaced(kids[p], i, x)]
  <2>1. PICK i \in 1..Len(kids[p]) :
          /\ IsRoot(kids, x) /\ p \notin Owned(kids, x)
          /\ S2 = S \ Owned(kids, kids[p][i])
          /\ k2 = Pruned(after(i), Owned(kids, kids[p][i]))
    BY <2>0, SameReading
  <2>2. \A j \in S2 : k2[j] = after(i)[j]
    BY <1>0, <2>1 DEF Pruned
  <2>3. S2 = S \ Forest!Owned(kids, kids[p][i])
    BY <2>1, SameReading
  <2> HIDE DEF after
  <2>4. Forest!Becomes(S \ Forest!Owned(kids, kids[p][i]), after(i))
    BY <2>2, <2>3, ForestBecomes
  <2>5. Forest!Exchange(p, i, x)
    BY <2>1, <2>4, ForestRoot, SameReading DEF Forest!Exchange, after
  <2> QED BY <1>0, <2>5 DEF Forest!Next
<1> QED BY <1>1, <1>2, <1>3, <1>4, <1>5, <1>6 DEF Turned

\* The pointer code of cJSON.c implements the forest of child sequences: each
\* call moves one item, makes one tree, removes one tree or changes none.
THEOREM ForestImplemented == Spec => ImplementsForest
<1>1. Init => Forest!Init
  <2> SUFFICES ASSUME Init PROVE Forest!Init
    OBVIOUS
  <2>1. heap.live = {} /\ kids = [i \in Items |-> <<>>]
    BY DEF Init
  <2> QED BY <2>1 DEF Forest!Init
<1>2. IInv /\ [Next]_vars => [UNCHANGED Forest!vars \/ Forest!Next]_(Forest!vars)
  <2>1. ASSUME IInv, Next PROVE UNCHANGED Forest!vars \/ Forest!Next
    <3>1. Continues
      BY <2>1, Creates, Adds, AddsMore, Changes, Ends DEF Next
    <3>2. /\ Sound(heap, kids, mine) /\ Sound(heap', kids', mine')
          /\ Turned(heap.live, kids, heap'.live, kids')
      BY <2>1, <3>1 DEF Continues, IInv
    <3> QED BY <3>2, TurnsForest
  <2>2. ASSUME UNCHANGED vars PROVE UNCHANGED Forest!vars
    BY <2>2 DEF vars, Forest!vars
  <2> QED BY <2>1, <2>2
<1> QED BY <1>1, <1>2, Invariant, PTL DEF Spec, ImplementsForest, Forest!Spec
=============================================================================
