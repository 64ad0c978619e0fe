------------------------------- MODULE JsonTree -------------------------------
(***************************************************************************)
(* The trees of src/srcs/json/cJSON.c: items on the heap, who owns which   *)
(* block, and what every public call that builds, relinks, copies or       *)
(* deletes does to them, each of its allocations included.  The heap is    *)
(* one record; a call is a function of it.  fuel is the number of          *)
(* allocations of the running call that will succeed, room the bounds of   *)
(* the behaviour.                                                          *)
(*                                                                         *)
(* The caller keeps the contract of cJSON.h: what it adds is in no list,   *)
(* it adds no item to its own tree, it changes no list through a reference *)
(* and copies no reference whose referent is gone.                         *)
(***************************************************************************)
EXTENDS JsonList, Integers

CONSTANTS
  Names,         \* keys of object members, copied
  ConstNames,    \* keys that are constants of the caller
  NewKinds,      \* kinds of the items made one at a time
  Rooms,         \* what a behaviour has room for: items, of which references,
                 \* copied texts and constant keys
  MaxFuel,       \* allocations of one call that may succeed
  MaxArray,      \* count given to cJSON_CreateIntArray
  CircularLimit  \* CJSON_CIRCULAR_LIMIT

RoomType == [items : Nat, references : Nat, texts : Nat, constants : Nat]

Kinds == {"array", "object", "string"}

\* A key or a kind not set yet.
None == "none"

ASSUME BoundsAssumption ==
  /\ Rooms \subseteq RoomType
  /\ {MaxFuel, MaxArray, CircularLimit} \subseteq Nat

ASSUME ItemsAssumption == IsFiniteSet(Items)

ASSUME DataAssumption == None \notin Names \cup ConstNames /\ NewKinds \subseteq Kinds

VARIABLES
  heap,
  kids,  \* history: the children each item owns, as a walk along next reads them
  mine   \* the items the caller was given and has to delete

vars == <<heap, kids, mine>>

Keys == Names \cup ConstNames \cup {None}

\* The struct cJSON of every address, and the allocator's account of them.
HeapType ==
  [room : RoomType, live : SUBSET Items, ref : SUBSET Items, const : SUBSET Items,
   texts : Int, fuel : Nat, undefined : BOOLEAN,
   next : [Items -> Pointers], prev : [Items -> Pointers], child : [Items -> Pointers],
   kind : [Items -> Kinds \cup {None}], key : [Items -> Keys]]

Lower(name) == IF name = "A" THEN "a" ELSE name

SameName(m, n, exact) == IF exact THEN m = n ELSE Lower(m) = Lower(n)

\* What a call leaves: the heap and the item it returns, or that it accepted.
Result(h, pointer) == [heap |-> h, item |-> pointer]
-----------------------------------------------------------------------------
(* Allocation and release.                                                  *)

\* Memory a stale reference points into is not handed out again.
Unused(h) == {i \in Items \ h.live : \A r \in h.ref : h.child[r] # i}

NewItem(h) ==
  IF h.fuel = 0 \/ Unused(h) = {} \/ Cardinality(Items \ Unused(h)) >= h.room.items
  THEN Result(h, Null)
  ELSE LET x == CHOOSE i \in Unused(h) : TRUE
       IN Result([h EXCEPT !.fuel = @ - 1, !.live = @ \cup {x}], x)

NewReference(h) ==
  IF Cardinality(h.ref) = h.room.references THEN Result(h, Null) ELSE NewItem(h)

\* cJSON_strdup; whether it worked is read from texts.
Strdup(h) ==
  IF h.fuel = 0 \/ h.texts >= h.room.texts THEN h ELSE [h EXCEPT !.fuel = @ - 1, !.texts = @ + 1]
Failed(before, after) == before.texts = after.texts

OwnsValue(h, i) == h.kind[i] = "string" /\ i \notin h.ref
OwnsKey(h, i) == h.key[i] # None /\ i \notin h.const

\* The keys and texts that belong to items of S, counted.
Texts(h, S) == Cardinality({i \in S : OwnsKey(h, i)}) + Cardinality({i \in S : OwnsValue(h, i)})

Cleared(field, S, blank) == [i \in Items |-> IF i \in S THEN blank ELSE field[i]]

\* The heap once the items of S and what they own are freed.
Freed(h, S) ==
  [h EXCEPT !.live = @ \ S, !.ref = @ \ S, !.const = @ \ S, !.texts = @ - Texts(h, S),
            !.next = Cleared(@, S, Null), !.prev = Cleared(@, S, Null), !.child = Cleared(@, S, Null),
            !.kind = Cleared(@, S, None), !.key = Cleared(@, S, None)]

\* What the loop of cJSON_Delete meets from item on, and whether it meets
\* something twice; walk is the same for the items it goes to from there.
Nothing == [items |-> {}, again |-> FALSE]

VisitItem(h, walk, item) ==
  LET inner == IF item \in h.ref THEN Nothing ELSE walk[h.child[item]]
      rest == walk[h.next[item]]
  IN [items |-> {item} \cup inner.items \cup rest.items,
      again |-> \/ inner.again \/ rest.again
                \/ item \in inner.items \cup rest.items
                \/ inner.items \cap rest.items # {}]

\* At most n deep: a walk deeper than there are items meets one again.
Visit(h) ==
  LET visit[n \in Nat] ==
        IF n = 0 THEN [item \in Pointers |-> Nothing]
        ELSE [item \in Pointers |-> IF item = Null THEN Nothing ELSE VisitItem(h, visit[n - 1], item)]
  IN visit

Delete(h, item) ==
  LET visited == Visit(h)[Cardinality(Items) + 1][item]
  IN [Freed(h, visited.items) EXCEPT
        !.undefined = @ \/ visited.again \/ ~(visited.items \subseteq h.live)]
-----------------------------------------------------------------------------
(* Looking items up.                                                        *)

\* The items from first on, in the order of next: no list is longer than
\* there are items.
Chain(h, first) ==
  LET walked[n \in Nat] ==
        IF n = 0 THEN <<>>
        ELSE LET s == walked[n - 1]
                 current == IF s = <<>> THEN first ELSE h.next[s[Len(s)]]
             IN IF current = Null THEN s ELSE Append(s, current)
  IN walked[Cardinality(Items)]

GetArrayItem(h, array, index) ==
  LET s == Chain(h, h.child[array]) IN IF index < Len(s) THEN s[index + 1] ELSE Null

\* An item without a key ends the exact search and is passed over by the other.
Search(h, current, name, exact) ==
  LET s == Chain(h, current)
      stops == {i \in 1..Len(s) : IF h.key[s[i]] = None THEN exact
                                  ELSE SameName(name, h.key[s[i]], exact)}
      found == s[CHOOSE i \in stops : \A j \in stops : i <= j]
  IN IF stops = {} \/ h.key[found] = None THEN Null ELSE found

\* Mutant: the case sensitive search and the other are swapped.
MutantGetObjectItem(h, object, name, exact) ==
  IF name = None THEN Null ELSE Search(h, h.child[object], name, ~exact)

GetObjectItem(h, object, name, exact) ==
  IF name = None THEN Null ELSE Search(h, h.child[object], name, exact)
-----------------------------------------------------------------------------
(* Building.                                                                *)

SetKind(h, item, kind) == [h EXCEPT !.kind[item] = kind]

\* Mutant: the item is not deleted when its text cannot be copied.
MutantCreate(h, kind) ==
  LET new == NewItem(h)
      made == SetKind(new.heap, new.item, kind)
      filled == Strdup(made)
  IN IF new.item = Null THEN new
     ELSE IF kind = "string" /\ Failed(made, filled) THEN Result(made, Null)
     ELSE Result(filled, new.item)

Create(h, kind) ==
  LET new == NewItem(h)
      made == SetKind(new.heap, new.item, kind)
      filled == Strdup(made)
  IN IF new.item = Null THEN new
     ELSE IF kind # "string" THEN Result(made, new.item)
     ELSE IF Failed(made, filled)
          THEN Result(Delete([made EXCEPT !.kind[new.item] = None], new.item), Null)
     ELSE Result(filled, new.item)

\* cJSON_CreateStringReference, ObjectReference and ArrayReference.
CreateReferenceTo(h, kind, child) ==
  LET new == NewReference(h)
  IN IF new.item = Null THEN new
     ELSE Result([SetKind(new.heap, new.item, kind) EXCEPT !.ref = @ \cup {new.item},
                                                           !.child[new.item] = child], new.item)

CreateReference(h, item) ==
  LET new == NewReference(h)
  IN IF item = Null \/ new.item = Null THEN Result(h, Null)
     ELSE Result([new.heap EXCEPT !.kind[new.item] = h.kind[item],
                                  !.child[new.item] = h.child[item],
                                  !.ref = @ \cup {new.item},
                                  !.const = IF item \in h.const THEN @ \cup {new.item} ELSE @],
                 new.item)

\* The item goes after the last child made so far; the link from the first
\* child back to the last is set when all are there.
Link(h, parent, last, item) ==
  IF last = Null THEN [h EXCEPT !.child[parent] = item] ELSE SuffixObject(h, last, item)

Close(h, parent, last) ==
  IF h.child[parent] = Null THEN h ELSE [h EXCEPT !.prev[h.child[parent]] = last]

\* One turn of the loop of cJSON_CreateIntArray, FloatArray, DoubleArray and
\* StringArray, with the element it made.  A state of it: the heap, the array
\* (Null once the call has given up) and the last element.
Extended(so, new) ==
  IF so.item = Null THEN so
  ELSE IF new.item = Null THEN [heap |-> Delete(new.heap, so.item), item |-> Null, last |-> Null]
  ELSE [heap |-> Link(new.heap, so.item, so.last, new.item), item |-> so.item, last |-> new.item]

AddElement(so, kind) == Extended(so, Create(so.heap, kind))

Elements(start, kind) ==
  LET made[i \in Nat] == IF i = 0 THEN start ELSE AddElement(made[i - 1], kind) IN made

\* What a loop returns that has come to its end.
Ended(so) ==
  IF so.item = Null THEN Result(so.heap, Null)
  ELSE Result(Close(so.heap, so.item, so.last), so.item)

CreateArrayOf(h, kind, count) ==
  LET array == Create(h, "array")
  IN Ended(Elements([heap |-> array.heap, item |-> array.item, last |-> Null], kind)[count])

\* Frees the key an item has, unless it is a constant.
FreeKey(h, item) == IF OwnsKey(h, item) THEN [h EXCEPT !.texts = @ - 1] ELSE h

\* Mutant: the item is linked before its key is copied.
LinkedFirst(h, object, name, item, const) ==
  LET added == AddItemToArray(h, object, item)
      copied == IF const THEN added ELSE Strdup(added)
      keyed == [FreeKey(copied, item) EXCEPT
                  !.key[item] = name, !.const = IF const THEN @ \cup {item} ELSE @ \ {item}]
  IN IF item = Null \/ object = item THEN Result(h, Null)
     ELSE IF ~const /\ Failed(added, copied) THEN Result(added, Null)
     ELSE Result(keyed, item)

AddItemToObject(h, object, name, item, const) ==
  LET copied == IF const THEN h ELSE Strdup(h)
      keyed == [FreeKey(copied, item) EXCEPT
                  !.key[item] = name, !.const = IF const THEN @ \cup {item} ELSE @ \ {item}]
  IN IF item = Null \/ object = item \/ (~const /\ Failed(h, copied)) THEN Result(h, Null)
     ELSE Result(AddItemToArray(keyed, object, item), item)

\* The eight functions cJSON_AddNullToObject to cJSON_AddArrayToObject.
AddNewToObject(h, object, name, kind) ==
  LET new == Create(h, kind)
      added == AddItemToObject(new.heap, object, name, new.item, FALSE)
  IN IF added.item # Null THEN added ELSE Result(Delete(added.heap, new.item), Null)

\* cJSON_Duplicate_rec up to its loop: the item without its children.
FillCopy(h, item, new) ==
  LET n == new.item
      typed == [new.heap EXCEPT !.const = IF item \in h.const THEN @ \cup {n} ELSE @]
      valued == IF h.kind[item] = "string" THEN Strdup(typed) ELSE typed
      kinded == IF h.kind[item] = "string" /\ Failed(typed, valued) THEN valued
                ELSE SetKind(valued, n, h.kind[item])
      named == IF OwnsKey(h, item) THEN Strdup(kinded) ELSE kinded
  IN IF n = Null THEN new
     ELSE IF kinded.kind[n] = None THEN Result(Delete(kinded, n), Null)
     ELSE IF OwnsKey(h, item) /\ Failed(kinded, named) THEN Result(Delete(named, n), Null)
     ELSE Result([named EXCEPT !.key[n] = h.key[item]], n)

CopyItem(h, item) == FillCopy(h, item, NewItem(h))

\* A state of its loop: parent has got copies of the children before child,
\* the last of them last.
Copying == [heap : HeapType, parent : Items, last : Pointers, child : Pointers, depth : Nat]

Finish(c) == Result(Close(c.heap, c.parent, c.last), c.parent)
GiveUp(h, parent) == Result(Delete(h, parent), Null)

\* The rest of the loop from state c on; copy is the same for the loop of the
\* child's own children and for the turns that follow.
CopyChild(copy, c, new) ==
  LET copied == copy[[heap |-> new.heap, parent |-> new.item, last |-> Null,
                      child |-> c.heap.child[c.child], depth |-> c.depth + 1]]
  IN IF c.child = Null THEN Finish(c)
     ELSE IF c.depth >= CircularLimit THEN GiveUp(c.heap, c.parent)
     ELSE IF new.item = Null THEN GiveUp(new.heap, c.parent)
     ELSE IF copied.item = Null THEN GiveUp(copied.heap, c.parent)
     ELSE copy[[heap |-> Link(copied.heap, c.parent, c.last, copied.item), parent |-> c.parent,
                last |-> copied.item, child |-> c.heap.next[c.child], depth |-> c.depth]]

CopyChildren(copy, c) == CopyChild(copy, c, CopyItem(c.heap, c.child))

\* With at most n allocations left, one for each turn.
Copies ==
  LET copies[n \in Nat] ==
        IF n = 0
        THEN [c \in Copying |-> IF c.child = Null THEN Finish(c) ELSE GiveUp(c.heap, c.parent)]
        ELSE [c \in Copying |-> CopyChildren(copies[n - 1], c)]
  IN copies

Duplicate(h, item, recurse) ==
  LET new == CopyItem(h, item)
  IN IF new.item = Null \/ ~recurse THEN new
     ELSE Copies[new.heap.fuel][[heap |-> new.heap, parent |-> new.item, last |-> Null,
                                 child |-> h.child[item], depth |-> 0]]
-----------------------------------------------------------------------------
(* Changing lists.                                                          *)

DetachItem(h, parent, item) ==
  IF item = Null \/ ~Detachable(h, parent, item) THEN Result(h, Null)
  ELSE Result(DetachItemViaPointer(h, parent, item), item)

DeleteItem(h, parent, item) ==
  LET detached == DetachItem(h, parent, item) IN Delete(detached.heap, detached.item)

InsertItemInArray(h, array, which, item) ==
  LET after == GetArrayItem(h, array, which)
  IN IF after = Null THEN Result(AddItemToArray(h, array, item), item)
     ELSE IF after # h.child[array] /\ h.prev[after] = Null THEN Result(h, Null)
     ELSE Result(InsertBefore(h, array, after, item), item)

ReplaceItem(h, parent, item, by) ==
  IF h.child[parent] = Null \/ item = Null THEN Result(h, Null)
  ELSE IF by = item THEN Result(h, by)
  ELSE Result(Delete(ReplaceItemViaPointer(h, parent, item, by), item), by)

\* The replacement is renamed first, whether or not there is an item to replace.
ReplaceItemInObject(h, object, name, by, exact) ==
  LET freed == [FreeKey(h, by) EXCEPT !.key[by] = None]
      named == Strdup(freed)
      keyed == [named EXCEPT !.key[by] = name, !.const = @ \ {by}]
  IN IF Failed(freed, named) THEN Result(freed, Null)
     ELSE ReplaceItem(keyed, object, GetObjectItem(keyed, object, name, exact), by)

\* A longer text needs a new block; the old one is freed once that is there.
SetValuestring(h, item) ==
  IF ~OwnsValue(h, item) THEN h
  ELSE LET copied == Strdup(h)
       IN IF Failed(h, copied) THEN h ELSE [copied EXCEPT !.texts = @ - 1]
-----------------------------------------------------------------------------
(* The caller.                                                              *)

ListOf(h, p) == IF p \in h.live \ h.ref THEN Chain(h, h.child[p]) ELSE <<>>

Roots == {x \in heap.live : \A p \in Items : x \notin Children(kids, p)}

\* Items no caller and no tree can reach any more.
Lost == Roots \ mine

\* What a walk from x may read.
Reach(h, S) == Closure([x \in Items |-> {h.child[x], h.next[x]} \ {Null}], S)

\* Items from which no walk leads to freed memory.
Readable == {x \in heap.live : Reach(heap, {x}) \subseteq heap.live}

Parents == {p \in heap.live \ heap.ref : heap.kind[p] # "string"}

\* Items that may become children of p.
Addable(p) == {x \in mine : p \notin Owned(kids, x)}

\* A call that makes at most n allocations, of which any may be the first to fail.
Calls(n) == {[heap EXCEPT !.fuel = f] : f \in 0..n}

\* Fuel left over tells nothing: the same call with less of it leaves the same.
Becomes(h) ==
  /\ h.fuel = 0 /\ heap' = h
  /\ kids' = [p \in Items |-> ListOf(h, p)]

Returns(h) == Becomes(h) /\ UNCHANGED mine
Gives(result) == Becomes(result.heap) /\ mine' = mine \cup ({result.item} \ {Null})
Takes(result) == Becomes(result.heap) /\ mine' = mine \ {result.item}

CallCreate == \E h \in Calls(2), kind \in NewKinds : Gives(Create(h, kind))

CallCreateReference ==
  \E h \in Calls(1) :
    \/ Gives(CreateReferenceTo(h, "string", Null))
    \/ \E p \in Parents : heap.child[p] # Null /\ Gives(CreateReferenceTo(h, heap.kind[p], heap.child[p]))

CallCreateArrayOf ==
  \E h \in Calls(MaxFuel), count \in 1..MaxArray : Gives(CreateArrayOf(h, "string", count))

CallAddToArray ==
  \E p \in Parents : \E x \in Addable(p) : Takes(Result(AddItemToArray(heap, p, x), x))

CallAddToObject ==
  \E p \in Parents : \E x \in Addable(p) :
    \/ \E name \in ConstNames :
         Cardinality(heap.const) < heap.room.constants /\ Takes(AddItemToObject(heap, p, name, x, TRUE))
    \/ \E h \in Calls(1), name \in Names : Takes(AddItemToObject(h, p, name, x, FALSE))

CallAddReferenceToArray ==
  \E h \in Calls(1), p \in Parents, item \in heap.live \ Lost :
    LET reference == CreateReference(h, item)
    IN Returns(IF reference.item = Null THEN h
               ELSE AddItemToArray(reference.heap, p, reference.item))

\* A reference whose key cannot be copied is left to nobody.
CallAddReferenceToObject ==
  \E h \in Calls(2), p \in Parents, name \in Names, item \in heap.live \ Lost :
    LET reference == CreateReference(h, item)
    IN Returns(AddItemToObject(reference.heap, p, name, reference.item, FALSE).heap)

CallAddNew ==
  \E h \in Calls(3), p \in Parents, name \in Names, kind \in NewKinds :
    Returns(AddNewToObject(h, p, name, kind).heap)

\* How the calls that change a list find the item: by position, by name or by pointer.
Found(p) ==
  {GetArrayItem(heap, p, i) : i \in 0..Len(kids[p])}
    \cup {GetObjectItem(heap, p, n, exact) : n \in Names \cup ConstNames, exact \in BOOLEAN}

CallDetach ==
  \E p \in Parents : \E item \in Found(p) :
    \/ Gives(DetachItem(heap, p, item))
    \/ Returns(DeleteItem(heap, p, item))

CallInsert ==
  \E p \in Parents : \E which \in 0..Len(kids[p]), x \in Addable(p) :
    Takes(InsertItemInArray(heap, p, which, x))

CallReplace ==
  \E p \in Parents : \E x \in Addable(p) :
    \/ \E item \in Found(p) : Takes(ReplaceItem(heap, p, item, x))
    \/ \E h \in Calls(1), name \in Names, exact \in BOOLEAN :
         Takes(ReplaceItemInObject(h, p, name, x, exact))

CallSetValuestring ==
  \E h \in Calls(1), item \in heap.live \ Lost : Returns(SetValuestring(h, item))

CallDelete == \E x \in mine : Takes(Result(Delete(heap, x), x))

CallDuplicate ==
  \E item \in Readable \ Lost : \E h \in Calls(MaxFuel), recurse \in BOOLEAN :
    Gives(Duplicate(h, item, recurse))

Init ==
  /\ \E room \in Rooms :
     heap = [room |-> room, live |-> {}, ref |-> {}, const |-> {}, texts |-> 0, fuel |-> 0, undefined |-> FALSE,
             next |-> [i \in Items |-> Null], prev |-> [i \in Items |-> Null],
             child |-> [i \in Items |-> Null], kind |-> [i \in Items |-> None],
             key |-> [i \in Items |-> None]]
  /\ kids = [i \in Items |-> <<>>]
  /\ mine = {}

Next ==
  \/ CallCreate \/ CallCreateReference \/ CallCreateArrayOf
  \/ CallAddToArray \/ CallAddToObject \/ CallAddReferenceToArray
  \/ CallAddReferenceToObject \/ CallAddNew
  \/ CallDetach \/ CallInsert \/ CallReplace \/ CallSetValuestring
  \/ CallDelete \/ CallDuplicate

Spec == Init /\ [][Next]_vars
-----------------------------------------------------------------------------
TypeOK ==
  /\ heap.live \subseteq Items /\ heap.ref \subseteq heap.live /\ heap.const \subseteq heap.live
  /\ {heap.next, heap.prev, heap.child} \subseteq [Items -> Pointers]
  /\ heap.kind \in [Items -> Kinds \cup {None}] /\ heap.key \in [Items -> Names \cup ConstNames \cup {None}]
  /\ heap.texts \in Nat /\ heap.fuel = 0 /\ mine \subseteq heap.live

\* Every list is whole after any sequence of calls, its back links and the
\* first item's link to the last included, and what is in no list points
\* nowhere (suffix_object, add_item_to_array, DetachItemViaPointer, ...).
WellLinked ==
  /\ TypeOK
  /\ \A p \in heap.live \ heap.ref : Represents(heap, p, kids[p])
  /\ \A x \in Roots : Loose(heap, x)

\* Deleting what the caller was given frees every item but the lost ones, and
\* none twice, and no call so far has freed one twice: each call that fails
\* leaves its argument to the caller, each that succeeds takes it (cJSON_Delete,
\* the reference flag, the results of cJSON_AddItemToObject, ...).  Nothing is
\* lost but the reference of cJSON_AddItemReferenceToObject whose key could not
\* be copied.  Every key and text has one owner too: what cJSON_Delete would
\* free is what was allocated (the copied flags of create_reference, the key
\* swapped by add_item_to_object and replace_item_in_object).
OwnedOnce ==
  /\ ~heap.undefined
  /\ \A x \in heap.live \ Lost : Cardinality({r \in mine : x \in Owned(kids, r)}) = 1
  /\ \A x \in Lost : x \in heap.ref /\ heap.key[x] = None
  /\ heap.texts = Cardinality({i \in heap.live : OwnsKey(heap, i)})
                    + Cardinality({i \in heap.live : OwnsValue(heap, i)})

\* The running call alone, with all the room it may want.
Trial(f) ==
  LET most == Cardinality(Items)
  IN [heap EXCEPT !.fuel = f,
                  !.room = [items |-> most, references |-> most, texts |-> 2 * most, constants |-> most]]

\* Calls that make something and fail, for want of memory or at the limit of
\* cJSON_Duplicate, leave the heap as it was: no partial array, copy or member
\* stays behind.
FailureRestores ==
  LET h == [f \in 1..MaxFuel |-> Trial(f)]
      Restored(r, f) == r.item = Null => [r.heap EXCEPT !.fuel = f] = h[f]
  IN \A f \in DOMAIN h :
       /\ Restored(CreateArrayOf(h[f], "string", MaxArray), f)
       /\ \A p \in Parents, name \in Names : Restored(AddNewToObject(h[f], p, name, "string"), f)
       /\ \A item \in Readable \cap Roots : Restored(Duplicate(h[f], item, TRUE), f)

\* The pointer code implements the forest of child sequences.
Forest == INSTANCE JsonForest WITH
  held <- heap.live, kids <- kids

ImplementsForest == Forest!Spec
=============================================================================
