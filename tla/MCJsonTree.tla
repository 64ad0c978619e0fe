------------------------------ MODULE MCJsonTree ------------------------------
(***************************************************************************)
(* Bounds of JsonTree for TLC: lists of up to four items, which is the     *)
(* fewest in which one of two siblings is replaced or inserted before;     *)
(* trees of three with a reference, a text and a constant key; and trees   *)
(* of three with two texts.                                                *)
(***************************************************************************)
EXTENDS JsonCompare

Room(items, references, texts, constants) ==
  [items |-> items, references |-> references, texts |-> texts, constants |-> constants]

MCRooms == {Room(4, 0, 0, 0), Room(3, 1, 1, 1), Room(3, 0, 2, 0)}
=============================================================================
