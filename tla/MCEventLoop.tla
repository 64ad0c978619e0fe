---------------------------- MODULE MCEventLoop ----------------------------
(* Small instances of EventLoop for TLC. *)
EXTENDS EventLoopInvariant, TLC

CONSTANTS c1, c2, c3  \* model values for the connections

MCClients == {c1, c2}
MCClient == {c1}
MCThreeClients == {c1, c2, c3}
MCOne == {1}
MCOneOrThree == {1, 3}

Symmetry == Permutations(MCThreeClients)
=============================================================================
