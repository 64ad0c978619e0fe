------------------------- MODULE MCServerLifecycle -------------------------
(* Small instances of ServerLifecycle for TLC. *)
EXTENDS ServerLifecycle, TLC

CONSTANTS s1, s2   \* model values for the addresses of servers

MCServers == {s1, s2}
MCServer == {s1}

Symmetry == Permutations(MCServers)
=============================================================================
