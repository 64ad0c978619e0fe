----------------------------- MODULE MCRouting -----------------------------
(***************************************************************************)
(* Texts for the buffers of the code, at and around the lengths where they *)
(* are cut.                                                                *)
(***************************************************************************)
EXTENDS Routing

CONSTANTS a, b, h1, h2

Plainly(stem, n) == [slashes |-> 0, stem |-> IF n = 0 THEN None ELSE stem, size |-> n]
WithSlashes(k, stem, n) == [Plainly(stem, n) EXCEPT !.slashes = k]

MCMethods == {Plainly(a, 3), Plainly(a, 7), Plainly(a, 8)}
MCPaths ==
  {WithSlashes(k, a, n) : k \in 0 .. 1, n \in {0, 1, 254, 255, 256}}
    \cup {WithSlashes(2, a, n) : n \in {1, 255}} \cup {WithSlashes(1, b, 1), WithSlashes(1, b, 254)}
=============================================================================
