----------------------------- MODULE MCManager -----------------------------
(* Instances of Manager for TLC.  One kart and one waiting caller; a       *)
(* single connection for liveness, two for everything a reconnect can do.  *)
EXTENDS Manager, TLC

CONSTANTS c1, c2, k1, w1

Single     == c1 :> k1
Reconnect  == (c1 :> k1) @@ (c2 :> k1)
WaitForOne == w1 :> {k1}

Symmetry == Permutations({c1, c2})

=============================================================================
