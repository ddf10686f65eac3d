------------------------- MODULE MCAccountRecovery -------------------------
(* An instance of AccountRecovery for TLC: one application with an account  *)
(* for each of two users.                                                   *)
EXTENDS AccountRecovery, TLC

CONSTANTS p, n1, n2, a1, a2, j1, j2

MCAppOf == (a1 :> p) @@ (a2 :> p)
MCNameOf == (a1 :> n1) @@ (a2 :> n2)
Symmetric == Permutations(Jobs)
TwoPowers == {Powers, {"fetch"}}
============================================================================
