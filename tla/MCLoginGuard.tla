----------------------------- MODULE MCLoginGuard -----------------------------
(* Instances of LoginGuard for TLC. *)
EXTENDS LoginGuard, TLC

CONSTANTS u1, r1, r2, r3

\* One user with a user name and an e-mail, and a name nobody owns.
OneOwner == [n \in Names |-> IF n = "ghost" THEN Nobody ELSE u1]

LdapBad == {<<"alice", "bad">>}

Symmetry == Permutations(Requests)

\* Bound on the counters of names that can never be locked.
MaxFails == LockThreshold + Cardinality(Requests) - 1
NoHandBans == manualBan = {}
FewFails == \A n \in Names : userFail[n].n <= MaxFails
=============================================================================
