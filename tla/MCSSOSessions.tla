--------------------------- MODULE MCSSOSessions ---------------------------
(* Instances of SSOSessions for TLC. *)
EXTENDS SSOSessions, TLC

CONSTANTS b1, b2, u1, u2, s1, s2, s3, t1, t2, c1, c2, r1, r2

OpenRow == [active |-> TRUE, sp |-> TRUE, policy |-> "all"]
AssignedRow == [active |-> TRUE, sp |-> TRUE, policy |-> "assigned"]
ClosedRow == [active |-> FALSE, sp |-> TRUE, policy |-> "all"]

Rows2 == {OpenRow, AssignedRow}
Symmetric == Permutations(Sids) \cup Permutations(Tickets)
             \cup Permutations(Requests) \cup Permutations(Users)
             \cup Permutations(Browsers)
============================================================================
