------------------------------ MODULE MCTickets ------------------------------
(* Small instances of Tickets and WeComLogin for TLC. *)
EXTENDS Tickets, TLC

CONSTANTS i1, i2, u1, u2, u3, u4, m1, m2, t1, t2, r1, r2

OneMail == [i \in Ids |-> IF i = i1 THEN m1 ELSE NoMail]
SameBase == [i \in Ids |-> "ann"]
Row(d, m, k) == [on |-> TRUE, dom |-> d, mail |-> m, barred |-> FALSE,
                 placed |-> FALSE, name |-> [base |-> "ann", k |-> k]]
\* u1 holds an address, u2 came with the directory sync as member i2 or not.
TwoUsers == {[u \in Users |-> IF u = u1 THEN Row(NoId, m1, 0)
                              ELSE IF u = u2 THEN Row(d, m2, 1) ELSE NoRow] :
               d \in {i2, NoId}}
TicketApart == [t \in Tokens |-> IF t = t2 THEN {"ticket"} ELSE Kinds \ {"ticket"}]
Symmetric == Permutations({r1, r2}) \cup Permutations({u3, u4})
=============================================================================
