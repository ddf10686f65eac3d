--------------------------- MODULE AdminRequests ---------------------------
(***************************************************************************)
(* Requests of administrators that take several statements.  No            *)
(* transaction spans a handler: another request, or a crash, may come      *)
(* between any two of its statements, and what it has read may be stale    *)
(* when it writes.  The modules Organisation, LoginRules and Applications  *)
(* give the operations; they share the requests below.                     *)
(*                                                                         *)
(* A request works on one key, <<kind, id>> (the department tree, a group, *)
(* a login rule, an application).  raced records the keys on which two     *)
(* requests overlapped, or one died half-way: what the properties promise, *)
(* they promise for the other keys.                                        *)
(***************************************************************************)
EXTENDS Naturals, FiniteSets

CONSTANTS
  Requests,     \* goroutines serving administrators
  MaxRequests,  \* bound: requests in a behaviour
  Nil

ASSUME RequestsAssumption == MaxRequests \in Nat

VARIABLES
  req,      \* what each goroutine is doing
  started,  \* requests so far
  raced     \* keys with overlapping or broken-off requests

reqVars == <<req, started, raced>>

Idle == [op |-> "idle", pc |-> "idle", key |-> Nil, in |-> Nil, row |-> Nil,
         seen |-> Nil, todo |-> {}]

RequestsInit ==
  /\ req = [q \in Requests |-> Idle]
  /\ started = 0
  /\ raced = {}

Busy(key) == \E q \in Requests : req[q].key = key

\* Request q takes up key, after the reads that op starts with.
Take(q, op, pc, key, in, row, todo) ==
  /\ req' = [req EXCEPT ![q] = [op |-> op, pc |-> pc, key |-> key, in |-> in,
                                row |-> row, seen |-> Nil, todo |-> todo]]
  /\ raced' = IF \E p \in Requests \ {q} : req[p].key = key
              THEN raced \cup {key} ELSE raced

Begin(q, op, pc, key, in, row, todo) ==
  /\ req[q].pc = "idle" /\ started < MaxRequests
  /\ started' = started + 1
  /\ Take(q, op, pc, key, in, row, todo)

\* A request of one statement: it races with whatever holds the key.
Once(key) ==
  /\ started < MaxRequests
  /\ started' = started + 1
  /\ raced' = IF Busy(key) THEN raced \cup {key} ELSE raced
  /\ UNCHANGED req

\* The id of the key that q works on.
On(q) == req[q].key[2]

At(q, op, pc) == req[q].op = op /\ req[q].pc = pc

Goto(q, pc) ==
  /\ req' = [req EXCEPT ![q].pc = pc]
  /\ UNCHANGED <<started, raced>>

End(q) ==
  /\ req' = [req EXCEPT ![q] = Idle]
  /\ UNCHANGED <<started, raced>>

\* The server dies and is started again: requests under way are lost.
CrashRequests ==
  /\ \E q \in Requests : req[q].pc # "idle"
  /\ req' = [q \in Requests |-> Idle]
  /\ raced' = raced \cup {req[q].key : q \in {p \in Requests : req[p].pc # "idle"}}
  /\ UNCHANGED started
=============================================================================
