--------------------------- MODULE MCDirectorySync ---------------------------
(* Instances of DirectorySync for TLC. *)
EXTENDS DirectorySync, TLC

CONSTANTS e1, e2, u1, u2, u3, u4, j1, j2,
  MaxJobs,   \* jobs started in a behaviour
  MaxActs    \* acts of administrators and logins, and failures

VARIABLES jobs, acts

\* Two remote users whose names normalise to the same user name.
TwoSources == [e \in Ext |-> IF e = e1 THEN "bob" ELSE "bob!"]
OneBase == [e \in Ext |-> "bob"]
OneEmail == [e \in Ext |-> IF e = e1 THEN "mail" ELSE None]
Bob == {<<"bob", <<>>>>}

\* Everything may happen to e1; e2 comes and goes.
ManySnapshots == {snap \in [Ext -> States] : snap[e2] \in {"absent", "active"}}
NobodyLeaves == {[e \in Ext |-> "active"]}

Symmetry == Permutations(Jobs)

MCInit == Init /\ jobs = 0 /\ acts = 0

\* The bounds are used up and every job is done.
Exhausted ==
  /\ jobs = MaxJobs /\ acts = MaxActs
  /\ edit = NoEdit /\ writer = NoWriter /\ \A j \in Jobs : job[j] = Idle

MCNext ==
  \/ Work /\ UNCHANGED <<jobs, acts>>
  \/ Arrive /\ jobs < MaxJobs /\ jobs' = jobs + 1 /\ UNCHANGED acts
  \/ (Administer \/ Fail) /\ acts < MaxActs /\ acts' = acts + 1 /\ UNCHANGED jobs
  \/ Exhausted /\ UNCHANGED <<vars, jobs, acts>>

MCSpec == MCInit /\ [][MCNext]_<<vars, jobs, acts>>
MCFairSpec == MCSpec /\ Fairness
=============================================================================
