---------------------------- MODULE MCAppMonitor ----------------------------
EXTENDS AppMonitor

CONSTANTS a, j, h1, q1, s1, s2

Row(url) == [active |-> TRUE, policy |-> "all", visible |-> TRUE, sp |-> TRUE,
             secret |-> 0, login |-> url, health |-> url]

MCStartRows == [c \in Clients |-> IF c = j THEN Row("") ELSE Row("x")]
MCStartGrants == [c \in Clients |-> {}]

MCUpdate == {[NoChange EXCEPT !.health = Junk]}
MCEdits == {[enabled |-> FALSE, url |-> Nil], [enabled |-> Nil, url |-> "x"]}

\* Whoever saves the interval reaches the rest of the scheduler through the
\* loop only: a behaviour has either that, or requests and probes by hand, and
\* then requests on a, of those that reach its monitoring.  Two saves overlap
\* while a is under maintenance and the rounds are empty.
NoSaving == /\ stored = FirstInterval /\ interval = FirstInterval /\ chan = 0
            /\ setter = [s \in Setters |-> NoSetter]
NoHands == \A t \in Hands : probe[t].pc = "idle"
OneSaving == /\ started = 0 /\ NoHands /\ setter[s2] = NoSetter
             /\ \A c \in Clients : probed[c] \subseteq {"up"}
TwoSaving == /\ started = 1 /\ mon[a] # None /\ mon[a].maintenance
             /\ mon[a].status = "no_data" /\ mon[a].url = "x"
             /\ \A t \in Probers : probe[t].pc = "idle"
             /\ mixed \subseteq {"interval"}

Focus ==
  /\ NoSaving \/ OneSaving \/ TwoSaving
  /\ \A q \in Requests : req[q].op \in {"idle", "update", "delete", "monitor"}
  /\ mon[j] # None /\ mon[j].enabled /\ ~mon[j].maintenance /\ mon[j].url = ""
  /\ clients[j] = MCStartRows[j]
  /\ \A t \in Hands : probe[t].today /\ probe[t].status # "degraded"
  /\ mixed # {} => /\ \A t \in Probers : probe[t].today /\ probe[t].status # "degraded"
                   /\ started = 2 => crashes = 0

MCSpec == Init /\ [][Next /\ Focus']_vars /\ Fairness
=============================================================================
