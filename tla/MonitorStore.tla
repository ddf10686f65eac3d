---------------------------- MODULE MonitorStore ----------------------------
(***************************************************************************)
(* The tables of application monitoring and the statements on them         *)
(* (monitor_repo.go).  Each operator is one statement or one transaction.  *)
(***************************************************************************)
EXTENDS Naturals

CONSTANTS
  Clients,  \* client_id
  URLs,     \* addresses that can be probed; "" and Junk cannot
  Junk,
  None      \* no row

VARIABLES
  mon,      \* Clients -> row of sso_app_monitor, or None
  ongoing,  \* Clients -> ids of the incidents that are "ongoing"
  probed,   \* Clients -> statuses in today's rows of sso_app_status_probe
  worst     \* Clients -> worst_status of today's sso_app_status_daily, or None

monVars == <<mon, ongoing, probed, worst>>

Statuses == {"up", "degraded", "down"}
Addresses == URLs \cup {Junk, ""}

Monitors ==
  [enabled : BOOLEAN, url : Addresses, maintenance : BOOLEAN,
   status : Statuses \cup {"no_data"}]

\* What an insert stores: the column default, TRUE, for an enabled that is FALSE.
NewRow(row) == [row EXCEPT !.enabled = TRUE]

\* The configuration that Create, Sync and the startup send.
NewMonitor(url) ==
  [enabled |-> url # "", url |-> url, maintenance |-> FALSE, status |-> "no_data"]

Put(c, row) == [mon EXCEPT ![c] = row]

\* An UPDATE of some columns, which changes nothing when there is no row.
SetColumns(c, row) == IF mon[c] = None THEN mon ELSE Put(c, row)

\* Upsert, whose First has seen the row seen (None: there was none).  Save
\* writes back all of it, with what m says of the switch and the address; the
\* unique index on client_id refuses a second Create.
Upserted(c, seen, m) ==
  IF seen = None THEN IF mon[c] = None THEN Put(c, NewRow(m)) ELSE mon
  ELSE LET row == [seen EXCEPT !.enabled = m.enabled, !.url = m.url]
       IN  Put(c, IF mon[c] = None THEN NewRow(row) ELSE row)

UpdateHealthURL(c, url) ==
  /\ mon' = SetColumns(c, [mon[c] EXCEPT !.url = url])
  /\ UNCHANGED <<ongoing, probed, worst>>

SetMaintenance(c, on) ==
  /\ mon' = SetColumns(c, [mon[c] EXCEPT !.maintenance = on])
  /\ UNCHANGED <<ongoing, probed, worst>>

UpdateStatus(c, status) ==
  /\ mon' = SetColumns(c, [mon[c] EXCEPT !.status = status])
  /\ UNCHANGED <<ongoing, probed, worst>>

\* The configuration, the probes, the days and the incidents in one transaction.
DeleteByClientID(c) ==
  /\ mon' = Put(c, None)
  /\ ongoing' = [ongoing EXCEPT ![c] = {}]
  /\ probed' = [probed EXCEPT ![c] = {}]
  /\ worst' = [worst EXCEPT ![c] = None]

ListEnabled == {c \in Clients : mon[c] # None /\ mon[c].enabled /\ ~mon[c].maintenance}

IsValidHealthURL(url) == url \in URLs

Rank == [up |-> 0, degraded |-> 2, down |-> 3]

\* Mutant of Worse: the latest status counts.
WorseLatest(status, day) == status

\* The worst status of the day after one more probe.
Worse(status, day) ==
  IF day = None \/ Rank[status] > Rank[day] THEN status ELSE day

MonitorTypeOK ==
  /\ mon \in [Clients -> Monitors \cup {None}]
  /\ ongoing \in [Clients -> SUBSET Nat]
  /\ probed \in [Clients -> SUBSET Statuses]
  /\ worst \in [Clients -> Statuses \cup {None}]
=============================================================================
