----------------------------- MODULE AppMonitor -----------------------------
(***************************************************************************)
(* Application monitoring: the scheduler that probes the addresses of the  *)
(* applications, the probes administrators ask for, the edits of the       *)
(* monitoring configuration and of the applications, and a restart.        *)
(* (monitor/scheduler.go, monitor_repo.go, monitor_handler.go.)            *)
(*                                                                         *)
(* Every probe is a goroutine that works from the row it was given: the    *)
(* status that row had decides whether an incident is opened or closed.    *)
(***************************************************************************)
EXTENDS Applications, Integers, FiniteSetsExt

CONSTANTS
  Hands,       \* goroutines of POST /monitor/apps/:cid/probe
  Slots,       \* the semaphore of runOnce, 16 in the code
  Setters,     \* goroutines that save monitor.interval
  Intervals,   \* values they are sent, the first interval among them
  FirstInterval,
  MonitorEdits,  \* what MonitorHandler.Update is sent
  MaxCrashes   \* bound: restarts in a behaviour

ASSUME MonitorAssumption ==
  /\ Slots \in Nat \ {0} /\ Intervals \subseteq Nat \ {0}
  /\ FirstInterval \in Intervals /\ MaxCrashes \in Nat
  /\ IsFiniteSet(Clients) /\ IsFiniteSet(Hands) /\ Hands \cap Clients = {}
  /\ Nil \notin Clients /\ "interval" \notin Clients
  /\ \A c \in Clients : <<"monitor", c>> # Nil
  /\ MonitorEdits \subseteq [enabled : BOOLEAN \cup {Nil}, url : Addresses \cup {Nil}]

VARIABLES
  probe,     \* Clients \cup Hands -> the probe that goroutine makes
  loop,      \* the goroutine of Start: pc and the period of its ticker
  interval,  \* Scheduler.interval
  chan,      \* intervalCh, of capacity 1: a value, or 0 when empty
  stored,    \* monitor.interval in sso_system_config
  setter,    \* Setters -> a ConfigHandler.Set under way
  mixed,     \* clients on which a probe overlapped another writer, or died;
             \* "interval": two saves of the interval overlapped
  crashes

schedVars == <<probe, loop, interval, chan, stored, setter>>
vars == <<reqVars, orgVars, appVars, monVars, schedVars, mixed, crashes>>

Probers == Clients \cup Hands    \* the scheduler has one goroutine per application

\* url and prev are what ProbeOne uses of the row it is given.
NoProbe == [pc |-> "idle", on |-> Nil, url |-> "", prev |-> None, status |-> None,
            day |-> None, today |-> TRUE, incident |-> 0]
NoSetter == [pc |-> "idle", value |-> 0]

Init ==
  /\ RequestsInit /\ OrgInit /\ AppInit
  /\ probe = [t \in Probers |-> NoProbe]
  /\ loop = [pc |-> "run", ticker |-> 0]
  /\ interval = FirstInterval /\ chan = 0 /\ stored = FirstInterval
  /\ setter = [s \in Setters |-> NoSetter]
  /\ mixed = {} /\ crashes = 0

Probing(c) == {t \in Probers : probe[t].on = c}
Mon(c) == <<"monitor", c>>
\* A creation of the application saves the configuration it has looked for.
Saving(c) == {q \in Requests : \/ req[q].key = Mon(c)
                               \/ At(q, "create", "upsert") /\ On(q) = c}
Quiet(c) == Probing(c) = {} /\ Saving(c) = {}
Mix(c) == mixed' = IF Quiet(c) THEN mixed ELSE mixed \cup {c}

-----------------------------------------------------------------------------
(* A probe *)

Started(c, pc) ==
  [NoProbe EXCEPT !.pc = pc, !.on = c, !.url = mon[c].url, !.prev = mon[c].status]

\* MonitorHandler.Probe answers at once; the goroutine runs ProbeByClientID.
ProbeByClientID(t, c) ==
  /\ probe[t].pc = "idle" /\ mon[c] # None /\ mon[c].url # ""
  /\ Once(<<"probe", c>>)
  /\ probe' = [probe EXCEPT ![t] = Started(c, "http")]
  /\ Mix(c)
  /\ UNCHANGED <<loop, interval, chan, stored, setter, monVars>>

\* The goroutines that hold one of the Slots.
Running == {t \in Clients : probe[t].pc \notin {"idle", "queued"}}

Acquire(t) ==
  /\ probe[t].pc = "queued" /\ Cardinality(Running) < Slots
  /\ probe' = [probe EXCEPT ![t].pc = "http"]
  /\ UNCHANGED <<loop, interval, chan, stored, setter, mixed, monVars>>

\* The answer or the timeout; an address that is no URL cannot be reached.
Http(t) ==
  /\ probe[t].pc = "http"
  /\ \E s \in IF IsValidHealthURL(probe[t].url) THEN Statuses ELSE {"down"} :
       probe' = [probe EXCEPT ![t] = [@ EXCEPT !.pc = "record", !.status = s, !.url = ""]]
  /\ UNCHANGED <<loop, interval, chan, stored, setter, mixed, monVars>>

\* RecordProbe inserts the probe, and UpsertDaily reads the day.
Record(t) ==
  LET c == probe[t].on
  IN  /\ probe[t].pc = "record"
      /\ probe' = [probe EXCEPT ![t].pc = "daily", ![t].day = worst[c]]
      /\ probed' = [probed EXCEPT ![c] = @ \cup {probe[t].status}]
      /\ UNCHANGED <<mon, ongoing, worst>>
      /\ UNCHANGED <<loop, interval, chan, stored, setter, mixed>>

\* UpsertDaily saves the row it read; the unique index on the day refuses a
\* second Create.  A probe from before midnight writes yesterday's row.
UpsertDaily(t) ==
  LET c == probe[t].on
      day == probe[t].day
  IN  /\ probe[t].pc = "daily"
      /\ probe' = [probe EXCEPT ![t] = [@ EXCEPT !.pc = "status", !.day = None,
                                                  !.today = TRUE]]
      /\ worst' = IF ~probe[t].today \/ (day = None /\ worst[c] # None) THEN worst
                  ELSE [worst EXCEPT ![c] = Worse(probe[t].status, day)]
      /\ UNCHANGED <<mon, ongoing, probed>>
      /\ UNCHANGED <<loop, interval, chan, stored, setter, mixed>>

\* Mutant of Then: a probe that is not up closes the incident of a down one.
ThenClosed(status, prev) ==
  IF status = "down" /\ prev # "down" THEN "open"
  ELSE IF prev = "down" THEN "close" ELSE "idle"

\* What record does after UpdateStatus.
Then(status, prev) ==
  IF status = "down" /\ prev # "down" THEN "open"
  ELSE IF status = "up" /\ prev = "down" THEN "close" ELSE "idle"

StatusSet(t) ==
  LET p == probe[t]
      next == Then(p.status, p.prev)
  IN  /\ p.pc = "status"
      /\ UpdateStatus(p.on, p.status)
      /\ probe' = [probe EXCEPT ![t] = IF next = "idle" THEN NoProbe
                                       ELSE [NoProbe EXCEPT !.pc = next, !.on = p.on]]
      /\ UNCHANGED <<loop, interval, chan, stored, setter, mixed>>

\* Incident ids in use; a new one is any other (they only tell rows apart).
InUse == (UNION {ongoing[c] : c \in Clients}) \cup {probe[t].incident : t \in Probers}
NewId == Min((1 .. Cardinality(InUse) + 1) \ InUse)

\* Mutant of OpenIncident: it does not look for one that is open.
OpenIncidentBlind(t) ==
  /\ probe[t].pc = "open"
  /\ probe' = [probe EXCEPT ![t].pc = "create"]
  /\ UNCHANGED <<loop, interval, chan, stored, setter, mixed, monVars>>

\* OpenIncident looks for an incident that is open, CreateIncident inserts one.
OpenIncident(t) ==
  /\ probe[t].pc = "open"
  /\ probe' = [probe EXCEPT ![t] = IF ongoing[@.on] # {} THEN NoProbe
                                   ELSE [@ EXCEPT !.pc = "create"]]
  /\ UNCHANGED <<loop, interval, chan, stored, setter, mixed, monVars>>

CreateIncident(t) ==
  /\ probe[t].pc = "create"
  /\ ongoing' = [ongoing EXCEPT ![probe[t].on] = @ \cup {NewId}]
  /\ probe' = [probe EXCEPT ![t] = NoProbe]
  /\ UNCHANGED <<loop, interval, chan, stored, setter, mixed, mon, probed, worst>>

\* CloseIncident reads the first that is open, SaveIncident resolves that one.
CloseIncident(t) ==
  /\ probe[t].pc = "close"
  /\ probe' = [probe EXCEPT ![t] =
                 IF ongoing[@.on] = {} THEN NoProbe
                 ELSE [@ EXCEPT !.pc = "resolve", !.incident = Min(ongoing[probe[t].on])]]
  /\ UNCHANGED <<loop, interval, chan, stored, setter, mixed, monVars>>

SaveIncident(t) ==
  /\ probe[t].pc = "resolve"
  /\ ongoing' = [ongoing EXCEPT ![probe[t].on] = @ \ {probe[t].incident}]
  /\ probe' = [probe EXCEPT ![t] = NoProbe]
  /\ UNCHANGED <<loop, interval, chan, stored, setter, mixed, mon, probed, worst>>

ProbeStep(t) ==
  \/ Acquire(t) \/ Http(t) \/ Record(t) \/ UpsertDaily(t) \/ StatusSet(t)
  \/ OpenIncident(t) \/ CreateIncident(t) \/ CloseIncident(t) \/ SaveIncident(t)

\* Midnight: the rows of the day before are no longer today's.
NewDay ==
  /\ \E c \in Clients : probed[c] # {}
  /\ probed' = [c \in Clients |-> {}] /\ worst' = [c \in Clients |-> None]
  /\ probe' = [t \in Probers |-> IF probe[t].pc = "daily"
                                 THEN [probe[t] EXCEPT !.today = FALSE] ELSE probe[t]]
  /\ UNCHANGED <<loop, interval, chan, stored, setter, mixed, mon, ongoing>>

-----------------------------------------------------------------------------
(* The loop of Start *)

\* Mutant of Targets: the first address that is no URL ends the round.
TargetsUntilBad ==
  IF \E c \in ListEnabled : ~IsValidHealthURL(mon[c].url) THEN {} ELSE ListEnabled

\* The rows of ListEnabled that runOnce gives a goroutine.
Targets == {c \in ListEnabled : IsValidHealthURL(mon[c].url)}

RunOnce ==
  /\ loop.pc = "run"
  /\ probe' = [t \in Probers |-> IF t \in Targets THEN Started(t, "queued") ELSE probe[t]]
  /\ loop' = [loop EXCEPT !.pc = "round"]
  /\ mixed' = mixed \cup {c \in Targets : ~Quiet(c)}
  /\ UNCHANGED <<interval, chan, stored, setter, monVars>>

\* wg.Wait; after the first round the ticker is made.
RoundOver ==
  /\ loop.pc = "round" /\ \A t \in Clients : probe[t].pc = "idle"
  /\ loop' = [pc |-> "select", ticker |-> IF loop.ticker = 0 THEN interval ELSE loop.ticker]
  /\ UNCHANGED <<probe, interval, chan, stored, setter, mixed, monVars>>

Tick ==
  /\ loop.pc = "select"
  /\ loop' = [loop EXCEPT !.pc = "run"]
  /\ UNCHANGED <<probe, interval, chan, stored, setter, mixed, monVars>>

\* A new period replaces the ticker, and a round follows at once.
NewTicker ==
  /\ loop.pc = "select" /\ chan # 0
  /\ loop' = [pc |-> "run", ticker |-> chan]
  /\ chan' = 0
  /\ UNCHANGED <<probe, interval, stored, setter, mixed, monVars>>

Loop == RunOnce \/ RoundOver \/ Tick \/ NewTicker

-----------------------------------------------------------------------------
(* ConfigHandler.Set and SetInterval *)

At_(s, pc) == setter[s].pc = pc
Step(s, pc) == setter' = [setter EXCEPT ![s].pc = pc]
Done(s) == setter' = [setter EXCEPT ![s] = NoSetter]
Rest == UNCHANGED <<probe, mixed, monVars>>

SetConfig(s, v) ==
  /\ At_(s, "idle")
  /\ stored' = v
  /\ setter' = [setter EXCEPT ![s] = [pc |-> "lock", value |-> v]]
  /\ mixed' = IF \A p \in Setters : At_(p, "idle") THEN mixed
              ELSE mixed \cup {"interval"}
  /\ UNCHANGED <<loop, interval, chan, probe, monVars>>

SetInterval(s) ==
  /\ At_(s, "lock")
  /\ interval' = setter[s].value
  /\ IF interval = setter[s].value THEN Done(s) ELSE Step(s, "send")
  /\ UNCHANGED <<loop, chan, stored>> /\ Rest

\* Mutant of Send: the channel is full and the value is dropped.
SendOrDrop(s) ==
  /\ At_(s, "send")
  /\ chan' = IF chan = 0 THEN setter[s].value ELSE chan
  /\ Done(s)
  /\ UNCHANGED <<loop, interval, stored>> /\ Rest

Send(s) ==
  /\ At_(s, "send")
  /\ IF chan = 0 THEN chan' = setter[s].value /\ Done(s)
     ELSE Step(s, "drain") /\ UNCHANGED chan
  /\ UNCHANGED <<loop, interval, stored>> /\ Rest

Drain(s) ==
  /\ At_(s, "drain")
  /\ chan' = 0
  /\ Step(s, "push")
  /\ UNCHANGED <<loop, interval, stored>> /\ Rest

\* Blocks while the channel is full.
Push(s) ==
  /\ At_(s, "push") /\ chan = 0
  /\ chan' = setter[s].value
  /\ Done(s)
  /\ UNCHANGED <<loop, interval, stored>> /\ Rest

SetterStep(s) == SetInterval(s) \/ Send(s) \/ Drain(s) \/ Push(s)

-----------------------------------------------------------------------------
(* MonitorHandler *)

Unmixed == UNCHANGED mixed
NoTables == UNCHANGED <<ongoing, probed, worst>>

\* Update: Get and the changes, then Upsert's First and its Save.
UpdateMonitoring(q, c, in) ==
  /\ mon[c] # None
  /\ Begin(q, "monitor", "first", Mon(c),
           [enabled |-> Given(in.enabled, mon[c].enabled), url |-> Given(in.url, mon[c].url),
            maintenance |-> mon[c].maintenance, status |-> mon[c].status], Nil, {})
  /\ Mix(c) /\ UNCHANGED monVars

UpsertFirst(q) ==
  LET c == On(q)
  IN  /\ At(q, "monitor", "first")
      /\ req' = [req EXCEPT ![q] = [@ EXCEPT !.pc = "upsert", !.seen = mon[c]]]
      /\ UNCHANGED <<started, raced, monVars>> /\ Unmixed

\* Sync goes on with the next application; Update is over.
UpsertWrite(q) ==
  LET c == On(q)
  IN  /\ At(q, "monitor", "upsert")
      /\ mon' = Upserted(c, req[q].seen, req[q].in)
      /\ IF req[q].todo = {} THEN End(q)
         ELSE /\ req' = [req EXCEPT ![q] = [@ EXCEPT !.pc = "sync", !.key = Nil]]
              /\ UNCHANGED <<started, raced>>
      /\ Unmixed /\ NoTables

\* Sync reads the applications, and then looks at them one by one.
SyncList(q) ==
  LET all == {c \in Clients \ {AdminConsole} : Registered(c)}
  IN  /\ all # {}
      /\ Begin(q, "monitor", "sync", Nil, Nil, [c \in all |-> clients[c].health], all)
      /\ Unmixed /\ UNCHANGED monVars

SyncGet(q, c) ==
  LET r == req[q]
      rest == r.todo \ {c}
  IN  /\ At(q, "monitor", "sync") /\ c \in r.todo
      /\ req' = [req EXCEPT ![q] =
                   IF mon[c] = None
                   THEN [r EXCEPT !.pc = "first", !.key = Mon(c), !.todo = rest,
                                  !.in = NewMonitor(r.row[c])]
                   ELSE IF rest = {} THEN Idle ELSE [r EXCEPT !.todo = rest]]
      /\ IF mon[c] = None THEN Mix(c) ELSE Unmixed
      /\ UNCHANGED <<started, raced, monVars>>

Maintenance(c, on) ==
  /\ mon[c] # None
  /\ Once(Mon(c)) /\ SetMaintenance(c, on)
  /\ Unmixed

\* Delete, and every element of BatchDelete.
DeleteMonitoring(c) ==
  /\ Once(Mon(c)) /\ DeleteByClientID(c)
  /\ Mix(c)

MonitorRequest ==
  \/ \E q \in Requests :
       \/ \E c \in Clients : \/ SyncGet(q, c)
                             \/ \E in \in MonitorEdits : UpdateMonitoring(q, c, in)
       \/ UpsertFirst(q) \/ UpsertWrite(q) \/ SyncList(q)
  \/ \E c \in Clients : DeleteMonitoring(c) \/ \E on \in BOOLEAN : Maintenance(c, on)

-----------------------------------------------------------------------------
\* The process dies.  The next one adds the configurations that are missing,
\* and takes the interval from the database.
Restart ==
  /\ crashes < MaxCrashes /\ crashes' = crashes + 1
  /\ req' = [q \in Requests |-> Idle]
  /\ raced' = raced \cup {req[q].key : q \in Requests} /\ UNCHANGED started
  /\ mixed' = (mixed \ {"interval"}) \cup {c \in Clients : ~Quiet(c)}
  /\ probe' = [t \in Probers |-> NoProbe]
  /\ loop' = [pc |-> "run", ticker |-> 0]
  /\ interval' = stored /\ chan' = 0 /\ setter' = [s \in Setters |-> NoSetter]
  /\ mon' = [c \in Clients |-> IF Registered(c) /\ mon[c] = None
                               THEN NewRow(NewMonitor(clients[c].health)) ELSE mon[c]]
  /\ UNCHANGED <<stored, ongoing, probed, worst, orgVars, appVars>>

Scheduling ==
  \/ Loop
  \/ \E t \in Probers : ProbeStep(t)
  \/ NewDay
  \/ \E s \in Setters : SetterStep(s) \/ \E v \in Intervals : SetConfig(s, v)

\* The statements of Create, Update and Delete on an application; one that
\* changes the tables while a probe or a save is under way mixes with it.
AppStep ==
  /\ AppNext
  /\ UNCHANGED <<schedVars, crashes>>
  /\ mixed' = mixed \cup {c \in Clients : \/ mon'[c] # mon[c] /\ ~Quiet(c)'
                                          \/ ~Quiet(c) /\ Saving(c)' \ Saving(c) # {}}

Next ==
  \/ Scheduling /\ UNCHANGED <<reqVars, orgVars, appVars, crashes>>
  \/ MonitorRequest /\ UNCHANGED <<schedVars, orgVars, appVars, crashes>>
  \/ /\ \E t \in Hands, c \in Clients : ProbeByClientID(t, c)
     /\ UNCHANGED <<orgVars, appVars, crashes>>
  \/ AppStep
  \/ Restart

\* The runtime schedules every goroutine, a probe has a timeout and a ticker
\* fires again: the loop, the probes and the setters go on.  A select chooses
\* at random and does not pass the channel over for ever.
Fairness ==
  /\ WF_vars(Loop /\ UNCHANGED <<reqVars, orgVars, appVars, crashes>>)
  /\ SF_vars(NewTicker /\ UNCHANGED <<reqVars, orgVars, appVars, crashes>>)
  /\ \A t \in Probers : WF_vars(ProbeStep(t) /\ UNCHANGED <<reqVars, orgVars, appVars, crashes>>)
  /\ \A s \in Setters : WF_vars(SetterStep(s) /\ UNCHANGED <<reqVars, orgVars, appVars, crashes>>)

Spec == Init /\ [][Next]_vars /\ Fairness

-----------------------------------------------------------------------------
\* Probes of one application that overlap can open an incident each, as
\* OpenIncident looks and then inserts; never more than there are goroutines
\* probing, however many outages, restarts and deletions there are.
OngoingBounded ==
  \A c \in Clients : Cardinality(ongoing[c]) <= Cardinality(Hands) + 1

\* When probes and edits of an application have not overlapped, one that is
\* shown as down has an incident, through degraded answers, maintenance, a
\* changed address and restarts: the transition from down is not lost although
\* prev is the status of the row read before the probe.
DownHasIncident ==
  \A c \in Clients : c \notin mixed /\ Quiet(c) /\ mon[c] # None =>
    (mon[c].status = "down" => ongoing[c] # {})

\* The row of the day says the worst of the probes recorded that day.
DayAgrees ==
  \A c \in Clients : c \notin mixed /\ Quiet(c) =>
    IF probed[c] = {} THEN worst[c] = None
    ELSE worst[c] \in probed[c] /\ \A s \in probed[c] : Rank[s] <= Rank[worst[c]]

\* When nobody is saving the interval and the loop has taken what it was sent,
\* its ticker has the interval that is stored, however often it was saved and
\* whatever the loop was doing ("drain 再塞一次，让消费者用到最新值"); unless two
\* saves overlapped since the last restart, which may leave either value.
IntervalAgrees ==
  "interval" \notin mixed /\ (\A s \in Setters : setter[s].pc = "idle") /\ chan = 0 /\ loop.ticker # 0
    => loop.ticker = interval /\ interval = stored

Watched(c) ==
  mon[c] # None /\ mon[c].enabled /\ ~mon[c].maintenance /\ mon[c].url \in URLs

\* An application that stays enabled, out of maintenance, with an address that
\* can be probed, is probed again and again, whatever the other rows hold; who
\* saves the interval comes to an end or to the channel, and the channel is
\* emptied again and again, so that nobody waits for a value nobody takes.
ProbedAgain ==
  /\ \A c \in Clients : []<>(~Watched(c) \/ probe[c].pc = "http")
  /\ \A s \in Setters : []<>(setter[s].pc \in {"idle", "push"})
  /\ []<>(chan = 0)
=============================================================================
