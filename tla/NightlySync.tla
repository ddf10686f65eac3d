---------------------------- MODULE NightlySync ----------------------------
(***************************************************************************)
(* The scheduler of the directory synchronisation, which is to start a     *)
(* full sync every day at 2:00 (directory_sync_scheduler.go).              *)
(*                                                                         *)
(* Time may pass between any two steps of the goroutine.  What is counted  *)
(* down (the time until 2:00, a nap, the ticker) stops at 0: the code only *)
(* asks whether it is over.                                                *)
(***************************************************************************)
EXTENDS Naturals

CONSTANTS
  Day,  \* ticks of the clock in a day
  Two,  \* the tick of 2:00
  Nap,  \* the longest sleep of sleepUntilNext2AM, a minute in the code
  Punctual  \* whether timers fire on time and the steps in between take none

VARIABLES
  clock,    \* the time of day
  pc,       \* the goroutine of Start
  left,     \* time until the 2:00 that next2AM has returned
  nap,      \* time until the sleep is over
  ticker,   \* time until the ticker fires
  enabled   \* DirectorySyncConfig.Enabled

vars == <<clock, pc, left, nap, ticker, enabled>>

Init ==
  /\ clock \in 0 .. Day - 1 /\ enabled \in BOOLEAN
  /\ pc = "date" /\ left = 0 /\ nap = 0 /\ ticker = 0

\* next2AM: today's 2:00 if it is still to come, tomorrow's otherwise.
Next2AM(now) == IF now < Two THEN Two - now ELSE Two + Day - now

Date ==
  /\ pc = "date"
  /\ left' = Next2AM(clock)
  /\ pc' = "until"
  /\ UNCHANGED <<clock, nap, ticker, enabled>>

\* time.Until reads the clock again; the wait is over when d <= 0.
Until ==
  /\ pc = "until"
  /\ nap' = IF left < Nap THEN left ELSE Nap
  /\ pc' = IF left = 0 THEN "tick" ELSE "nap"
  /\ left' = 0
  /\ UNCHANGED <<clock, ticker, enabled>>

Wake ==
  /\ pc = "nap" /\ nap = 0
  /\ pc' = "date"
  /\ UNCHANGED <<clock, left, nap, ticker, enabled>>

\* tick asks for the configuration, and syncs or skips the day.
Tick ==
  /\ pc = "tick"
  /\ pc' = IF enabled THEN "sync" ELSE "wait"
  /\ ticker' = Day
  /\ UNCHANGED <<clock, left, nap, enabled>>

Synced ==
  /\ pc = "sync"
  /\ pc' = "wait"
  /\ UNCHANGED <<clock, left, nap, ticker, enabled>>

\* The ticker of 24 hours.
Fire ==
  /\ pc = "wait" /\ ticker = 0
  /\ pc' = "tick"
  /\ UNCHANGED <<clock, left, nap, ticker, enabled>>

Scheduler == Date \/ Until \/ Wake \/ Tick \/ Synced \/ Fire

Down(n) == IF n = 0 THEN 0 ELSE n - 1

Asleep == (pc = "nap" /\ nap > 0) \/ (pc = "wait" /\ ticker > 0)

Advance ==
  /\ Punctual => Asleep
  /\ clock' = (clock + 1) % Day
  /\ left' = Down(left) /\ nap' = Down(nap) /\ ticker' = Down(ticker)
  /\ UNCHANGED <<pc, enabled>>

SetEnabled ==
  /\ enabled' = ~enabled
  /\ UNCHANGED <<clock, pc, left, nap, ticker>>

Next == Scheduler \/ Advance \/ SetEnabled

\* Time goes on and the runtime schedules the goroutine.
Spec == Init /\ [][Next]_vars /\ WF_vars(Scheduler) /\ WF_vars(Advance)

-----------------------------------------------------------------------------
\* "目录同步定时调度器：每天凌晨 2:00 触发一次完整同步": as long as it is switched
\* on, the sync starts again and again.
NightlySyncRuns == <>[]enabled => []<>(pc = "sync")
=============================================================================
