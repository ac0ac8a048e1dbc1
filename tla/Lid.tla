----------------------------------- MODULE Lid -----------------------------------
(***************************************************************************)
(* The lid of a Mac (monitor/lid_darwin.go and lid_events_darwin.go): the      *)
(* notifications of the kernel, which come on a thread of their own, beside     *)
(* the readings that are taken every two seconds.                            *)
(***************************************************************************)
EXTENDS Integers, Sequences

CONSTANTS
  Room,      \* notifications that wait: 8
  MaxMoves   \* times the lid is moved

VARIABLES
  open,        \* the lid
  pc,          \* "subscribe", "baseline", "watch", "read", "over"
  reading,     \* what the reading under way has come to
  events,      \* notifications that wait
  last,        \* stateWatch.last
  subscribed,  \* whether notifications come
  moves,
  closings,    \* history: times the lid was closed since the baseline was taken
  alarms,      \* history: alerts that say so
  lost         \* history: whether a notification found no room

vars == <<open, pc, reading, events, last, subscribed, moves, closings, alarms, lost>>

Init ==
  /\ open \in BOOLEAN /\ pc = "subscribe" /\ reading = TRUE
  /\ events = <<>> /\ last = TRUE /\ subscribed = FALSE
  /\ moves = 0 /\ closings = 0 /\ alarms = 0 /\ lost = FALSE

\* Mutant: a notification that finds no room takes the place of those that wait.
DeliverLatest(now) ==
  /\ events' = IF Len(events) < Room THEN Append(events, now) ELSE <<now>>
  /\ UNCHANGED lost

\* deliverLidEvent: what finds no room is dropped.
Deliver(now) ==
  IF Len(events) < Room
  THEN events' = Append(events, now) /\ UNCHANGED lost
  ELSE lost' = TRUE /\ UNCHANGED events

\* Somebody moves the lid, and a subscription there is hears of it.
Move ==
  /\ moves < MaxMoves /\ moves' = moves + 1
  /\ open' = ~open
  /\ IF subscribed THEN Deliver(~open) ELSE UNCHANGED <<events, lost>>
  /\ closings' = IF open /\ pc \in {"watch", "read"} THEN closings + 1 ELSE closings
  /\ UNCHANGED <<pc, reading, last, subscribed, alarms>>

\* subscribeLid, which waits until the notifications come; it may fail.
Subscribe ==
  /\ pc = "subscribe"
  /\ \/ pc' = "baseline" /\ subscribed' = TRUE
     \/ pc' = "over" /\ UNCHANGED subscribed
  /\ UNCHANGED <<open, reading, events, last, moves, closings, alarms, lost>>

Baseline ==
  /\ pc = "baseline"
  /\ \/ pc' = "watch" /\ last' = open
     \/ pc' = "over" /\ UNCHANGED last
  /\ subscribed' = (pc' # "over")
  /\ UNCHANGED <<open, reading, events, moves, closings, alarms, lost>>

\* report
Report(now) ==
  /\ last' = now
  /\ alarms' = IF last /\ ~now THEN alarms + 1 ELSE alarms

TakeEvent ==
  /\ pc = "watch" /\ events # <<>>
  /\ events' = Tail(events)
  /\ Report(Head(events))
  /\ UNCHANGED <<open, pc, reading, subscribed, moves, closings, lost>>

\* The ticker: ioreg is asked, which takes time, and may not answer.
Tick ==
  /\ pc = "watch"
  /\ pc' = "read" /\ reading' = open
  /\ UNCHANGED <<open, events, last, subscribed, moves, closings, alarms, lost>>

\* Mutant: once notifications come, what a tick reads is thrown away.
ReadIgnored ==
  /\ pc = "read" /\ pc' = "watch"
  /\ UNCHANGED <<open, reading, events, last, subscribed, moves, closings, alarms, lost>>

ReadAnswers ==
  /\ pc = "read" /\ pc' = "watch"
  /\ Report(reading)
  /\ UNCHANGED <<open, reading, events, subscribed, moves, closings, lost>>

ReadFails ==
  /\ pc = "read" /\ pc' = "watch"
  /\ UNCHANGED <<open, reading, events, last, subscribed, moves, closings, alarms, lost>>

\* The watch is over, or the notifications have stopped; observe takes itself down.
Cancel ==
  /\ pc = "watch" /\ pc' = "over"
  /\ subscribed' = FALSE
  /\ UNCHANGED <<open, reading, events, last, moves, closings, alarms, lost>>

Next ==
  Move \/ Subscribe \/ Baseline \/ TakeEvent \/ Tick \/ ReadAnswers \/ ReadFails \/ Cancel

Spec == Init /\ [][Next]_vars

\* The loop goes on, the ticker ticks, and ioreg answers every so often.
FairSpec ==
  Spec /\ WF_vars(Subscribe) /\ WF_vars(Baseline) /\ SF_vars(TakeEvent) /\ SF_vars(Tick) /\ SF_vars(ReadAnswers)

-----------------------------------------------------------------------------
\* The theorems ask this of the constants.
ConstantsOK == Room \in Nat /\ MaxMoves \in Nat

TypeOK ==
  /\ pc \in {"subscribe", "baseline", "watch", "read", "over"}
  /\ Len(events) <= Room /\ moves \in 0 .. MaxMoves

\* A lid that is closed and opened again between two readings is an alarm all the same:
\* once no notification is lost or waiting, no closing since the baseline has gone
\* unspoken.  (LidSensor.Start: subscribed before the baseline is read.)
EveryClosingIsHeard ==
  [][pc' = "watch" /\ events' = <<>> /\ ~lost' => alarms' >= closings']_vars

\* Whatever was lost, the loop ends up knowing where the lid is, unless it has ended.
\* (deliverLidEvent: "The polling fallback also refreshes the state.")
KnowsTheLid == <>[](pc = "over" \/ last = open)
=============================================================================
