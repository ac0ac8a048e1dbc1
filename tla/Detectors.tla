------------------------------- MODULE Detectors -------------------------------
(***************************************************************************)
(* The loops that turn readings into alerts, apart from the supervisor that  *)
(* runs them (Sensors).                                                      *)
(*                                                                         *)
(* "edge" is monitor/poll.go over state_watch.go: the charger, the lid and    *)
(* the display.  "devices" is usb_linux.go, "profile" usb_darwin.go,          *)
(* "network" network.go.  "ticks" is the input sensor of Linux and Windows,   *)
(* "idle" that of macOS, both with the rule of input_activity.go.             *)
(* A reading of the first four is a set of things that are there, or          *)
(* Unreadable; one of the others says whether somebody was at the machine.    *)
(***************************************************************************)
EXTENDS Integers, Sequences, FiniteSets

CONSTANTS
  Things,     \* what there may be to see
  Thresholds, \* input_threshold
  Left,       \* quiet readings after which the machine counts as left alone: 5
  MaxSeen,    \* readings in a run of the first four
  MaxSeconds  \* and of the input sensors

\* What the proofs ask of them.
ConstantsOK ==
  /\ "unreadable" \notin Things
  /\ \A t \in Thresholds : t \in Nat \ {0}
  /\ Left \in Nat \ {0} /\ MaxSeen \in Nat /\ MaxSeconds \in Nat

Kinds == {"edge", "devices", "profile", "network", "ticks", "idle"}
Unreadable == {"unreadable"}
Readings == SUBSET Things \cup {Unreadable}

VARIABLES
  kind,
  threshold,
  pc,        \* "start", "grace", "watch"; "failed" when the loop returned an error
  last,      \* stateWatch.last, lastDevices, lastHash, lastSnapshot
  activity,  \* activityWatch
  seen,      \* the readings of this run, the baseline first
  raised,    \* its alerts: after which reading, and what it says
  hand,      \* history: somebody was at the machine since the grace period
  before     \* somebody was at it between the last reading and the one to come

vars == <<kind, threshold, pc, last, activity, seen, raised, hand, before>>

Still == [busy |-> 0, quiet |-> 0, alerted |-> FALSE]
Watches == kind \notin {"ticks", "idle"}

Init ==
  /\ kind \in Kinds
  /\ threshold \in IF kind \in {"ticks", "idle"} THEN Thresholds ELSE {1}
  /\ pc = "start" /\ last = {} /\ activity = Still
  /\ seen = <<>> /\ raised = {} /\ hand = FALSE /\ before = FALSE

-----------------------------------------------------------------------------
(***************************************************************************)
(* The charger, the lid, the display, the USB devices and the addresses.     *)
(***************************************************************************)
Baseline(r) ==
  /\ Watches /\ pc = "start"
  /\ IF r = Unreadable /\ kind # "network"
     THEN pc' = "failed" /\ UNCHANGED <<last, seen>>
     ELSE pc' = "watch" /\ last' = r /\ seen' = <<r>>
  /\ UNCHANGED <<kind, threshold, activity, raised, hand, before>>

\* What a reading is worth saying, after the one before it: for USB on Linux one alert
\* for every device, for the rest one for the change.
Alerts(r) ==
  CASE kind = "devices" -> {<<"removed", d>> : d \in last \ r} \cup {<<"connected", d>> : d \in r \ last}
    [] OTHER -> IF r = last THEN {} ELSE {<<"now", r>>}

At(i, alerts) == {<<i>> \o a : a \in alerts}

\* Mutant: an unreadable poll drops the baseline.
ReadDropping(r) ==
  /\ Watches /\ pc = "watch" /\ Len(seen) < MaxSeen
  /\ seen' = Append(seen, r)
  /\ IF r = Unreadable /\ kind # "network"
     THEN last' = {} /\ UNCHANGED raised
     ELSE /\ raised' = raised \cup At(Len(seen'), Alerts(r))
          /\ last' = r
  /\ UNCHANGED <<kind, threshold, pc, activity, hand, before>>

\* An unreadable poll is passed over, except by network.go, to which it is a reading
\* like another.
Read(r) ==
  /\ Watches /\ pc = "watch" /\ Len(seen) < MaxSeen
  /\ seen' = Append(seen, r)
  /\ IF r = Unreadable /\ kind # "network"
     THEN UNCHANGED <<last, raised>>
     ELSE /\ raised' = raised \cup At(Len(seen'), Alerts(r))
          /\ last' = r
  /\ UNCHANGED <<kind, threshold, pc, activity, hand, before>>

-----------------------------------------------------------------------------
(***************************************************************************)
(* The keyboard and the mouse.                                              *)
(***************************************************************************)
\* Arming: on Linux and Windows what the clock says now is the baseline.
StartInput ==
  /\ ~Watches /\ pc = "start"
  /\ pc' = "grace"
  /\ UNCHANGED <<kind, threshold, last, activity, seen, raised, hand, before>>

\* Five seconds in which nothing is read.  What was touched in them has moved the clock
\* past the baseline; on macOS the idle time still shows what was touched at their end.
Grace(touched) ==
  /\ pc = "grace"
  /\ pc' = "watch" /\ before' = touched
  /\ UNCHANGED <<kind, threshold, last, activity, seen, raised, hand>>

\* Mutant: an alert is over with the first quiet reading.
SampleForgetful(w, busy) ==
  IF ~busy THEN [busy |-> 0, quiet |-> w.quiet + 1, alerted |-> FALSE]
  ELSE IF w.alerted THEN [w EXCEPT !.quiet = 0]
  ELSE IF w.busy + 1 < threshold THEN [busy |-> w.busy + 1, quiet |-> 0, alerted |-> FALSE]
  ELSE [busy |-> 0, quiet |-> 0, alerted |-> TRUE]

\* activityWatch.sample; a reading raises an alert when it makes "alerted" true.
Sample(w, busy) ==
  IF ~busy THEN [busy |-> 0, quiet |-> w.quiet + 1, alerted |-> w.alerted /\ w.quiet + 1 < Left]
  ELSE IF w.alerted THEN [w EXCEPT !.quiet = 0]
  ELSE IF w.busy + 1 < threshold THEN [busy |-> w.busy + 1, quiet |-> 0, alerted |-> FALSE]
  ELSE [busy |-> 0, quiet |-> 0, alerted |-> TRUE]

\* Mutant: the tick that was read does not become the next one's baseline.
TickStale(touched, answered) ==
  LET busy == answered /\ (touched \/ before) IN
  /\ ~Watches /\ pc = "watch" /\ Len(seen) < MaxSeconds
  /\ kind = "ticks" => answered
  /\ seen' = Append(seen, busy)
  /\ activity' = Sample(activity, busy)
  /\ raised' = IF activity'.alerted /\ ~activity.alerted THEN raised \cup {<<Len(seen')>>} ELSE raised
  /\ hand' = (hand \/ touched)
  /\ before' = (IF kind = "idle" THEN touched ELSE busy)
  /\ UNCHANGED <<kind, threshold, pc, last>>

\* A second goes by and the clock is read.  The first reading of the tick counter answers
\* for the grace period too; an idle time below two seconds answers for the second before.
\* ioreg may not answer, which counts as quiet.
Tick(touched, answered) ==
  LET busy == answered /\ (touched \/ before) IN
  /\ ~Watches /\ pc = "watch" /\ Len(seen) < MaxSeconds
  /\ kind = "ticks" => answered
  /\ seen' = Append(seen, busy)
  /\ activity' = Sample(activity, busy)
  /\ raised' = IF activity'.alerted /\ ~activity.alerted THEN raised \cup {<<Len(seen')>>} ELSE raised
  /\ hand' = (hand \/ touched)
  /\ before' = (kind = "idle" /\ touched)
  /\ UNCHANGED <<kind, threshold, pc, last>>

-----------------------------------------------------------------------------
\* The supervisor starts the loop again, or the next watch does: stateWatch.forget, and
\* variables of Start's own.
Restart ==
  /\ pc \in {"watch", "failed"}
  /\ pc' = "start"
  /\ seen' = <<>> /\ raised' = {} /\ hand' = FALSE /\ before' = FALSE /\ activity' = Still
  /\ UNCHANGED <<kind, threshold, last>>

Next ==
  \/ \E r \in Readings : Baseline(r) \/ Read(r)
  \/ StartInput \/ \E b \in BOOLEAN : Grace(b)
  \/ \E t, a \in BOOLEAN : Tick(t, a)
  \/ Restart

Spec == Init /\ [][Next]_vars

-----------------------------------------------------------------------------
TypeOK ==
  /\ kind \in Kinds /\ pc \in {"start", "grace", "watch", "failed"}
  /\ last \in Readings
  /\ activity.busy \in 0 .. threshold - 1 /\ activity.quiet \in 0 .. MaxSeconds

\* The last reading before i that could be read.
Previous(i) ==
  LET good == {j \in 1 .. i - 1 : seen[j] # Unreadable \/ kind = "network"} IN
    seen[CHOOSE j \in good : \A k \in good : k <= j]

\* A loop that watches the charger, the lid, the display or the USB profile raises an
\* alert where a reading differs from the one before it, those that could not be read
\* and what an earlier run of the loop saw left out, and nowhere else.  (poll.run,
\* stateWatch, USBSensor.Start.)
AlertsAreEdges ==
  kind \in {"edge", "profile"} =>
    raised = {<<i, "now", seen[i]>> : i \in {j \in 2 .. Len(seen) : seen[j] # Unreadable /\ seen[j] # Previous(j)}}

\* Every USB device that comes or goes on Linux is spoken of, once and by name.
DevicesAreNamed ==
  kind = "devices" => \A i \in 2 .. Len(seen), d \in Things : seen[i] # Unreadable =>
    /\ <<i, "removed", d>> \in raised <=> d \in Previous(i) \ seen[i]
    /\ <<i, "connected", d>> \in raised <=> d \in seen[i] \ Previous(i)

Quiet(i, j) == \A k \in i .. j : ~seen[k]

\* Somebody working at the machine raises one alert, when "threshold" readings in a row
\* show them, and no other until the machine was left alone for five.  (activityWatch.)
OneAlertAPerson ==
  ~Watches => \A i \in DOMAIN seen :
    <<i>> \in raised <=>
      /\ i >= threshold /\ \A k \in i - threshold + 1 .. i : seen[k]
      /\ \A j \in 1 .. i - 1 : <<j>> \in raised =>
           \E k \in j + 1 .. i - Left : Quiet(k, k + Left - 1)

\* A reading that cannot be taken is no event.  (poll.go: "One unreadable poll is not the
\* hardware moving.")
UnreadableIsNotMoving ==
  Watches => \A a \in raised : seen[a[1]] # Unreadable

\* With a threshold of two or more there is no alert before somebody is at the machine
\* after the grace period: the reading that still shows the hand that armed it is one.
\* (InputSensor.Start, inputSnapshot, idleFrom.)
GraceCountsOnce == ~Watches /\ threshold > 1 /\ raised # {} => hand

\* Together: an alert for every event, and none for what is none.
AlertsAreEvents == AlertsAreEdges /\ DevicesAreNamed /\ OneAlertAPerson /\ GraceCountsOnce

\* The hand that armed the machine raises no alert.  (input_windows.go: "the hand that
\* pressed Arm is still on the machine, and it is not the hand this sensor is looking
\* for.")
GraceIsIgnored == ~Watches /\ raised # {} => hand
=============================================================================
