--------------------------------- MODULE Motion ---------------------------------
(***************************************************************************)
(* The motion sensor (monitor/motion.go) under its supervisor: a run of the   *)
(* loop after another while one watch lasts, and the run of a watch that is   *)
(* over beside the first of the next.                                        *)
(*                                                                         *)
(* A watch is its context, by number.  The accelerometer's readings are        *)
(* numbered by when they were taken; where the machine lies is a whole number. *)
(* Left out: the warm-up's clock and the supervisor's back-off.               *)
(***************************************************************************)
EXTENDS Integers, FiniteSets

CONSTANTS
  Places,      \* what the accelerometer may read
  Near, Far,   \* 0.18 g and 0.65 g
  MaxAt,       \* readings the accelerometer takes
  MaxWatches,
  MaxRuns

\* What the proofs ask of them.  -1 stands for a place that is not known yet.
ConstantsOK ==
  /\ 0 \in Places /\ \A p \in Places : p \in Nat
  /\ Near \in Nat /\ Far \in Nat
  /\ MaxAt \in Nat \ {0} /\ MaxWatches \in Nat /\ MaxRuns \in Nat

Runs == 1 .. MaxRuns
NoRun == 0

VARIABLES
  now,       \* the accelerometer's last reading
  watch,     \* the number of the last watch; those before it are cancelled
  armed,     \* whether it is still on
  run,       \* each run of the loop
  sensor,    \* MotionSensor: the watch its detector is of, and the detector's number
  detector,  \* motionDetector, by the number of the run that made it
  alerts,    \* history: how many each watch has raised
  firsts,    \* history: where the machine lay when each watch first had a detector
  counted    \* history: the readings that have counted towards each detector's alert

vars == <<now, watch, armed, run, sensor, detector, alerts, firsts, counted>>

Watches == 1 .. MaxWatches
Cancelled(w) == w < watch \/ ~armed
NoDetector == [reference |-> 0, consecutive |-> 0, triggered |-> FALSE]

Init ==
  /\ now = [at |-> 1, place |-> 0]
  /\ watch = 0 /\ armed = FALSE
  /\ run = [r \in Runs |-> [pc |-> "none", watch |-> 0, reference |-> 0, last |-> 0, detector |-> NoRun]]
  /\ sensor = [watch |-> 0, detector |-> NoRun]
  /\ detector = [r \in Runs |-> NoDetector]
  /\ alerts = [w \in Watches |-> 0] /\ firsts = [w \in Watches |-> -1]
  /\ counted = [r \in Runs |-> {}]

Goto(r, from, to) == run[r].pc = from /\ run' = [run EXCEPT ![r].pc = to]

-----------------------------------------------------------------------------
(***************************************************************************)
(* The machine, the watch and the supervisor.                               *)
(***************************************************************************)
\* The accelerometer takes a reading, whether or not the machine was moved.
Sense ==
  /\ now.at < MaxAt
  /\ \E p \in Places : now' = [at |-> now.at + 1, place |-> p]
  /\ UNCHANGED <<watch, armed, run, sensor, detector, alerts, firsts, counted>>

Arm ==
  /\ ~armed /\ watch < MaxWatches
  /\ armed' = TRUE /\ watch' = watch + 1
  /\ UNCHANGED <<now, run, sensor, detector, alerts, firsts, counted>>

Disarm ==
  /\ armed /\ armed' = FALSE
  /\ UNCHANGED <<now, watch, run, sensor, detector, alerts, firsts, counted>>

\* The first run of a watch, or another when the last came back.
Start(r) ==
  /\ armed /\ run[r].pc = "none" /\ \A q \in 1 .. r - 1 : run[q].pc # "none"
  /\ \A q \in Runs : run[q].watch = watch => run[q].pc = "over"
  /\ run' = [run EXCEPT ![r].pc = "warmup", ![r].watch = watch]
  /\ UNCHANGED <<now, watch, armed, sensor, detector, alerts, firsts, counted>>

-----------------------------------------------------------------------------
(***************************************************************************)
(* StartWithReady.                                                         *)
(***************************************************************************)
\* There is no accelerometer, it has nothing fresh to say, or the watch is over.
GiveUp(r) ==
  /\ \/ Goto(r, "warmup", "over") \/ Goto(r, "watch", "over")
  /\ UNCHANGED <<now, watch, armed, sensor, detector, alerts, firsts, counted>>

\* firstReading
FirstReading(r) ==
  /\ run[r].pc = "warmup"
  /\ run' = [run EXCEPT ![r].pc = "session", ![r].reference = now.place, ![r].last = now.at]
  /\ UNCHANGED <<now, watch, armed, sensor, detector, alerts, firsts, counted>>

\* Mutant: session, without looking at the context.
SessionUnchecked(r) ==
  LET w == run[r].watch
      kept == sensor.watch = w
      d == IF kept THEN sensor.detector ELSE r IN
  /\ run[r].pc = "session"
  /\ run' = [run EXCEPT ![r].pc = "watch", ![r].detector = d]
  /\ sensor' = [watch |-> w, detector |-> d]
  /\ detector' = [detector EXCEPT ![d] =
       IF kept THEN [@ EXCEPT !.consecutive = 0]
       ELSE [reference |-> run[r].reference, consecutive |-> 0, triggered |-> FALSE]]
  /\ counted' = [counted EXCEPT ![d] = {}]
  /\ firsts' = [firsts EXCEPT ![w] = IF @ = -1 THEN run[r].reference ELSE @]
  /\ UNCHANGED <<now, watch, armed, alerts>>

\* session, under the lock: a watch that is over gets no detector; the first run of a
\* watch makes one, and those after it go on with it.
Session(r) ==
  LET w == run[r].watch
      kept == sensor.watch = w
      d == IF kept THEN sensor.detector ELSE r IN
  IF Cancelled(w)
  THEN /\ Goto(r, "session", "over")
       /\ UNCHANGED <<now, watch, armed, sensor, detector, alerts, firsts, counted>>
  ELSE /\ run[r].pc = "session"
       /\ run' = [run EXCEPT ![r].pc = "watch", ![r].detector = d]
       /\ sensor' = [watch |-> w, detector |-> d]
       /\ detector' = [detector EXCEPT ![d] =
            IF kept THEN [@ EXCEPT !.consecutive = 0]
            ELSE [reference |-> run[r].reference, consecutive |-> 0, triggered |-> FALSE]]
       /\ counted' = [counted EXCEPT ![d] = {}]
       /\ firsts' = [firsts EXCEPT ![w] = IF @ = -1 THEN run[r].reference ELSE @]
       /\ UNCHANGED <<now, watch, armed, alerts>>

Distance(d) == LET x == now.place - detector[d].reference IN IF x < 0 THEN -x ELSE x

\* moved, over a fresh reading: the run of readings it is the last of.
Consecutive(d) == IF Distance(d) >= Near THEN detector[d].consecutive + 1 ELSE 0
Moved(d) == ~detector[d].triggered /\ (Distance(d) >= Far \/ Consecutive(d) >= 3)

\* Mutant: a reading is looked at as often as the loop comes by.
LookAgain(r) ==
  LET d == run[r].detector IN
  /\ run[r].pc = "watch" /\ run[r].last <= now.at
  /\ run' = [run EXCEPT ![r].last = now.at, ![r].pc = IF Moved(d) THEN "send" ELSE "watch"]
  /\ IF detector[d].triggered THEN UNCHANGED <<detector, counted>>
     ELSE /\ detector' = [detector EXCEPT ![d].consecutive = Consecutive(d)]
          /\ counted' = [counted EXCEPT ![d] = IF Distance(d) >= Near THEN @ \cup {now.at} ELSE {}]
  /\ UNCHANGED <<now, watch, armed, sensor, alerts, firsts>>

\* A tick: a reading that was looked at already is passed over.
Look(r) ==
  LET d == run[r].detector IN
  /\ run[r].pc = "watch" /\ run[r].last < now.at
  /\ run' = [run EXCEPT ![r].last = now.at, ![r].pc = IF Moved(d) THEN "send" ELSE "watch"]
  /\ IF detector[d].triggered THEN UNCHANGED <<detector, counted>>
     ELSE /\ detector' = [detector EXCEPT ![d].consecutive = Consecutive(d)]
          /\ counted' = [counted EXCEPT ![d] = IF Distance(d) >= Near THEN @ \cup {now.at} ELSE {}]
  /\ UNCHANGED <<now, watch, armed, sensor, alerts, firsts>>

\* Mutant: the alert leaves no mark.
SendUnlatched(r) ==
  /\ run[r].pc = "send"
  /\ \/ /\ run' = [run EXCEPT ![r].pc = "watch"]
        /\ UNCHANGED detector
        /\ alerts' = [alerts EXCEPT ![run[r].watch] = @ + 1]
     \/ /\ Cancelled(run[r].watch)
        /\ run' = [run EXCEPT ![r].pc = "over"]
        /\ UNCHANGED <<detector, alerts>>
  /\ UNCHANGED <<now, watch, armed, sensor, firsts, counted>>

\* sendAlert: the alert is taken, or the watch ended while it waited.
Send(r) ==
  /\ run[r].pc = "send"
  /\ \/ /\ run' = [run EXCEPT ![r].pc = "watch"]
        /\ detector' = [detector EXCEPT ![run[r].detector].triggered = TRUE]
        /\ alerts' = [alerts EXCEPT ![run[r].watch] = @ + 1]
     \/ /\ Cancelled(run[r].watch)
        /\ run' = [run EXCEPT ![r].pc = "over"]
        /\ UNCHANGED <<detector, alerts>>
  /\ UNCHANGED <<now, watch, armed, sensor, firsts, counted>>

Next ==
  \/ Sense \/ Arm \/ Disarm
  \/ \E r \in Runs : Start(r) \/ GiveUp(r) \/ FirstReading(r) \/ Session(r) \/ Look(r) \/ Send(r)

Spec == Init /\ [][Next]_vars

-----------------------------------------------------------------------------
TypeOK ==
  /\ now.at \in 1 .. MaxAt /\ now.place \in Places
  /\ sensor.detector \in Runs \cup {NoRun}
  /\ \A r \in Runs :
       /\ run[r].pc \in {"none", "warmup", "session", "watch", "send", "over"}
       /\ run[r].pc \in {"watch", "send"} => run[r].detector \in Runs
       /\ detector[r].consecutive \in 0 .. MaxAt

\* A watch speaks of motion once, however often its loop is started again and whatever
\* the run of an earlier watch still does.  (motion.go: "One event per arm session.")
OneEventAWatch == \A w \in Watches : alerts[w] <= 1

\* All the runs of a watch measure from where the machine lay when it was armed, so a
\* machine moved while the accelerometer was away has moved.  (session: "Keep the
\* original baseline and alarm latch through a temporary driver loss.")
MeasuredFromArming ==
  \A r \in Runs : run[r].pc \in {"watch", "send"} =>
    detector[run[r].detector].reference = firsts[run[r].watch]

\* An alert of a small movement rests on three readings, not on one looked at thrice.
\* (watch: "Polling must not turn one reading into three consecutive events.")
ThreeReadings ==
  \A r \in Runs : run[r].pc = "send" /\ run[r].last = now.at =>
    Cardinality(counted[run[r].detector]) >= 3 \/ Distance(run[r].detector) >= Far

\* Together: the machine was moved, since it was armed, and it is said once.
MotionIsReal == OneEventAWatch /\ MeasuredFromArming /\ ThreeReadings
=============================================================================
