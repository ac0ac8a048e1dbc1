------------------------------- MODULE Sensors -------------------------------
(***************************************************************************)
(* One sensor in the hands of the manager that starts, stops and restarts  *)
(* it (internal/monitor/manager.go, availability.go; SuperviseRetry of     *)
(* internal/safe/safe.go).  Sensors do not share state, so one is enough.  *)
(*                                                                         *)
(* Every start makes a context and a supervised goroutine that runs the    *)
(* driver until it fails, waits, and runs it again, until the context is   *)
(* cancelled.  A cancelled run takes its time to notice, so runs overlap,  *)
(* and all of them write the one failure record the phones are shown.      *)
(*                                                                         *)
(* Left out: what the driver watches and the alerts it sends.              *)
(***************************************************************************)
EXTENDS Naturals

CONSTANTS
  MaxRuns,   \* bound on the starts
  Kinds      \* the drivers there are: "reports" says itself when it has live
             \* readings (readySensor), "panics" may panic

\* What they have to be.
ConstantsOK == MaxRuns \in Nat /\ Kinds \subseteq SUBSET {"reports", "panics"}

Runs == 1 .. MaxRuns

VARIABLES
  driver,     \* what kind of driver this sensor has
  enabled,    \* Manager.enabled
  current,    \* the run whose cancel function is in Manager.cancels, 0 for none
  started,    \* how many runs there have been
  cancelled,  \* runs whose context is cancelled
  failure,    \* Manager.failures: "none" is no entry
  pc,         \* where each run's goroutine is
  known,      \* Manager.availability has the (positive) answer
  probing     \* Manager.probing, with its goroutine: "no", "yes", and "dead" when
              \* the goroutine is gone and the entry is not

runs == <<current, started, cancelled, pc>>
probe == <<known, probing>>
vars == <<driver, enabled, failure, runs, probe>>

ReportsReady == "reports" \in driver
MayPanic == "panics" \in driver

Places == {"none", "try", "clear", "opening", "watching", "returned", "record",
           "backoff", "over"}

TypeOK ==
  /\ driver \in Kinds /\ enabled \in BOOLEAN /\ known \in BOOLEAN
  /\ started \in 0 .. MaxRuns /\ current \in 0 .. started
  /\ cancelled \subseteq 1 .. started /\ current \notin cancelled
  /\ failure \in {"none", "waiting", "error"}
  /\ pc \in [Runs -> Places]
  /\ probing \in {"no", "yes", "dead"}

Init ==
  /\ driver \in Kinds /\ enabled = FALSE
  /\ current = 0 /\ started = 0 /\ cancelled = {} /\ failure = "none"
  /\ pc = [r \in Runs |-> "none"]
  /\ known = FALSE /\ probing = "no"

Goto(r, from, to) == pc[r] = from /\ pc' = [pc EXCEPT ![r] = to]

-----------------------------------------------------------------------------
(***************************************************************************)
(* The manager's operations, each under its lock.                          *)
(***************************************************************************)
Enable ==
  /\ enabled' = TRUE
  /\ UNCHANGED <<failure, runs, probe>>

\* Mutant: the context is cancelled and its entry kept.
KeepEntry ==
  /\ cancelled' = cancelled \cup ({current} \ {0})
  /\ UNCHANGED <<current, started, pc>>

\* Mutant: the entry is dropped and the run is left going.
ForgetRun ==
  /\ current' = 0
  /\ UNCHANGED <<started, cancelled, pc>>

\* The context is cancelled and its entry dropped.
CancelRun ==
  /\ current' = 0
  /\ cancelled' = cancelled \cup ({current} \ {0})
  /\ UNCHANGED <<started, pc>>

Disable ==
  /\ enabled' = FALSE
  /\ CancelRun
  /\ failure' = "none"
  /\ UNCHANGED probe

StopAll ==
  /\ current # 0
  /\ CancelRun
  /\ failure' = "none"
  /\ UNCHANGED <<enabled, probe>>

\* Mutant: a sensor that is running is started like any other.
StartTwice ==
  /\ known /\ enabled /\ started < MaxRuns
  /\ started' = started + 1
  /\ current' = started + 1
  /\ pc' = [pc EXCEPT ![started + 1] = "try"]
  /\ failure' = IF ReportsReady THEN "waiting" ELSE failure
  /\ UNCHANGED <<enabled, cancelled, probe>>

\* StartEnabled starts the sensor unless it is off, unavailable or running.
StartEnabled ==
  /\ known /\ enabled /\ current = 0 /\ started < MaxRuns
  /\ started' = started + 1
  /\ current' = started + 1
  /\ pc' = [pc EXCEPT ![started + 1] = "try"]
  /\ failure' = IF ReportsReady THEN "waiting" ELSE failure
  /\ UNCHANGED <<enabled, cancelled, probe>>

-----------------------------------------------------------------------------
(***************************************************************************)
(* The goroutine of run r.                                                 *)
(***************************************************************************)
\* retryAfter looks at the context before each attempt.
Try(r) ==
  /\ Goto(r, "try", IF r \in cancelled THEN "over"
                    ELSE IF ReportsReady THEN "opening" ELSE "clear")
  /\ UNCHANGED <<enabled, current, started, cancelled, failure, probe>>

\* clearFailure, at the top of every attempt of a plain driver.
Clear(r) ==
  /\ Goto(r, "clear", "watching")
  /\ failure' = "none"
  /\ UNCHANGED <<enabled, current, started, cancelled, probe>>

\* Mutant: the callback of a run that has been stopped counts as well.
ReadyLate(r) ==
  /\ Goto(r, "opening", "watching")
  /\ failure' = "none"
  /\ UNCHANGED <<enabled, current, started, cancelled, probe>>

\* The driver's own callback once it has live readings.
Ready(r) ==
  /\ Goto(r, "opening", "watching")
  /\ failure' = IF r \in cancelled THEN failure ELSE "none"
  /\ UNCHANGED <<enabled, current, started, cancelled, probe>>

\* The driver returns, of itself or because its context ended.
Return(r) ==
  /\ Goto(r, "watching", "returned") \/ Goto(r, "opening", "returned")
  /\ UNCHANGED <<enabled, current, started, cancelled, failure, probe>>

\* A panic is recovered in runOnce, above the code that records a failure.
Panic(r) ==
  /\ MayPanic
  /\ Goto(r, "watching", "backoff") \/ Goto(r, "opening", "backoff")
  /\ UNCHANGED <<enabled, current, started, cancelled, failure, probe>>

\* Mutant: a driver that returns has finished its work.
Retire(r) ==
  /\ Goto(r, "returned", "over")
  /\ UNCHANGED <<enabled, current, started, cancelled, failure, probe>>

\* Being asked to stop is the one clean way out.
AskedTo(r) ==
  /\ Goto(r, "returned", IF r \in cancelled THEN "over" ELSE "record")
  /\ UNCHANGED <<enabled, current, started, cancelled, failure, probe>>

\* recordFailure takes the lock and does not ask whose failure it is.
Record(r) ==
  /\ Goto(r, "record", "backoff")
  /\ failure' = "error"
  /\ UNCHANGED <<enabled, current, started, cancelled, probe>>

Retry(r) ==
  /\ Goto(r, "backoff", IF r \in cancelled THEN "over" ELSE "try")
  /\ UNCHANGED <<enabled, current, started, cancelled, failure, probe>>

\* The steps the supervisor takes, and a driver that honours its context.
Supervise(r) ==
  \/ Try(r) \/ Clear(r) \/ AskedTo(r) \/ Record(r) \/ Retry(r)
  \/ r \in cancelled /\ Return(r)

-----------------------------------------------------------------------------
(***************************************************************************)
(* Whether the sensor can work here is settled once.  Arming and startup   *)
(* wait for the answer (availabilityFor, PrimeAvailability).  AvailableNow *)
(* never waits: the first to miss the answer starts a probe.               *)
(***************************************************************************)
SettleAvailability ==
  /\ known' = TRUE /\ probing' = "no"
  /\ UNCHANGED <<enabled, failure, runs>>

AvailableNow ==
  /\ ~known /\ probing = "no"
  /\ probing' = "yes"
  /\ UNCHANGED <<enabled, failure, runs, known>>

\* The probe answers, or panics and leaves its entry behind.
ProbeEnds ==
  /\ probing = "yes"
  /\ \/ known' = TRUE /\ probing' = "no"
     \/ MayPanic /\ probing' = "dead" /\ UNCHANGED known
  /\ UNCHANGED <<enabled, failure, runs>>

Next ==
  /\ UNCHANGED driver
  /\ \/ Enable \/ Disable \/ StopAll \/ StartEnabled
     \/ \E r \in Runs : Supervise(r) \/ Ready(r) \/ Return(r) \/ Panic(r)
     \/ SettleAvailability \/ AvailableNow \/ ProbeEnds

Spec == Init /\ [][Next]_vars

\* Goroutines run, the back-off ends, and a probe is allowed to end.  The
\* driver has to notice its context; it never has to fail or to become ready.
FairSpec ==
  /\ Spec
  /\ \A r \in Runs : WF_vars(Supervise(r) /\ UNCHANGED driver)
  /\ WF_vars(ProbeEnds /\ UNCHANGED driver)

-----------------------------------------------------------------------------
\* However often it is started and stopped, the sensor has one run that is not
\* on its way out, and it is the one StopAll and Disable would cancel.
SoleWatcher == \A r \in 1 .. started : r \in cancelled \/ r = current

\* A run that was not asked to stop comes back to its driver after every
\* failure or panic: one transient failure does not retire the sensor.
\* (StartEnabled, SuperviseRetry.)
StillWatching ==
  \A r \in Runs :
    (pc[r] \in {"returned", "record", "backoff"})
      ~> (pc[r] \in {"clear", "opening"} \/ r \in cancelled)

\* A run the manager has let go of, by a disarm or by switching the sensor off,
\* is over sooner or later, whatever it was doing.  (Disable, StopAll.)
StopsWhenAsked ==
  \A r \in Runs : (pc[r] # "none" /\ r # current) ~> (pc[r] = "over")

\* A sensor whose driver reports is shown as working only when it has live
\* readings, or has stopped so recently that nobody has written it down.
\* (failures, readySensor.)
CoverageIsEarned ==
  (ReportsReady /\ ~MayPanic /\ current # 0 /\ failure = "none")
    => pc[current] \in {"watching", "returned", "record"}

(***************************************************************************)
(* What the source says, and what the code does not keep.                  *)
(***************************************************************************)

\* "A sensor switched off is not a sensor that failed."
OffIsNoFault == current = 0 => failure = "none"

\* The failures record "stops the panel claiming a sensor is active while its
\* loop is between restarts".
FaultIsTold == (current # 0 /\ pc[current] = "backoff") => failure # "none"

\* A sensor whose answer is missing "is corrected by the next broadcast".
AnswerArrives == (probing # "no") ~> known
=============================================================================
