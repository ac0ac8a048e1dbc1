-------------------------------- MODULE Watch --------------------------------
(***************************************************************************)
(* The hub's watch: arming, disarming, raising an alarm and answering it   *)
(* (internal/ws/hub.go).                                                   *)
(*                                                                         *)
(* Every operation of the hub is a sequence of short critical sections     *)
(* with the lock released in between, and every one of them may be running *)
(* on several goroutines at once: a phone's messages run on the goroutine  *)
(* that reads its socket, the console's commands on the console loop,      *)
(* sensor alerts on the dispatcher, and each paused sensor has a goroutine *)
(* of its own sleeping until the pause is over.  The model keeps that      *)
(* granularity: one action per critical section or per call that changes   *)
(* state elsewhere, with the process's place in the operation in pc.       *)
(*                                                                         *)
(* Left out: what the phones are shown (pushes and status broadcasts), the *)
(* event log, and the PIN, which stands in front of these operations.  The *)
(* siren is a switch here and a machine of its own in Siren.tla; a sensor  *)
(* is a name in "running" here and a supervised loop in Sensors.tla.       *)
(***************************************************************************)
EXTENDS Naturals, Sequences, FiniteSets

CONSTANTS
  Users,       \* phone connections and the console: they issue operations
  Timers,      \* goroutines available for paused sensors (bounds pauses)
  Dispatcher,  \* the one goroutine that reads the alert channel
  Sensors,     \* names of the registered sensors
  Available,   \* those that can work on this machine
  Screen,      \* the sensor whose alerts mean "locked" and "unlocked"
  Input,       \* the sensor a dismissal itself sets off
  AutoArm,     \* auto_arm_on_lock is on and a phone is paired
  Located,     \* the hub was given a location tracker
  Operations,  \* what the users of this instance do
  Cap,         \* capacity of the alert channel (100 in the code)
  None

ASSUME NoneIsNoSensor == None \notin Sensors
ASSUME AvailableAreSensors == Available \subseteq Sensors
ASSUME FlagsAreFlags == AutoArm \in BOOLEAN /\ Located \in BOOLEAN
ASSUME DistinctProcesses ==
  /\ Users \cap Timers = {}
  /\ Dispatcher \notin Users \cup Timers
ASSUME KnownOperations ==
  Operations \subseteq
    {"arm", "disarm", "dismiss", "pause", "disable", "test", "configure"}
ASSUME InputIsAName == Input # None
ASSUME CapIsPositive == Cap \in Nat \ {0}

Process == Users \cup Timers \cup {Dispatcher}

\* What a sensor sends: the screen says which way it went, the others only
\* that they were set off.
Alerts == [sensor : Sensors \ {Screen}, kind : {"trip"}]
            \cup [sensor : Sensors \cap {Screen}, kind : {"off", "on"}]

VARIABLES
  armed,     \* Hub.armed
  stored,    \* the armed flag in the state file, for the next run to read
  unsaved,   \* history: the flag was last set without being written there
  enabled,   \* Manager.enabled, as the set of enabled sensors
  running,   \* Manager.cancels, as the set of started sensors
  tracking,  \* whether the location tracker's loop is running
  alarm,     \* Hub.alarmSensor while Hub.alarmActive, else None
  siren,     \* whether the laptop's siren is sounding
  quiet,     \* Hub.suppressedSensors whose time is not up
  queue,     \* Manager.alertCh
  pc,        \* where each process is
  op,        \* the operation it is carrying out
  held,      \* the sensor it is dealing with: the local in the Go code
  gone       \* history: sensors the owner's last answer switched off for good

vars == <<armed, stored, unsaved, enabled, running, tracking, alarm, siren,
          quiet, queue, pc, op, held, gone>>

Places == {"idle", "arm", "armSave", "armStart", "armTrack",
           "disarm", "disarmSave", "stopAll", "untrack",
           "clear", "hush", "suppress", "off",
           "gate", "claim", "trigger", "cfgCheck", "cfgApply",
           "asleep", "wake", "recheck", "restart"}

OperationNames == {"none", "arm", "disarm", "dismiss", "pause", "disable",
                   "test", "configure", "alert", "unpause"}

TypeOK ==
  /\ armed \in BOOLEAN /\ stored \in BOOLEAN /\ unsaved \in BOOLEAN
  /\ tracking \in BOOLEAN /\ siren \in BOOLEAN
  /\ enabled \subseteq Sensors /\ running \subseteq Sensors
  /\ alarm \in Sensors \cup {None}
  /\ quiet \subseteq Sensors /\ gone \subseteq Sensors
  /\ queue \in Seq(Alerts)
  /\ pc \in [Process -> Places]
  /\ op \in [Process -> OperationNames]
  /\ held \in [Process -> Sensors \cup {None}]

\* A fresh start: every sensor is on unless the configuration says otherwise,
\* and with auto-arm on the sensors are started to see the screen lock.
Init ==
  /\ armed = FALSE /\ stored = FALSE /\ unsaved = FALSE
  /\ enabled \in SUBSET Sensors
  /\ AutoArm => Screen \in enabled
  /\ running = IF AutoArm THEN enabled \cap Available ELSE {}
  /\ tracking = FALSE /\ siren = FALSE
  /\ alarm = None /\ quiet = {} /\ queue = <<>> /\ gone = {}
  /\ pc = [p \in Process |-> "idle"]
  /\ op = [p \in Process |-> "none"]
  /\ held = [p \in Process |-> None]

-----------------------------------------------------------------------------
(***************************************************************************)
(* Control: moving one process along.                                      *)
(***************************************************************************)
Move(p, from, to) ==
  /\ pc[p] = from
  /\ pc' = [pc EXCEPT ![p] = to]
  /\ UNCHANGED <<op, held>>

\* The end of an operation: its locals are gone.
Finish(p, from) ==
  /\ pc[p] = from
  /\ pc' = [pc EXCEPT ![p] = "idle"]
  /\ op' = [op EXCEPT ![p] = "none"]
  /\ held' = [held EXCEPT ![p] = None]

\* The start of one, at its first step, with the sensor it is about.
Begin(p, o, s, at) ==
  /\ pc[p] = "idle"
  /\ pc' = [pc EXCEPT ![p] = at]
  /\ op' = [op EXCEPT ![p] = o]
  /\ held' = [held EXCEPT ![p] = s]

data == <<armed, stored, unsaved, enabled, running, tracking, alarm, siren,
          quiet, queue, gone>>

\* A paired phone's message or a console command reaches the hub.
Ask(u) ==
  /\ \/ "arm" \in Operations /\ Begin(u, "arm", None, "arm")
     \/ "disarm" \in Operations /\ Begin(u, "disarm", None, "disarm")
     \/ \E o \in {"dismiss", "pause", "disable"} \cap Operations :
          Begin(u, o, None, "clear")
     \/ "test" \in Operations
          /\ \E s \in Sensors : Begin(u, "test", s, "claim")
     \/ "configure" \in Operations
          /\ \E s \in Sensors : Begin(u, "configure", s, "cfgCheck")
  /\ UNCHANGED data

-----------------------------------------------------------------------------
(***************************************************************************)
(* Hub.Arm: the flag, the state file, the sensors, the tracker.            *)
(***************************************************************************)
SetArmed(p) ==
  /\ Move(p, "arm", "armSave")
  /\ armed' = TRUE
  /\ UNCHANGED <<stored, unsaved, enabled, running, tracking, alarm, siren,
                 quiet, queue, gone>>

\* persistArmed.  A hub without a store records nothing, and a Save that fails
\* leaves the file as it was and is only logged.
Persist(flag) ==
  \/ stored' = flag /\ unsaved' = FALSE
  \/ UNCHANGED stored /\ unsaved' = TRUE

SaveArmed(p) ==
  /\ Move(p, "armSave", "armStart")
  /\ Persist(TRUE)
  /\ UNCHANGED <<armed, enabled, running, tracking, alarm, siren, quiet, queue,
                 gone>>

\* Manager.StartEnabled, with the availability answers settled.
StartEnabled == running' = running \cup (enabled \cap Available)

ArmSensors(p) ==
  /\ Move(p, "armStart", "armTrack")
  /\ StartEnabled
  /\ UNCHANGED <<armed, stored, unsaved, enabled, tracking, alarm, siren,
                 quiet, queue, gone>>

\* The tracker is nil when the config leaves location off.
ArmTracker(p) ==
  /\ Finish(p, "armTrack")
  /\ tracking' = Located
  /\ UNCHANGED <<armed, stored, unsaved, enabled, running, alarm, siren, quiet,
                 queue, gone>>

(***************************************************************************)
(* Hub.Disarm: the same four in the same order, then clearAlarm.           *)
(***************************************************************************)
SetDisarmed(p) ==
  /\ Move(p, "disarm", "disarmSave")
  /\ armed' = FALSE
  /\ UNCHANGED <<stored, unsaved, enabled, running, tracking, alarm, siren,
                 quiet, queue, gone>>

\* Mutant: a disarm that is not recorded.
SaveDisarmedForgotten(p) ==
  /\ Move(p, "disarmSave", "stopAll")
  /\ UNCHANGED data

SaveDisarmed(p) ==
  /\ Move(p, "disarmSave", "stopAll")
  /\ Persist(FALSE)
  /\ UNCHANGED <<armed, enabled, running, tracking, alarm, siren, quiet, queue,
                 gone>>

StopAll(p) ==
  /\ Move(p, "stopAll", "untrack")
  /\ running' = {}
  /\ UNCHANGED <<armed, stored, unsaved, enabled, tracking, alarm, siren,
                 quiet, queue, gone>>

StopTracker(p) ==
  /\ Move(p, "untrack", "clear")
  /\ tracking' = FALSE
  /\ UNCHANGED <<armed, stored, unsaved, enabled, running, alarm, siren, quiet,
                 queue, gone>>

-----------------------------------------------------------------------------
(***************************************************************************)
(* clearAlarm, and what each answer to an alarm does with the sensor it    *)
(* returns.                                                                *)
(***************************************************************************)

\* The critical section of clearAlarm.  Disarm throws the sensor away.
ClearAlarm(p) ==
  /\ pc[p] = "clear"
  /\ pc' = [pc EXCEPT ![p] = "hush"]
  /\ held' = [held EXCEPT ![p] = IF op[p] = "disarm" THEN None ELSE alarm]
  /\ alarm' = None
  /\ UNCHANGED <<op, armed, stored, unsaved, enabled, running, tracking, siren,
                 quiet, queue, gone>>

\* Mutants: the siren is stopped only when an alarm was recorded; and an answer
\* to no alarm goes on to switch a sensor off.
HushOnlyAnAlarm(p) ==
  /\ siren' = IF held[p] = None THEN siren ELSE FALSE
  /\ Finish(p, "hush")
  /\ UNCHANGED <<armed, stored, unsaved, enabled, running, tracking, alarm,
                 quiet, queue, gone>>

HushWithoutTheCheck(p) ==
  /\ siren' = FALSE
  /\ IF op[p] \in {"pause", "disable"} THEN Move(p, "hush", "off")
                                     ELSE Finish(p, "hush")
  /\ UNCHANGED <<armed, stored, unsaved, enabled, running, tracking, alarm,
                 quiet, queue, gone>>

\* Whether an alarm was sounding does not matter to the siren: it is told to
\* stop either way.
Hush(p) ==
  /\ siren' = FALSE
  /\ \/ /\ op[p] = "dismiss" /\ held[p] = Input
        /\ Move(p, "hush", "suppress")
     \/ /\ op[p] \in {"pause", "disable"} /\ held[p] # None
        /\ Move(p, "hush", "off")
     \/ /\ ~ (op[p] = "dismiss" /\ held[p] = Input)
        /\ ~ (op[p] \in {"pause", "disable"} /\ held[p] # None)
        /\ Finish(p, "hush")
  /\ UNCHANGED <<armed, stored, unsaved, enabled, running, tracking, alarm,
                 quiet, queue, gone>>

\* dismissAlarm: the input sensor is held quiet for a moment.
Suppress(p) ==
  /\ Finish(p, "suppress")
  /\ quiet' = quiet \cup {Input}
  /\ UNCHANGED <<armed, stored, unsaved, enabled, running, tracking, alarm,
                 siren, queue, gone>>

\* Manager.Disable of one sensor.
Disable(s) ==
  /\ enabled' = enabled \ {s}
  /\ running' = running \ {s}

\* Mutant: the sensor a message names instead of the one the hub recorded.
DisableNamedSensor(p) ==
  /\ op[p] = "disable"
  /\ Finish(p, "off")
  /\ \E s \in Sensors : Disable(s) /\ gone' = gone \cup {s}
  /\ UNCHANGED <<armed, stored, unsaved, tracking, alarm, siren, quiet, queue>>

\* disableAlarmSensor: for good.
DisableAlarmSensor(p) ==
  /\ op[p] = "disable"
  /\ Finish(p, "off")
  /\ Disable(held[p])
  /\ gone' = gone \cup {held[p]}
  /\ UNCHANGED <<armed, stored, unsaved, tracking, alarm, siren, quiet, queue>>

\* pauseAlarmSensor: off now, and a goroutine to put it back.
PauseAlarmSensor(p, t) ==
  /\ pc[p] = "off" /\ op[p] = "pause" /\ pc[t] = "idle"
  /\ Disable(held[p])
  /\ pc' = [pc EXCEPT ![p] = "idle", ![t] = "asleep"]
  /\ op' = [op EXCEPT ![p] = "none", ![t] = "unpause"]
  /\ held' = [held EXCEPT ![p] = None, ![t] = held[p]]
  /\ gone' = gone \ {held[p]}
  /\ UNCHANGED <<armed, stored, unsaved, tracking, alarm, siren, quiet, queue>>

(***************************************************************************)
(* unpauseSensor: sleep, Enable, IsArmed, and StartEnabled if it was.      *)
(***************************************************************************)
PauseOver(t) ==
  /\ Move(t, "asleep", "wake")
  /\ UNCHANGED data

\* Mutant: a pause that ends on a disarmed machine leaves the sensor off.
ReEnableIfArmed(t) ==
  /\ Move(t, "wake", "recheck")
  /\ enabled' = IF armed THEN enabled \cup {held[t]} ELSE enabled
  /\ UNCHANGED <<armed, stored, unsaved, running, tracking, alarm, siren,
                 quiet, queue, gone>>

ReEnable(t) ==
  /\ Move(t, "wake", "recheck")
  /\ enabled' = enabled \cup {held[t]}
  /\ UNCHANGED <<armed, stored, unsaved, running, tracking, alarm, siren,
                 quiet, queue, gone>>

\* Mutant: the sensor is switched on and not started.
RecheckNothing(t) ==
  /\ Finish(t, "recheck")
  /\ UNCHANGED data

Recheck(t) ==
  /\ IF armed THEN Move(t, "recheck", "restart") ELSE Finish(t, "recheck")
  /\ UNCHANGED data

Restart(t) ==
  /\ Finish(t, "restart")
  /\ StartEnabled
  /\ UNCHANGED <<armed, stored, unsaved, enabled, tracking, alarm, siren,
                 quiet, queue, gone>>

-----------------------------------------------------------------------------
(***************************************************************************)
(* Raising an alarm.                                                       *)
(***************************************************************************)

\* A started sensor has something to say, and the channel has room for it.
Fire(a) ==
  /\ a.sensor \in running
  /\ Len(queue) < Cap
  /\ queue' = Append(queue, a)
  /\ UNCHANGED <<armed, stored, unsaved, enabled, running, tracking, alarm,
                 siren, quiet, pc, op, held, gone>>

AutoArms(a) == AutoArm /\ a.sensor = Screen /\ a.kind = "off" /\ ~armed
AutoDisarms(a) == AutoArm /\ a.sensor = Screen /\ a.kind = "on" /\ armed

\* The dispatcher takes an alert and asks whether it was the screen locking.
Dispatch ==
  /\ queue # <<>>
  /\ LET a == Head(queue) IN
       \/ /\ AutoArms(a)
          /\ Begin(Dispatcher, "arm", None, "arm")
       \/ /\ AutoDisarms(a)
          /\ Begin(Dispatcher, "disarm", None, "disarm")
       \/ /\ ~AutoArms(a) /\ ~AutoDisarms(a)
          /\ Begin(Dispatcher, "alert", a.sensor, "gate")
  /\ queue' = Tail(queue)
  /\ UNCHANGED <<armed, stored, unsaved, enabled, running, tracking, alarm,
                 siren, quiet, gone>>

\* dispatchAlert reads IsArmed under its own lock...
Gate ==
  /\ IF armed THEN Move(Dispatcher, "gate", "claim")
              ELSE Finish(Dispatcher, "gate")
  /\ UNCHANGED data

\* Mutant: an alarm already sounding is taken over.
ClaimOver ==
  /\ op[Dispatcher] = "alert"
  /\ IF held[Dispatcher] \in quiet
     THEN Finish(Dispatcher, "claim") /\ UNCHANGED alarm
     ELSE Move(Dispatcher, "claim", "trigger") /\ alarm' = held[Dispatcher]
  /\ UNCHANGED <<armed, stored, unsaved, enabled, running, tracking, siren,
                 quiet, queue, gone>>

\* ...and claimAlarm takes the lock again without asking a second time.
ClaimAlarm ==
  /\ op[Dispatcher] = "alert"
  /\ LET s == held[Dispatcher] IN
       IF s \in quiet \/ alarm # None
       THEN Finish(Dispatcher, "claim") /\ UNCHANGED alarm
       ELSE Move(Dispatcher, "claim", "trigger") /\ alarm' = s
  /\ UNCHANGED <<armed, stored, unsaved, enabled, running, tracking, siren,
                 quiet, queue, gone>>

\* TriggerSensorTest checks armed and alarmActive in one critical section, and
\* knows nothing of the grace period.
ClaimTest(p) ==
  /\ op[p] = "test"
  /\ IF armed /\ alarm = None
     THEN Move(p, "claim", "trigger") /\ alarm' = held[p]
     ELSE Finish(p, "claim") /\ UNCHANGED alarm
  /\ UNCHANGED <<armed, stored, unsaved, enabled, running, tracking, siren,
                 quiet, queue, gone>>

\* fireAlarmTrigger: starting a siren that is already sounding does nothing.
Trigger(p) ==
  /\ Finish(p, "trigger")
  /\ siren' = TRUE
  /\ UNCHANGED <<armed, stored, unsaved, enabled, running, tracking, alarm,
                 quiet, queue, gone>>

\* The grace period after a dismissal ends.
GraceOver(s) ==
  /\ s \in quiet
  /\ quiet' = quiet \ {s}
  /\ UNCHANGED <<armed, stored, unsaved, enabled, running, tracking, alarm,
                 siren, queue, pc, op, held, gone>>

(***************************************************************************)
(* handleConfigure: sensors may be switched only while disarmed.           *)
(***************************************************************************)
ConfigureCheck(p) ==
  /\ IF armed THEN Finish(p, "cfgCheck") ELSE Move(p, "cfgCheck", "cfgApply")
  /\ UNCHANGED data

Configure(p) ==
  /\ Finish(p, "cfgApply")
  /\ \/ /\ enabled' = enabled \cup {held[p]}
        /\ gone' = gone \ {held[p]}
        /\ UNCHANGED running
     \/ /\ Disable(held[p])
        /\ UNCHANGED gone
  /\ UNCHANGED <<armed, stored, unsaved, tracking, alarm, siren, quiet, queue>>

-----------------------------------------------------------------------------
\* The rest of whatever operation p is in the middle of.
Step(p) ==
  \/ SetArmed(p) \/ SaveArmed(p) \/ ArmSensors(p) \/ ArmTracker(p)
  \/ SetDisarmed(p) \/ SaveDisarmed(p) \/ StopAll(p) \/ StopTracker(p)
  \/ ClearAlarm(p) \/ Hush(p) \/ Suppress(p) \/ DisableAlarmSensor(p)
  \/ \E t \in Timers : PauseAlarmSensor(p, t)
  \/ ClaimTest(p) \/ Trigger(p)
  \/ ConfigureCheck(p) \/ Configure(p)
  \/ PauseOver(p) \/ ReEnable(p) \/ Recheck(p) \/ Restart(p)

DispatcherStep == Dispatch \/ Gate \/ ClaimAlarm \/ Step(Dispatcher)

Next ==
  \/ \E u \in Users : Ask(u)
  \/ \E p \in Users \cup Timers : Step(p)
  \/ DispatcherStep
  \/ \E a \in Alerts : Fire(a)
  \/ \E s \in Sensors : GraceOver(s)

Spec == Init /\ [][Next]_vars

\* Every goroutine the scheduler runs gets on with what it has started, and
\* the dispatcher keeps reading.  Nobody has to ask for anything, no sensor
\* has to fire.
Fairness ==
  /\ \A p \in Users \cup Timers : WF_vars(Step(p))
  /\ WF_vars(DispatcherStep)

FairSpec == Spec /\ Fairness
-----------------------------------------------------------------------------
(***************************************************************************)
(* Properties of every interleaving.                                       *)
(***************************************************************************)

\* Nobody is in the middle of an operation, and no alert is waiting.
Quiescent == queue = <<>> /\ \A p \in Process : pc[p] \in {"idle", "asleep"}

\* An alarm is one event: raised by one sensor while no other sounds, and
\* handed to exactly one of the processes that call it off, so two phones
\* answering the same alarm cannot switch off two sensors.  (clearAlarm and
\* its callers; the permit is the sensor a caller of clearAlarm still holds.)
Permit ==
  [p \in Process |->
     IF pc[p] \in {"hush", "suppress", "off"} THEN held[p] ELSE None]

Ledger == INSTANCE AlarmLedger WITH permit <- Permit
AlarmIsOneEvent == Ledger!LedgerSpec

\* A user who has called s's alarm off, or was told to switch s and had seen the
\* machine disarmed.
MaySwitchOff(s) == \E u \in Users : held[u] = s /\ pc[u] \in {"off", "cfgApply"}

\* A sensor stops being used only by an answer to an alarm that very sensor
\* raised, or by a configuration message that saw the machine disarmed: a
\* paired phone cannot switch sensors off one by one under an armed machine,
\* which would be disarming it without the PIN.  (pauseAlarmSensor,
\* disableAlarmSensor, handleConfigure.)
SwitchOffIsAnAnswer ==
  [][\A s \in enabled \ enabled' : MaySwitchOff(s)]_vars

\* However the siren came to be sounding, a dismissal or a disarm that has
\* begun silences it at some point: Stop is called whether or not the hub
\* still believes an alarm is active.  (clearAlarm, fireAlarmDismiss.)
DismissalSilences ==
  \A u \in Users : (pc[u] = "clear") ~> ~siren

\* A paused sensor is put back to work, armed or not: a pause left asleep is a
\* promise to switch its sensor on.  (pauseAlarmSensor, unpauseSensor.)
PauseEnds ==
  \A t \in Timers, s \in Sensors :
    (pc[t] = "asleep" /\ held[t] = s) ~> (s \in enabled)

(***************************************************************************)
(* Properties that hold when only one process arms and disarms.            *)
(***************************************************************************)

\* Armed and settled, every sensor the owner switched on and this machine has
\* is started, pauses that end during an arm included: the flag is set before
\* the sensors are started, so either the arm or the pause's own recheck
\* starts the sensor.  (Arm, unpauseSensor.)
WatchIsCovered ==
  (armed /\ Quiescent) => enabled \cap Available \subseteq running

\* What the next run will read is what this one is doing, unless the very last
\* change of the flag could not be written: however many saves have failed, one
\* that succeeds makes the file right again.  The tracker follows the watch
\* whatever becomes of the file.  (persistArmed, Arm, Disarm.)
RecordAgrees ==
  Quiescent => /\ tracking = (armed /\ Located)
               /\ stored # armed => unsaved

(***************************************************************************)
(* What the source and its documents say of the watch.  Every one of these *)
(* is false of some interleaving; the README says what happens in each.    *)
(***************************************************************************)

\* Disarm "deactivates monitoring and stops any active alarm": with every
\* operation finished, a disarmed machine is silent.  Broken by a disarm that
\* runs between dispatchAlert's IsArmed and the siren.
DisarmedIsSilent == (Quiescent /\ ~armed) => (~siren /\ alarm = None)

\* persistArmed "records the armed state for the next run to read".  Broken by a
\* Save that fails, which is logged, and by nothing that happens later unless the
\* flag is set again.
ArmedIsRecorded == Quiescent => stored = armed

\* An active alarm is one "currently sounding".  Broken when a dismissal's
\* Stop lands after the next alarm found the siren already playing.
AlarmIsAudible == (Quiescent /\ alarm # None) => siren

\* The input sensor "is held quiet for a moment rather than re-raising" the
\* alarm "on the movement that cleared it".  Broken while dismissAlarm is still
\* stopping the siren: the grace period starts only after that.
HeldQuiet ==
  \A u \in Users :
    (op[u] = "dismiss" /\ pc[u] \in {"hush", "suppress"} /\ held[u] = Input)
      => ~ (pc[Dispatcher] = "trigger" /\ held[Dispatcher] = Input)

\* disableAlarmSensor stops using a sensor "for good".  Broken by a pause of the
\* same sensor that was still asleep.
StaysOff == gone \cap enabled = {}

\* unpauseSensor starts the sensor again only "if the machine is still being
\* watched".  Broken by a disarm between its IsArmed and its StartEnabled.
StoppedWhenDisarmed == (Quiescent /\ ~armed /\ ~AutoArm) => running = {}

\* "Sensor changes are refused while armed."  Broken by an arm between
\* handleConfigure's IsArmed and its Disable.
NoChangeWhileArmed ==
  [][(\E u \in Users : pc[u] = "cfgApply" /\ pc'[u] = "idle")
        /\ enabled' # enabled => ~armed]_vars

\* auto_arm_on_lock arms "automatically when the screen locks", which takes a
\* screen sensor that is running while the machine is disarmed.  The first
\* disarm stops it and nothing starts it again.
LockIsSeen ==
  (AutoArm /\ Quiescent /\ ~armed /\ Screen \in enabled \cap Available)
     => Screen \in running
=============================================================================
