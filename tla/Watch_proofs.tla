----------------------------- MODULE Watch_proofs -----------------------------
(***************************************************************************)
(* Proofs about Watch, for any number of users, timers and sensors.        *)
(*                                                                         *)
(* TypeOK is not inductive on its own: what a process holds when it        *)
(* switches a sensor off, on, or into its grace period has to be a sensor, *)
(* and that was decided several steps earlier.  Holding says so, and Roles *)
(* says which of the three kinds of process can be at which step.          *)
(***************************************************************************)
EXTENDS Watch, TLAPS

HoldingPlaces == {"gate", "claim", "trigger", "cfgCheck", "cfgApply", "off",
                  "suppress", "asleep", "wake", "recheck", "restart"}

\* At these steps a process is dealing with a sensor, not with nothing, and at
\* one of them with the input sensor.
Fits(place, s) ==
  /\ place \in HoldingPlaces => s \in Sensors
  /\ place = "suppress" => s = Input

Holding == \A p \in Process : Fits(pc[p], held[p])

TimerPlaces == {"asleep", "wake", "recheck", "restart"}
ConfigurePlaces == {"cfgCheck", "cfgApply"}

\* Whether a process of p's kind may be at a step, in an operation.
MayBe(p, place, o) ==
  /\ p \in Timers => place \in TimerPlaces \cup {"idle"}
  /\ p \notin Timers => place \notin TimerPlaces
  /\ p = Dispatcher => /\ place \notin ConfigurePlaces
                       /\ o \in {"none", "arm", "disarm", "alert"}
  /\ place = "off" => o \in {"pause", "disable"}

Roles == \A p \in Process : MayBe(p, pc[p], op[p])

ControlTypeOK ==
  /\ pc \in [Process -> Places]
  /\ op \in [Process -> OperationNames]
  /\ held \in [Process -> Sensors \cup {None}]

ControlInv == ControlTypeOK /\ Holding /\ Roles

DataTypeOK ==
  /\ armed \in BOOLEAN /\ stored \in BOOLEAN /\ unsaved \in BOOLEAN
  /\ tracking \in BOOLEAN /\ siren \in BOOLEAN
  /\ enabled \subseteq Sensors /\ running \subseteq Sensors
  /\ alarm \in Sensors \cup {None}
  /\ quiet \subseteq Sensors /\ gone \subseteq Sensors
  /\ queue \in Seq(Alerts)

USE NoneIsNoSensor, DistinctProcesses, InputIsAName, FlagsAreFlags

-----------------------------------------------------------------------------
(***************************************************************************)
(* Control: the three ways a process moves keep ControlInv.                *)
(***************************************************************************)
LEMMA MoveControl ==
  ASSUME ControlInv, NEW p \in Process, NEW from, NEW to \in Places,
         Move(p, from, to), MayBe(p, to, op[p]), Fits(to, held[p])
  PROVE  ControlInv'
  <1>1. ControlTypeOK'
    BY DEF ControlInv, ControlTypeOK, Move
  <1>2. Holding'
    BY DEF ControlInv, ControlTypeOK, Holding, Move
  <1>3. Roles'
    BY DEF ControlInv, ControlTypeOK, Roles, Move
  <1>4. QED
    BY <1>1, <1>2, <1>3 DEF ControlInv

LEMMA FinishControl ==
  ASSUME ControlInv, NEW p \in Process, NEW from, Finish(p, from)
  PROVE  ControlInv'
  <1>1. ControlTypeOK'
    BY DEF ControlInv, ControlTypeOK, Finish, Places, OperationNames
  <1>2. Holding'
    BY DEF ControlInv, ControlTypeOK, Holding, Finish, Fits, HoldingPlaces
  <1>3. MayBe(p, "idle", "none")
    BY DEF MayBe, TimerPlaces, ConfigurePlaces
  <1>4. Roles'
    BY <1>3 DEF ControlInv, ControlTypeOK, Roles, Finish
  <1>5. QED
    BY <1>1, <1>2, <1>4 DEF ControlInv

LEMMA BeginControl ==
  ASSUME ControlInv, NEW p \in Process, NEW o \in OperationNames,
         NEW s \in Sensors \cup {None}, NEW at \in Places,
         Begin(p, o, s, at), MayBe(p, at, o), Fits(at, s)
  PROVE  ControlInv'
  <1>1. ControlTypeOK'
    BY DEF ControlInv, ControlTypeOK, Begin
  <1>2. Holding'
    BY DEF ControlInv, ControlTypeOK, Holding, Begin
  <1>3. Roles'
    BY DEF ControlInv, ControlTypeOK, Roles, Begin
  <1>4. QED
    BY <1>1, <1>2, <1>3 DEF ControlInv

LEMMA ClearControl ==
  ASSUME ControlInv, alarm \in Sensors \cup {None}, NEW p \in Process,
         ClearAlarm(p)
  PROVE  ControlInv'
  <1>1. ControlTypeOK'
    BY DEF ControlInv, ControlTypeOK, ClearAlarm, Places
  <1>2. Holding'
    BY DEF ControlInv, ControlTypeOK, Holding, ClearAlarm, Fits, HoldingPlaces
  <1>3. MayBe(p, "hush", op[p])
    BY DEF ControlInv, Roles, MayBe, ClearAlarm, TimerPlaces, ConfigurePlaces
  <1>4. Roles'
    BY <1>3 DEF ControlInv, ControlTypeOK, Roles, ClearAlarm
  <1>5. QED
    BY <1>1, <1>2, <1>4 DEF ControlInv

LEMMA PauseControl ==
  ASSUME ControlInv, NEW p \in Process, NEW t \in Timers,
         PauseAlarmSensor(p, t)
  PROVE  ControlInv'
  <1>1. /\ t \in Process /\ p # t /\ held[p] \in Sensors
    BY DEF Process, ControlInv, Holding, Fits, HoldingPlaces,
                PauseAlarmSensor
  <1>2. ControlTypeOK'
    BY <1>1 DEF ControlInv, ControlTypeOK, PauseAlarmSensor, Places,
                OperationNames
  <1>3. Holding'
    BY <1>1 DEF ControlInv, ControlTypeOK, Holding, PauseAlarmSensor,
                Fits, HoldingPlaces
  <1>4. MayBe(p, "idle", "none") /\ MayBe(t, "asleep", "unpause")
    BY DEF MayBe, TimerPlaces, ConfigurePlaces
  <1>5. Roles'
    BY <1>1, <1>4 DEF ControlInv, ControlTypeOK, Roles, PauseAlarmSensor
  <1>6. QED
    BY <1>2, <1>3, <1>5 DEF ControlInv

\* The steps a process takes on its own, as a move, a finish or one of the two
\* steps above.
LEMMA StepControl ==
  ASSUME ControlInv, DataTypeOK, NEW p \in Process, Step(p)
  PROVE  ControlInv'
  <1> USE DEF Places, HoldingPlaces, Fits, MayBe, TimerPlaces, ConfigurePlaces
  <1>a. MayBe(p, pc[p], op[p]) /\ Fits(pc[p], held[p])
    BY DEF ControlInv, Roles, Holding
  <1>1. CASE SetArmed(p) \/ SaveArmed(p) \/ ArmSensors(p) \/ ArmTracker(p)
    <2>1. \/ \E to \in {"armSave", "armStart", "armTrack"} :
               Move(p, pc[p], to) /\ pc[p] \in {"arm", "armSave", "armStart"}
          \/ Finish(p, "armTrack")
      BY <1>1 DEF SetArmed, SaveArmed, ArmSensors, ArmTracker, Move
    <2>2. QED
      BY <2>1, <1>a, MoveControl, FinishControl
  <1>2. CASE SetDisarmed(p) \/ SaveDisarmed(p) \/ StopAll(p) \/ StopTracker(p)
    <2>1. \E to \in {"disarmSave", "stopAll", "untrack", "clear"} :
             /\ Move(p, pc[p], to)
             /\ pc[p] \in {"disarm", "disarmSave", "stopAll", "untrack"}
      BY <1>2 DEF SetDisarmed, SaveDisarmed, StopAll, StopTracker, Move
    <2>2. QED
      BY <2>1, <1>a, MoveControl
  <1>3. CASE ClearAlarm(p)
    BY <1>3, ClearControl DEF DataTypeOK
  <1>4. CASE Hush(p)
    <2>1. CASE op[p] = "dismiss" /\ held[p] = Input /\ Move(p, "hush", "suppress")
      <3>1. held[p] \in Sensors
        BY <2>1 DEF ControlInv, ControlTypeOK
      <3>2. p \notin Timers /\ p # Dispatcher
        BY <2>1, <1>a DEF Move
      <3>3. QED
        BY <2>1, <3>1, <3>2, <1>a, MoveControl
    <2>2. CASE op[p] \in {"pause", "disable"} /\ held[p] # None
                 /\ Move(p, "hush", "off")
      <3>1. held[p] \in Sensors
        BY <2>2 DEF ControlInv, ControlTypeOK
      <3>2. p \notin Timers /\ p # Dispatcher
        BY <2>2, <1>a DEF Move
      <3>3. QED
        BY <2>2, <3>1, <3>2, <1>a, MoveControl
    <2>3. CASE Finish(p, "hush")
      BY <2>3, FinishControl
    <2>4. QED
      BY <1>4, <2>1, <2>2, <2>3 DEF Hush
  <1>5. CASE Suppress(p) \/ DisableAlarmSensor(p) \/ Trigger(p) \/ Configure(p)
               \/ Restart(p)
    BY <1>5, FinishControl
    DEF Suppress, DisableAlarmSensor, Trigger, Configure, Restart
  <1>6. CASE \E t \in Timers : PauseAlarmSensor(p, t)
    BY <1>6, PauseControl
  <1>7. CASE ClaimTest(p)
    <2>1. Finish(p, "claim") \/ Move(p, "claim", "trigger")
      BY <1>7 DEF ClaimTest
    <2>2. QED
      BY <2>1, <1>a, MoveControl, FinishControl DEF Move
  <1>8. CASE ConfigureCheck(p)
    <2>1. Finish(p, "cfgCheck") \/ Move(p, "cfgCheck", "cfgApply")
      BY <1>8 DEF ConfigureCheck
    <2>2. QED
      BY <2>1, <1>a, MoveControl, FinishControl DEF Move
  <1>9. CASE PauseOver(p) \/ ReEnable(p) \/ Recheck(p)
    <2>1. \/ \E to \in {"wake", "recheck", "restart"} :
               Move(p, pc[p], to) /\ pc[p] \in {"asleep", "wake", "recheck"}
          \/ Finish(p, "recheck")
      BY <1>9 DEF PauseOver, ReEnable, Recheck, Move
    <2>2. QED
      BY <2>1, <1>a, MoveControl, FinishControl
  <1>10. QED
    BY <1>1, <1>2, <1>3, <1>4, <1>5, <1>6, <1>7, <1>8, <1>9 DEF Step

LEMMA ControlStep ==
  ASSUME ControlInv, DataTypeOK, Next
  PROVE  ControlInv'
  <1> USE DEF Places, HoldingPlaces, Fits, MayBe, TimerPlaces, ConfigurePlaces,
              OperationNames
  <1>1. CASE \E u \in Users : Ask(u)
    <2>1. PICK u \in Users : Ask(u)
      BY <1>1
    <2>2. u \in Process /\ u \notin Timers /\ u # Dispatcher
      BY DEF Process
    <2>3. PICK o \in OperationNames \ {"none"}, s \in Sensors \cup {None},
               place \in {"arm", "disarm", "clear", "claim", "cfgCheck"} :
            /\ Begin(u, o, s, place)
            /\ Fits(place, s)
      <3>1. CASE Begin(u, "arm", None, "arm")
        BY <3>1
      <3>2. CASE Begin(u, "disarm", None, "disarm")
        BY <3>2
      <3>3. CASE \E o \in {"dismiss", "pause", "disable"} :
                   Begin(u, o, None, "clear")
        BY <3>3
      <3>4. CASE \E s \in Sensors : Begin(u, "test", s, "claim")
        BY <3>4
      <3>5. CASE \E s \in Sensors : Begin(u, "configure", s, "cfgCheck")
        BY <3>5
      <3>6. QED
        BY <2>1, <3>1, <3>2, <3>3, <3>4, <3>5 DEF Ask
    <2>4. QED
      BY <2>2, <2>3, BeginControl
  <1>2. CASE \E p \in Users \cup Timers : Step(p)
    BY <1>2, StepControl DEF Process
  <1>3. CASE DispatcherStep
    <2>1. Dispatcher \in Process
      BY DEF Process
    <2>2. CASE Dispatch
      <3>1. Head(queue) \in Alerts
        BY <2>2 DEF Dispatch, DataTypeOK
      <3>2. Head(queue).sensor \in Sensors
        BY <3>1 DEF Alerts
      <3>3. \/ Begin(Dispatcher, "arm", None, "arm")
            \/ Begin(Dispatcher, "disarm", None, "disarm")
            \/ Begin(Dispatcher, "alert", Head(queue).sensor, "gate")
        BY <2>2 DEF Dispatch
      <3>4. QED
        BY <2>1, <3>2, <3>3, BeginControl
    <2>3. CASE Gate \/ ClaimAlarm
      <3>1. \/ Move(Dispatcher, "gate", "claim")
            \/ Move(Dispatcher, "claim", "trigger")
            \/ \E from : Finish(Dispatcher, from)
        BY <2>3 DEF Gate, ClaimAlarm
      <3>2. pc[Dispatcher] \in {"gate", "claim"} => held[Dispatcher] \in Sensors
        BY <2>1 DEF ControlInv, Holding
      <3>3. op[Dispatcher] \in {"none", "arm", "disarm", "alert"}
        BY <2>1 DEF ControlInv, Roles
      <3>4. QED
        BY <2>1, <3>1, <3>2, <3>3, MoveControl, FinishControl DEF Move
    <2>4. CASE Step(Dispatcher)
      BY <2>1, <2>4, StepControl
    <2>5. QED
      BY <1>3, <2>2, <2>3, <2>4 DEF DispatcherStep
  <1>4. CASE \/ \E a \in Alerts : Fire(a)
            \/ \E s \in Sensors : GraceOver(s)
    <2>1. UNCHANGED <<pc, op, held>>
      BY <1>4 DEF Fire, GraceOver
    <2>2. QED
      BY <2>1 DEF ControlInv, ControlTypeOK, Holding, Roles
  <1>5. QED
    BY <1>1, <1>2, <1>3, <1>4 DEF Next

-----------------------------------------------------------------------------
(***************************************************************************)
(* Data: what the steps write is of the right kind, because of what the    *)
(* process that takes them holds.                                          *)
(***************************************************************************)
LEMMA DataOfStep ==
  ASSUME ControlInv, DataTypeOK, NEW p \in Process, Step(p)
  PROVE  DataTypeOK'
  <1> USE DEF DataTypeOK
  <1>a. Fits(pc[p], held[p])
    BY DEF ControlInv, Holding
  <1>1. CASE \/ SetArmed(p) \/ SaveArmed(p) \/ ArmTracker(p)
            \/ SetDisarmed(p) \/ SaveDisarmed(p) \/ StopAll(p)
            \/ StopTracker(p) \/ Trigger(p)
    BY <1>1 DEF SetArmed, SaveArmed, ArmTracker, SetDisarmed, SaveDisarmed,
                Persist, StopAll, StopTracker, Trigger
  <1>2. CASE ArmSensors(p) \/ Restart(p)
    BY <1>2 DEF ArmSensors, Restart, StartEnabled
  <1>3. CASE ClearAlarm(p) \/ Hush(p)
    BY <1>3 DEF ClearAlarm, Hush
  <1>4. CASE Suppress(p) \/ ReEnable(p)
    BY <1>4, <1>a DEF Suppress, ReEnable, Finish, Move, Fits, HoldingPlaces
  <1>5. CASE DisableAlarmSensor(p) \/ Configure(p)
    BY <1>5, <1>a DEF DisableAlarmSensor, Configure, Disable, Finish,
                      Fits, HoldingPlaces
  <1>6. CASE \E t \in Timers : PauseAlarmSensor(p, t)
    BY <1>6 DEF PauseAlarmSensor, Disable
  <1>7. CASE ClaimTest(p)
    BY <1>7, <1>a DEF ClaimTest, Move, Fits, HoldingPlaces
  <1>8. CASE ConfigureCheck(p) \/ PauseOver(p) \/ Recheck(p)
    BY <1>8 DEF ConfigureCheck, PauseOver, Recheck, data
  <1>9. QED
    BY <1>1, <1>2, <1>3, <1>4, <1>5, <1>6, <1>7, <1>8 DEF Step

LEMMA DataStep ==
  ASSUME ControlInv, DataTypeOK, Next
  PROVE  DataTypeOK'
  <1>1. CASE \E u \in Users : Ask(u)
    BY <1>1 DEF Ask, data, DataTypeOK
  <1>2. CASE (\E p \in Users \cup Timers : Step(p)) \/ Step(Dispatcher)
    BY <1>2, DataOfStep DEF Process
  <1>3. CASE Dispatch
    BY <1>3 DEF Dispatch, DataTypeOK
  <1>4. CASE Gate
    BY <1>4 DEF Gate, data, DataTypeOK
  <1>5. CASE ClaimAlarm
    <2>1. pc[Dispatcher] = "claim" => held[Dispatcher] \in Sensors
      BY DEF ControlInv, Holding, Fits, HoldingPlaces, Process
    <2>2. QED
      BY <1>5, <2>1 DEF ClaimAlarm, Move, DataTypeOK
  <1>6. CASE \E a \in Alerts : Fire(a)
    BY <1>6 DEF Fire, DataTypeOK
  <1>7. CASE \E s \in Sensors : GraceOver(s)
    BY <1>7 DEF GraceOver, DataTypeOK
  <1>8. QED
    BY <1>1, <1>2, <1>3, <1>4, <1>5, <1>6, <1>7 DEF Next, DispatcherStep

-----------------------------------------------------------------------------
WInv == ControlInv /\ DataTypeOK

LEMMA InitWInv == Init => WInv
  <1> SUFFICES ASSUME Init PROVE WInv
    OBVIOUS
  <1>1. ControlTypeOK
    BY DEF Init, ControlTypeOK, Places, OperationNames
  <1>2. Holding
    BY DEF Init, Holding, Fits, HoldingPlaces
  <1>3. Roles
    BY DEF Init, Roles, MayBe, TimerPlaces, ConfigurePlaces
  <1>4. running \subseteq Sensors
    BY DEF Init
  <1>5. queue \in Seq(Alerts)
    BY DEF Init
  <1>6. DataTypeOK
    BY <1>4, <1>5 DEF Init, DataTypeOK
  <1>7. QED
    BY <1>1, <1>2, <1>3, <1>6 DEF WInv, ControlInv

LEMMA StutterWInv == WInv /\ UNCHANGED vars => WInv'
  BY DEF WInv, ControlInv, ControlTypeOK, Holding, Roles, DataTypeOK, vars

THEOREM WatchInvariant == Spec => []WInv
  <1>1. WInv /\ [Next]_vars => WInv'
    BY ControlStep, DataStep, StutterWInv DEF WInv
  <1>2. QED
    BY <1>1, InitWInv, PTL DEF Spec

\* Every variable keeps its type, for any users, timers, sensors and capacity.
THEOREM TypeCorrect == Spec => []TypeOK
  <1>1. WInv => TypeOK
    BY DEF WInv, ControlInv, ControlTypeOK, DataTypeOK, TypeOK
  <1>2. QED
    BY <1>1, WatchInvariant, PTL

-----------------------------------------------------------------------------
(***************************************************************************)
(* Watch implements AlarmLedger: an alarm is one event.                    *)
(***************************************************************************)
PermitPlaces == {"hush", "suppress", "off"}

LEMMA PermitType == ControlInv => Permit \in [Process -> Sensors \cup {None}]
  BY DEF ControlInv, ControlTypeOK, Permit

LEMMA PermitOfMove ==
  ASSUME ControlInv, NEW p \in Process, NEW from, NEW to,
         Move(p, from, to), from \in PermitPlaces <=> to \in PermitPlaces
  PROVE  Permit' = Permit
  <1>1. ASSUME NEW q \in Process PROVE Permit'[q] = Permit[q]
    BY DEF ControlInv, ControlTypeOK, Move, Permit, PermitPlaces
  <1>2. QED
    BY <1>1 DEF Permit

LEMMA PermitOfFinish ==
  ASSUME ControlInv, NEW p \in Process, NEW from, Finish(p, from)
  PROVE  Permit' = [Permit EXCEPT ![p] = None]
  <1>1. ASSUME NEW q \in Process
        PROVE  Permit'[q] = [Permit EXCEPT ![p] = None][q]
    BY DEF ControlInv, ControlTypeOK, Finish, Permit
  <1>2. QED
    BY <1>1 DEF Permit

\* Finishing spends the permit, if there was one.
LEMMA FinishSpends ==
  ASSUME ControlInv, NEW p \in Process, NEW from, Finish(p, from),
         alarm' = alarm
  PROVE  Ledger!Spend(p) \/ UNCHANGED <<alarm, Permit>>
  <1>1. CASE Permit[p] = None
    BY <1>1, PermitOfFinish, PermitType
  <1>2. CASE Permit[p] # None
    BY <1>2, PermitOfFinish DEF Ledger!Spend
  <1>3. QED
    BY <1>1, <1>2

LEMMA LedgerOfStep ==
  ASSUME WInv, NEW p \in Process, Step(p)
  PROVE  [Ledger!LedgerNext]_<<alarm, Permit>>
  <1> USE DEF PermitPlaces
  <1>a. ControlInv
    BY DEF WInv
  <1>b. Ledger!Spend(p) \/ UNCHANGED <<alarm, Permit>>
           => [Ledger!LedgerNext]_<<alarm, Permit>>
    BY DEF Ledger!LedgerNext
  <1>1. CASE \/ SetArmed(p) \/ SaveArmed(p) \/ ArmSensors(p)
            \/ SetDisarmed(p) \/ SaveDisarmed(p) \/ StopAll(p)
            \/ StopTracker(p) \/ PauseOver(p) \/ ReEnable(p)
    <2>1. /\ alarm' = alarm
          /\ \E from, to \in Places \ PermitPlaces : Move(p, from, to)
      BY <1>1 DEF SetArmed, SaveArmed, ArmSensors, SetDisarmed, SaveDisarmed,
                  StopAll, StopTracker, PauseOver, ReEnable, data, Places
    <2>2. QED
      BY <2>1, <1>a, <1>b, PermitOfMove
  <1>2. CASE \/ ArmTracker(p) \/ Suppress(p) \/ DisableAlarmSensor(p)
            \/ Trigger(p) \/ Configure(p) \/ Restart(p)
    <2>1. alarm' = alarm /\ \E from : Finish(p, from)
      BY <1>2 DEF ArmTracker, Suppress, DisableAlarmSensor, Trigger, Configure,
                  Restart
    <2>2. QED
      BY <2>1, <1>a, <1>b, FinishSpends
  <1>3. CASE ConfigureCheck(p) \/ Recheck(p)
    <2>1. /\ alarm' = alarm
          /\ \/ \E from : Finish(p, from)
             \/ \E from, to \in Places \ PermitPlaces : Move(p, from, to)
      BY <1>3 DEF ConfigureCheck, Recheck, data, Places
    <2>2. QED
      BY <2>1, <1>a, <1>b, FinishSpends, PermitOfMove
  <1>4. CASE ClearAlarm(p)
    <2>1. CASE op[p] = "disarm"
      <3>1. ASSUME NEW q \in Process PROVE Permit'[q] = Permit[q]
        BY <1>4, <2>1, <1>a DEF ControlInv, ControlTypeOK, ClearAlarm, Permit
      <3>2. Permit' = Permit
        BY <3>1 DEF Permit
      <3>3. Ledger!Discard
        BY <1>4, <3>2 DEF ClearAlarm, Ledger!Discard
      <3>4. QED
        BY <3>3 DEF Ledger!LedgerNext
    <2>2. CASE op[p] # "disarm"
      <3>1. ASSUME NEW q \in Process
            PROVE  Permit'[q] = [Permit EXCEPT ![p] = alarm][q]
        BY <1>4, <2>2, <1>a DEF ControlInv, ControlTypeOK, ClearAlarm, Permit
      <3>2. Permit' = [Permit EXCEPT ![p] = alarm]
        BY <3>1 DEF Permit
      <3>3. Permit[p] = None
        BY <1>4 DEF ClearAlarm, Permit
      <3>4. Ledger!CallOff(p)
        BY <1>4, <3>2, <3>3 DEF ClearAlarm, Ledger!CallOff
      <3>5. QED
        BY <3>4 DEF Ledger!LedgerNext
    <2>3. QED
      BY <2>1, <2>2
  <1>5. CASE Hush(p)
    <2>1. alarm' = alarm
      BY <1>5 DEF Hush
    <2>2. CASE Move(p, "hush", "suppress") \/ Move(p, "hush", "off")
      BY <2>1, <2>2, <1>a, <1>b, PermitOfMove
    <2>3. CASE Finish(p, "hush")
      BY <2>1, <2>3, <1>a, <1>b, FinishSpends
    <2>4. QED
      BY <1>5, <2>2, <2>3 DEF Hush
  <1>6. CASE \E t \in Timers : PauseAlarmSensor(p, t)
    <2>1. PICK t \in Timers : PauseAlarmSensor(p, t)
      BY <1>6
    <2>2. t \in Process
      BY DEF Process
    <2>3. held[p] # None
      BY <2>1, <1>a DEF PauseAlarmSensor, ControlInv, Holding, Fits,
                        HoldingPlaces
    <2>4. ASSUME NEW q \in Process
          PROVE  Permit'[q] = [Permit EXCEPT ![p] = None][q]
      BY <2>1, <2>2, <1>a
      DEF PauseAlarmSensor, ControlInv, ControlTypeOK, Permit
    <2>5. Permit' = [Permit EXCEPT ![p] = None]
      BY <2>4 DEF Permit
    <2>6. Ledger!Spend(p)
      BY <2>1, <2>3, <2>5 DEF PauseAlarmSensor, Permit, Ledger!Spend
    <2>7. QED
      BY <2>6, <1>b
  <1>7. CASE ClaimTest(p)
    <2>1. CASE Finish(p, "claim") /\ alarm' = alarm
      BY <2>1, <1>a, <1>b, FinishSpends
    <2>2. CASE Move(p, "claim", "trigger") /\ alarm = None /\ alarm' = held[p]
      <3>1. Permit' = Permit
        BY <2>2, <1>a, PermitOfMove
      <3>2. held[p] \in Sensors
        BY <2>2, <1>a DEF Move, ControlInv, Holding, Fits, HoldingPlaces
      <3>3. Ledger!Raise(held[p])
        BY <2>2, <3>1 DEF Ledger!Raise
      <3>4. QED
        BY <3>2, <3>3 DEF Ledger!LedgerNext
    <2>3. QED
      BY <1>7, <2>1, <2>2 DEF ClaimTest
  <1>8. QED
    BY <1>1, <1>2, <1>3, <1>4, <1>5, <1>6, <1>7 DEF Step

LEMMA LedgerStep ==
  ASSUME WInv, Next
  PROVE  [Ledger!LedgerNext]_<<alarm, Permit>>
  <1> USE DEF PermitPlaces
  <1>a. ControlInv /\ Dispatcher \in Process
    BY DEF WInv, Process
  <1>b. ASSUME NEW p \in Process, NEW o, NEW s, NEW place, Begin(p, o, s, place),
               place \notin PermitPlaces
        PROVE  Permit' = Permit
    <2>1. ASSUME NEW q \in Process PROVE Permit'[q] = Permit[q]
      BY <1>a, <1>b DEF ControlInv, ControlTypeOK, Begin, Permit
    <2>2. QED
      BY <2>1 DEF Permit
  <1>1. CASE \E u \in Users : Ask(u)
    <2>1. PICK u \in Users : Ask(u)
      BY <1>1
    <2>2. /\ u \in Process
          /\ \E o, s, place : Begin(u, o, s, place) /\ place \notin PermitPlaces
      BY <2>1 DEF Ask, Process
    <2>3. QED
      BY <2>1, <2>2, <1>b DEF Ask, data
  <1>2. CASE \E p \in Users \cup Timers : Step(p)
    BY <1>2, LedgerOfStep DEF Process
  <1>3. CASE DispatcherStep
    <2>1. CASE Dispatch
      <3>1. \E o, s, place :
               Begin(Dispatcher, o, s, place) /\ place \notin PermitPlaces
        BY <2>1 DEF Dispatch
      <3>2. QED
        BY <2>1, <3>1, <1>a, <1>b DEF Dispatch
    <2>2. CASE Gate
      <3>1. CASE Move(Dispatcher, "gate", "claim")
        BY <2>2, <3>1, <1>a, PermitOfMove DEF Gate, data
      <3>2. CASE Finish(Dispatcher, "gate")
        BY <2>2, <3>2, <1>a, FinishSpends DEF Gate, data, Ledger!LedgerNext
      <3>3. QED
        BY <2>2, <3>1, <3>2 DEF Gate
    <2>3. CASE ClaimAlarm
      <3>1. CASE Finish(Dispatcher, "claim") /\ alarm' = alarm
        BY <3>1, <1>a, FinishSpends DEF Ledger!LedgerNext
      <3>2. CASE /\ Move(Dispatcher, "claim", "trigger")
                 /\ alarm = None /\ alarm' = held[Dispatcher]
        <4>1. Permit' = Permit
          BY <3>2, <1>a, PermitOfMove
        <4>2. held[Dispatcher] \in Sensors
          BY <3>2, <1>a DEF Move, ControlInv, Holding, Fits, HoldingPlaces
        <4>3. Ledger!Raise(held[Dispatcher])
          BY <3>2, <4>1 DEF Ledger!Raise
        <4>4. QED
          BY <4>2, <4>3 DEF Ledger!LedgerNext
      <3>3. QED
        BY <2>3, <3>1, <3>2 DEF ClaimAlarm
    <2>4. CASE Step(Dispatcher)
      BY <2>4, <1>a, LedgerOfStep
    <2>5. QED
      BY <1>3, <2>1, <2>2, <2>3, <2>4 DEF DispatcherStep
  <1>4. CASE \/ \E a \in Alerts : Fire(a)
            \/ \E s \in Sensors : GraceOver(s)
    BY <1>4 DEF Fire, GraceOver, Permit
  <1>5. QED
    BY <1>1, <1>2, <1>3, <1>4 DEF Next

\* An alarm is one event: Watch, with any number of phones, pauses and sensors,
\* is an implementation of AlarmLedger, where a sensor is handed to one caller.
THEOREM AlarmIsOneEventHolds == Spec => AlarmIsOneEvent
  <1>1. Init => Ledger!LedgerInit
    BY DEF Init, Ledger!LedgerInit, Permit
  <1>2. WInv /\ [Next]_vars => [Ledger!LedgerNext]_(Ledger!lvars)
    <2>1. WInv /\ Next => [Ledger!LedgerNext]_<<alarm, Permit>>
      BY LedgerStep
    <2>2. UNCHANGED vars => UNCHANGED <<alarm, Permit>>
      BY DEF vars, Permit
    <2>3. QED
      BY <2>1, <2>2 DEF Ledger!lvars
  <1>3. QED
    BY <1>1, <1>2, WatchInvariant, PTL DEF Spec, AlarmIsOneEvent, Ledger!LedgerSpec

-----------------------------------------------------------------------------
(***************************************************************************)
(* Which steps take a sensor out of use.                                   *)
(***************************************************************************)
\* A sensor leaves "enabled" only in the hands of the process that called its
\* alarm off, or of a configure message that had seen the machine disarmed.
THEOREM SwitchOffHolds == Spec => SwitchOffIsAnAnswer
  <1>1. ASSUME WInv, Next, NEW s \in enabled \ enabled'
        PROVE  MaySwitchOff(s)
    <2>1. \E p \in Process : Step(p) /\ s \in enabled \ enabled'
      BY <1>1 DEF Next, DispatcherStep, Ask, Dispatch, Gate, ClaimAlarm, Fire,
                  GraceOver, data, Process
    <2>2. PICK p \in Process : Step(p)
      BY <2>1
    <2>3. \/ DisableAlarmSensor(p) \/ Configure(p)
          \/ \E t \in Timers : PauseAlarmSensor(p, t)
      BY <2>2, <1>1
      DEF Step, SetArmed, SaveArmed, ArmSensors, ArmTracker, SetDisarmed,
          SaveDisarmed, Persist, StopAll, StopTracker, ClearAlarm, Hush, Suppress,
          ClaimTest, Trigger, ConfigureCheck, PauseOver, ReEnable, Recheck,
          Restart, data
    <2>4. s = held[p] /\ (pc[p] = "off" \/ pc[p] = "cfgApply")
      BY <2>3, <1>1
      DEF DisableAlarmSensor, Configure, PauseAlarmSensor, Disable, Finish
    <2>5. p \in Users
      BY <2>4, <1>1 DEF WInv, ControlInv, Roles, MayBe, TimerPlaces,
                        ConfigurePlaces, Process
    <2>6. QED
      BY <2>4, <2>5 DEF MaySwitchOff
  <1>2. WInv /\ [Next]_vars
          => [\A s \in enabled \ enabled' : MaySwitchOff(s)]_vars
    BY <1>1
  <1>3. QED
    BY <1>2, WatchInvariant, PTL DEF Spec, SwitchOffIsAnAnswer
-----------------------------------------------------------------------------
(***************************************************************************)
(* One owner: what is armed is recorded, tracked and covered.              *)
(*                                                                         *)
(* Neither property is inductive: between two steps of an arm or a disarm  *)
(* the flag has run ahead of the file, the sensors and the tracker.  So    *)
(* the invariant says how far each may be behind, by where the owner is,   *)
(* and that a pause which has just switched its sensor on is still to      *)
(* look at the flag.  The file may stay behind past the save, but only     *)
(* when that very save failed.                                             *)
(***************************************************************************)
OneOwner == ~AutoArm /\ \A u, v \in Users : u = v

ArmingPlaces == {"armSave", "armStart", "armTrack"}
DisarmingPlaces == {"disarmSave", "stopAll", "untrack"}

\* Nobody is between the flag and what follows it.
Saved == \A u \in Users : pc[u] \notin {"armSave", "disarmSave"}
Tracked == \A u \in Users : pc[u] \notin ArmingPlaces \cup DisarmingPlaces
Started ==
  /\ \A u \in Users : pc[u] \notin {"armSave", "armStart"}
  /\ \A t \in Timers : pc[t] \notin {"recheck", "restart"}

\* The flag is the owner's: it stays while they are on the way that set or read it.
OwnersFlag ==
  \A u \in Users : /\ pc[u] \in ArmingPlaces => armed
                   /\ pc[u] \in DisarmingPlaces \cup {"cfgApply"} => ~armed

OwnerInv ==
  /\ pc[Dispatcher] \in {"idle", "gate", "claim", "trigger"}
  /\ OwnersFlag
  /\ Saved /\ stored # armed => unsaved
  /\ Tracked => tracking = (armed /\ Located)
  /\ (armed /\ Started) => enabled \cap Available \subseteq running

\* The owner takes a step: theirs is the only place that changes, a timer's apart.
LEMMA OwnerOfUserStep ==
  ASSUME OneOwner, WInv, OwnerInv, NEW p \in Users, Step(p)
  PROVE  OwnerInv'
  <1> USE DEF OwnerInv, OwnersFlag, Saved, Tracked, Started, ArmingPlaces,
              DisarmingPlaces
  <1>a. /\ \A u \in Users : u = p
        /\ p \in Process /\ p \notin Timers /\ p # Dispatcher
        /\ pc \in [Process -> Places] /\ Timers \subseteq Process
        /\ Dispatcher \in Process
    BY DEF OneOwner, Process, WInv, ControlInv, ControlTypeOK
  <1>b. /\ armed \in BOOLEAN /\ stored \in BOOLEAN /\ tracking \in BOOLEAN
        /\ unsaved \in BOOLEAN
    BY DEF WInv, DataTypeOK
  <1>c. pc[p] \notin TimerPlaces
    BY <1>a DEF WInv, ControlInv, Roles, MayBe
  <1>1. CASE SetArmed(p) \/ SaveArmed(p)
    BY <1>1, <1>a, <1>b DEF SetArmed, SaveArmed, Persist, Move
  <1>2. CASE ArmSensors(p) \/ ArmTracker(p)
    BY <1>2, <1>a, <1>b DEF ArmSensors, ArmTracker, Move, Finish, StartEnabled
  <1>3. CASE SetDisarmed(p) \/ SaveDisarmed(p) \/ StopAll(p) \/ StopTracker(p)
    <2>1. ~armed'
      BY <1>3, <1>a, <1>b DEF SetDisarmed, SaveDisarmed, StopAll, StopTracker, Move
    <2>2. /\ pc'[p] \in DisarmingPlaces \cup {"clear"}
          /\ pc'[Dispatcher] = pc[Dispatcher]
      BY <1>3, <1>a DEF SetDisarmed, SaveDisarmed, StopAll, StopTracker, Move
    <2>3. (Saved /\ stored # armed => unsaved)'
      <3>1. CASE SetDisarmed(p)
        BY <3>1, <1>a DEF SetDisarmed, Move
      <3>2. CASE SaveDisarmed(p)
        <4>1. stored' # armed' => unsaved'
          BY <3>2, <2>1, <1>b DEF SaveDisarmed, Persist
        <4>2. QED
          BY <4>1
      <3>3. CASE StopAll(p) \/ StopTracker(p)
        <4>1. Saved /\ UNCHANGED <<armed, stored, unsaved>>
          BY <3>3, <1>a DEF StopAll, StopTracker, Move
        <4>2. QED
          BY <4>1
      <3>4. QED
        BY <1>3, <3>1, <3>2, <3>3
    <2>4. (Tracked => tracking = (armed /\ Located))'
      BY <1>3, <1>a, <1>b DEF SetDisarmed, SaveDisarmed, StopAll, StopTracker, Move
    <2>5. QED
      BY <2>1, <2>2, <2>3, <2>4, <1>a
  <1>4. CASE ClearAlarm(p) \/ Hush(p) \/ Suppress(p)
    BY <1>4, <1>a, <1>b DEF ClearAlarm, Hush, Suppress, Move, Finish
  <1>5. CASE DisableAlarmSensor(p)
    BY <1>5, <1>a, <1>b DEF DisableAlarmSensor, Disable, Finish
  <1>6. CASE \E t \in Timers : PauseAlarmSensor(p, t)
    BY <1>6, <1>a, <1>b DEF PauseAlarmSensor, Disable
  <1>7. CASE ClaimTest(p) \/ Trigger(p) \/ ConfigureCheck(p)
    BY <1>7, <1>a, <1>b DEF ClaimTest, Trigger, ConfigureCheck, data, Move, Finish
  <1>8. CASE Configure(p)
    BY <1>8, <1>a, <1>b DEF Configure, Finish
  <1>9. CASE PauseOver(p) \/ ReEnable(p) \/ Recheck(p) \/ Restart(p)
    BY <1>9, <1>c DEF PauseOver, ReEnable, Recheck, Restart, Move, Finish,
                       TimerPlaces
  <1>10. QED
    BY <1>1, <1>2, <1>3, <1>4, <1>5, <1>6, <1>7, <1>8, <1>9 DEF Step

\* A pause that is over, or the dispatcher, takes one: no user's place changes.
LEMMA OwnerOfTimerStep ==
  ASSUME OneOwner, WInv, OwnerInv, NEW t \in Timers, Step(t)
  PROVE  OwnerInv'
  <1> USE DEF OwnerInv, OwnersFlag, Saved, Tracked, Started, ArmingPlaces,
              DisarmingPlaces
  <1>a. /\ t \in Process /\ t \notin Users /\ t # Dispatcher
        /\ Timers \subseteq Process /\ pc \in [Process -> Places]
        /\ pc[t] \in TimerPlaces \cup {"idle"}
        /\ armed \in BOOLEAN /\ Users \subseteq Process
    BY DEF Process, WInv, ControlInv, ControlTypeOK, Roles, MayBe, DataTypeOK
  <1>1. PauseOver(t) \/ ReEnable(t) \/ Recheck(t) \/ Restart(t)
    BY <1>a DEF Step, SetArmed, SaveArmed, ArmSensors, ArmTracker, SetDisarmed,
                SaveDisarmed, StopAll, StopTracker, ClearAlarm, Hush, Suppress,
                DisableAlarmSensor, PauseAlarmSensor, ClaimTest, Trigger,
                ConfigureCheck, Configure, Move, Finish, TimerPlaces
  <1>2. /\ \A q \in Users \cup {Dispatcher} : pc'[q] = pc[q]
        /\ UNCHANGED <<armed, stored, unsaved, tracking>>
    BY <1>1, <1>a DEF Process, PauseOver, ReEnable, Recheck, Restart, Move, Finish, data
  <1>3. (armed /\ Started => enabled \cap Available \subseteq running)'
    <2>1. CASE PauseOver(t)
      BY <2>1, <1>2, <1>a DEF PauseOver, Move, data
    <2>2. CASE ReEnable(t)
      BY <2>2, <1>2, <1>a DEF ReEnable, Move
    <2>3. CASE Recheck(t) /\ armed
      BY <2>3, <1>2, <1>a DEF Recheck, Move
    <2>4. CASE Recheck(t) /\ ~armed
      BY <2>4, <1>2
    <2>5. CASE Restart(t)
      BY <2>5 DEF Restart, StartEnabled
    <2>6. QED
      BY <1>1, <2>1, <2>2, <2>3, <2>4, <2>5
  <1>4. QED
    BY <1>2, <1>3

LEMMA OwnerOfDispatcherStep ==
  ASSUME OneOwner, WInv, OwnerInv, DispatcherStep
  PROVE  OwnerInv'
  <1> USE DEF OwnerInv, OwnersFlag, Saved, Tracked, Started, ArmingPlaces,
              DisarmingPlaces
  <1>a. /\ Dispatcher \in Process /\ Dispatcher \notin Users \cup Timers
        /\ pc \in [Process -> Places] /\ Users \cup Timers \subseteq Process
    BY DEF Process, WInv, ControlInv, ControlTypeOK
  <1>1. CASE Dispatch
    <2>1. \E s : Begin(Dispatcher, "alert", s, "gate")
      BY <1>1 DEF Dispatch, AutoArms, AutoDisarms, OneOwner
    <2>2. QED
      BY <1>1, <2>1, <1>a DEF Dispatch, Begin
  <1>2. CASE Gate \/ ClaimAlarm
    BY <1>2, <1>a DEF Gate, ClaimAlarm, data, Move, Finish
  <1>3. CASE Step(Dispatcher)
    <2>1. ClaimTest(Dispatcher) \/ Trigger(Dispatcher)
      BY <1>3 DEF Step, SetArmed, SaveArmed, ArmSensors, ArmTracker, SetDisarmed,
                  SaveDisarmed, StopAll, StopTracker, ClearAlarm, Hush, Suppress,
                  DisableAlarmSensor, PauseAlarmSensor, ConfigureCheck, Configure,
                  PauseOver, ReEnable, Recheck, Restart, Move, Finish
    <2>2. QED
      BY <2>1, <1>a DEF ClaimTest, Trigger, Move, Finish
  <1>4. QED
    BY <1>1, <1>2, <1>3 DEF DispatcherStep

LEMMA OwnerStep ==
  ASSUME OneOwner, WInv, OwnerInv, Next
  PROVE  OwnerInv'
  <1> USE DEF OwnerInv, OwnersFlag, Saved, Tracked, Started, ArmingPlaces,
              DisarmingPlaces
  <1>1. CASE \E u \in Users : Ask(u)
    <2>1. PICK u \in Users : Ask(u)
      BY <1>1
    <2>2. \E o, s, place : /\ Begin(u, o, s, place)
                           /\ place \in {"arm", "disarm", "clear", "claim", "cfgCheck"}
      BY <2>1 DEF Ask
    <2>3. /\ u \in Process /\ u \notin Timers /\ u # Dispatcher
          /\ pc \in [Process -> Places] /\ Users \cup Timers \subseteq Process
          /\ Dispatcher \in Process
      BY DEF Process, WInv, ControlInv, ControlTypeOK
    <2>4. QED
      BY <2>1, <2>2, <2>3 DEF Ask, Begin, data
  <1>2. CASE \E p \in Users \cup Timers : Step(p)
    BY <1>2, OwnerOfUserStep, OwnerOfTimerStep
  <1>3. CASE DispatcherStep
    BY <1>3, OwnerOfDispatcherStep
  <1>4. CASE (\E a \in Alerts : Fire(a)) \/ \E s \in Sensors : GraceOver(s)
    BY <1>4 DEF Fire, GraceOver
  <1>5. QED
    BY <1>1, <1>2, <1>3, <1>4 DEF Next

\* With one owner, how far the file, the tracker and the sensors may be behind the
\* armed flag, and that past the save the file is behind only when that save
\* failed.  (Arm, Disarm, persistArmed, unpauseSensor, handleConfigure.)
THEOREM OwnerInvariant ==
  ASSUME OneOwner
  PROVE  Spec => []OwnerInv
  <1>1. Init => OwnerInv
    BY DEF Init, OwnerInv, OwnersFlag, Process, ArmingPlaces, DisarmingPlaces
  <1>2. WInv /\ OwnerInv /\ [Next]_vars => OwnerInv'
    <2>1. OwnerInv /\ UNCHANGED vars => OwnerInv'
      BY DEF OwnerInv, OwnersFlag, Saved, Tracked, Started, vars
    <2>2. QED
      BY <2>1, OwnerStep
  <1>3. QED
    BY <1>1, <1>2, WatchInvariant, PTL DEF Spec

\* With one owner, an armed machine at rest watches with every sensor that is on,
\* however many pauses end, alarms are answered and sensors fire meanwhile.
THEOREM WatchIsCoveredHolds ==
  ASSUME OneOwner
  PROVE  Spec => []WatchIsCovered
  <1>1. WInv /\ OwnerInv => WatchIsCovered
    BY DEF OwnerInv, WatchIsCovered, Quiescent, Started, Process
  <1>2. QED
    BY <1>1, WatchInvariant, OwnerInvariant, PTL

\* With one owner, at rest, the tracker follows the flag, and the state file says
\* what the flag says unless the last change of the flag could not be written.
THEOREM RecordAgreesHolds ==
  ASSUME OneOwner
  PROVE  Spec => []RecordAgrees
  <1>1. OwnerInv => RecordAgrees
    BY DEF OwnerInv, RecordAgrees, Quiescent, Saved, Tracked, ArmingPlaces,
           DisarmingPlaces, Process
  <1>2. QED
    BY <1>1, OwnerInvariant, PTL
=============================================================================
