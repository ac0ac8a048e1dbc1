----------------------------- MODULE Loops_proofs ------------------------------
(***************************************************************************)
(* Proofs about the volume backends, a sensor's runs, what plays the siren, *)
(* the console and the watch on the lid, and with them and with             *)
(* Siren_proofs about a run of the loops, in which each of them has any     *)
(* constants that ConstantsOK of its module allows.                         *)
(***************************************************************************)
EXTENDS MCLoops, Siren_proofs, Integers, FiniteSetTheorems, SequenceTheorems,
        WellFoundedInduction, TLAPS

(***************************************************************************)
(* Volume.                                                                 *)
(***************************************************************************)
Fractions == {x \in [at : Nat, of : Nat \ {0}] : x.at <= x.of}
TouchedChains == {<<>>, <<"full">>, <<"medium", "full">>}

OutputsTyped ==
  /\ outputs_default \in Devices
  /\ outputs_level \in [Devices -> Nat]
  /\ \A d \in Devices : outputs_level[d] <= Steps[d]
  /\ outputs_owner \in [Devices -> Nat]
  /\ outputs_todo \in TouchedChains \cup {None}
  /\ outputs_saved # None => outputs_saved \in Fractions
  /\ IsFiniteSet(outputs_touched) /\ outputs_touched \subseteq Devices

Given(d) ==
  outputs_level[d] \in {outputs_owner[d]}
                         \cup (IF outputs_os = "linux" THEN {outputs_owner[d] - 1} ELSE {})

\* What is remembered is the owner's, of the device the alarm is heard on; until something
\* was set there is nothing to give back.
OwnersIsRemembered ==
  /\ outputs_todo = None => outputs_saved = None
  /\ outputs_todo # None /\ outputs_touched = {} =>
       outputs_saved = None /\ (outputs_clean => outputs_level = outputs_owner)
  /\ outputs_todo # None /\ outputs_touched # {} => outputs_saved # None
  /\ \A d \in Devices : outputs_clean /\ outputs_touched = {d} =>
       IF outputs_todo = None THEN Given(d)
       ELSE outputs_saved = [at |-> outputs_owner[d], of |-> Steps[d]]

OutputsInv == OutputsTyped /\ OwnersIsRemembered

LEMMA OutputsInit == Vo!ConstantsOK /\ Vo!Init => OutputsInv
  <1>. SUFFICES ASSUME Vo!ConstantsOK, Vo!Init PROVE OutputsInv
    OBVIOUS
  <1>1. IsFiniteSet(outputs_touched) /\ outputs_touched = {}
    BY FS_EmptySet DEF Vo!Init
  <1>2. OutputsTyped
    <2>1. outputs_level \in [Devices -> Nat] /\ \A d \in Devices : outputs_level[d] = 1
      BY DEF Vo!Init
    <2>2. \A d \in Devices : 1 <= Steps[d]
      BY DEF Vo!ConstantsOK
    <2>3. QED
      BY <1>1, <2>1, <2>2 DEF Vo!Init, OutputsTyped
  <1>3. OwnersIsRemembered
    BY <1>1 DEF Vo!Init, OwnersIsRemembered
  <1>4. QED
    BY <1>2, <1>3 DEF OutputsInv

LEMMA Share ==
  ASSUME NEW a \in Nat, NEW f \in Nat \ {0}, NEW s \in Nat \ {0}, a <= f,
         NEW e, e = (a * s) \div f
  PROVE  /\ e \in 0 .. s
         /\ a # 0 /\ (a * s) % f = 0 => e >= 1
         /\ f = s => e = a
  <1>1. a * s \in Nat /\ a * s <= f * s
    OBVIOUS
  <1>2. e \in Nat /\ f * e <= a * s /\ a * s < f * e + f
    BY <1>1
  <1>3. e <= s
    <2>1. SUFFICES ASSUME e >= s + 1 PROVE FALSE
      BY <1>2
    <2>2. f * e >= f * (s + 1)
      BY <1>2, <2>1
    <2>3. f * (s + 1) = f * s + f /\ f * s \in Nat /\ f * e \in Nat
      BY <1>2
    <2>4. QED
      BY <1>1, <1>2, <2>2, <2>3
  <1>4. ASSUME a # 0, (a * s) % f = 0 PROVE e >= 1
    <2>1. SUFFICES ASSUME e = 0 PROVE FALSE
      BY <1>2
    <2>2. a * s >= 1
      BY <1>4
    <2>3. a * s < f
      BY <1>2, <2>1
    <2>4. (a * s) % f = a * s
      BY <1>1, <2>3
    <2>5. QED
      BY <1>4, <2>2, <2>4
  <1>5. f = s => (a * s) \div f = a
    OBVIOUS
  <1>6. QED
    BY <1>2, <1>3, <1>4, <1>5

\* A fraction lands on the device, and on the one it was read from where it was, or on
\* Linux a step below.
LEMMA WhereItLands ==
  ASSUME Vo!ConstantsOK, NEW d \in Devices, NEW x \in Fractions, NEW l \in Vo!Target(x, d)
  PROVE  /\ l \in Nat /\ l <= Steps[d]
         /\ x.of = Steps[d] => l \in {x.at} \cup (IF outputs_os = "linux" THEN {x.at - 1} ELSE {})
  <1>1. PICK a, f, s : a = x.at /\ f = x.of /\ s = Steps[d]
    OBVIOUS
  <1>2. a \in Nat /\ f \in Nat \ {0} /\ s \in Nat \ {0} /\ a <= f
    BY <1>1 DEF Fractions, Vo!ConstantsOK
  <1>3. PICK e : e = (a * s) \div f
    OBVIOUS
  <1>4. \/ l = e
        \/ outputs_os = "linux" /\ a # 0 /\ (a * s) % f = 0 /\ l = e - 1
    BY <1>1, <1>3 DEF Vo!Target
  <1>5. /\ e \in 0 .. s
        /\ a # 0 /\ (a * s) % f = 0 => e >= 1
        /\ f = s => e = a
    BY <1>2, <1>3, Share
  <1>6. QED
    BY <1>1, <1>2, <1>4, <1>5

LEMMA RaiseKeeps ==
  ASSUME Vo!ConstantsOK, OutputsInv, NEW x \in Fractions, NEW unmutes, Vo!Raise(x, unmutes),
         outputs_todo \in TouchedChains \ {<<>>}, outputs_todo' = Tail(outputs_todo),
         UNCHANGED <<outputs_os, outputs_default, outputs_owner>>
  PROVE  OutputsInv'
  <1>. DEFINE d == outputs_default
              own == [at |-> outputs_level[d], of |-> Steps[d]]
  <1>1. d \in Devices /\ outputs_level[d] \in Nat /\ outputs_level[d] <= Steps[d]
        /\ Steps[d] \in Nat \ {0}
    BY DEF OutputsInv, OutputsTyped, Vo!ConstantsOK
  <1>2. own \in Fractions /\ Vo!Silence \in Fractions /\ own # None /\ Vo!Silence # None
    <2>1. own \in Fractions /\ Vo!Silence \in Fractions
      BY <1>1 DEF Fractions, Vo!Silence
    <2>2. outputs_level[d] \in 0 .. Steps[d]
      BY <1>1
    <2>3. QED
      BY <1>1, <2>1, <2>2 DEF Vo!ConstantsOK, Vo!Silence
  <1>3. outputs_todo' \in {<<>>, <<"full">>} /\ outputs_todo' # None /\ outputs_todo # None
    <2>1. Tail(<<"full">>) = <<>> /\ Tail(<<"medium", "full">>) = <<"full">>
      OBVIOUS
    <2>2. outputs_todo = <<"full">> \/ outputs_todo = <<"medium", "full">>
      BY DEF TouchedChains
    <2>3. outputs_todo' = <<>> \/ outputs_todo' = <<"full">>
      BY <2>1, <2>2
    <2>4. QED
      BY <2>2, <2>3 DEF Vo!ConstantsOK
  <1>4. PICK l : /\ l \in Vo!Target(x, d) \cup {outputs_level[d]}
                 /\ outputs_level' = [outputs_level EXCEPT ![d] = l]
    BY DEF Vo!Raise
  <1>5. l \in Nat /\ l <= Steps[d]
    BY <1>1, <1>4, WhereItLands
  <1>6. /\ outputs_touched' = outputs_touched \cup {d}
        /\ \/ outputs_saved' = (IF outputs_saved = None THEN own ELSE outputs_saved)
              /\ outputs_clean' = outputs_clean
           \/ /\ outputs_saved' = (IF outputs_saved = None THEN Vo!Silence ELSE outputs_saved)
              /\ outputs_clean' => outputs_clean /\ outputs_saved # None
    BY DEF Vo!Raise, Vo!Remember, Vo!Fraction
  <1>7. outputs_saved' # None /\ outputs_saved' \in Fractions
    BY <1>2, <1>6 DEF OutputsInv, OutputsTyped
  <1>8. IsFiniteSet(outputs_touched') /\ outputs_touched' \subseteq Devices
        /\ outputs_touched' # {}
    BY <1>1, <1>6, FS_AddElement DEF OutputsInv, OutputsTyped
  <1>9. OutputsTyped'
    <2>1. outputs_level' \in [Devices -> Nat] /\ \A c \in Devices : outputs_level'[c] <= Steps[c]
      BY <1>4, <1>5 DEF OutputsInv, OutputsTyped
    <2>2. outputs_default' \in Devices /\ outputs_owner' \in [Devices -> Nat]
      BY DEF OutputsInv, OutputsTyped
    <2>3. QED
      BY <1>3, <1>7, <1>8, <2>1, <2>2 DEF OutputsTyped, TouchedChains
  <1>10. ASSUME NEW c \in Devices, outputs_clean', outputs_touched' = {c}
         PROVE  outputs_saved' = [at |-> outputs_owner[c], of |-> Steps[c]]
    <2>1. c = d /\ (outputs_touched = {} \/ outputs_touched = {d})
      BY <1>6, <1>10
    <2>2. CASE outputs_touched = {}
      <3>1. outputs_saved = None /\ (outputs_clean => outputs_level = outputs_owner)
        BY <1>3, <2>2 DEF OutputsInv, OwnersIsRemembered
      <3>2. QED
        BY <1>6, <1>10, <2>1, <3>1
    <2>3. CASE outputs_touched = {d}
      <3>1. outputs_saved # None /\ outputs_clean
        BY <1>3, <1>6, <1>10, <2>3 DEF OutputsInv, OwnersIsRemembered
      <3>2. outputs_saved = [at |-> outputs_owner[d], of |-> Steps[d]]
        BY <1>1, <1>3, <2>3, <3>1 DEF OutputsInv, OwnersIsRemembered
      <3>3. QED
        BY <1>6, <2>1, <3>1, <3>2
    <2>4. QED
      BY <2>1, <2>2, <2>3
  <1>11. OwnersIsRemembered'
    BY <1>3, <1>7, <1>8, <1>10 DEF OwnersIsRemembered
  <1>12. QED
    BY <1>9, <1>11 DEF OutputsInv


LEMMA RestoreKeeps ==
  ASSUME Vo!ConstantsOK, OutputsInv, Vo!RestoreVolume PROVE OutputsInv'
  <1>. DEFINE d == outputs_default
  <1>1. /\ outputs_todo # None /\ outputs_todo' = None /\ outputs_saved' = None
        /\ UNCHANGED <<outputs_os, outputs_default, outputs_owner>>
        /\ d \in Devices
    BY DEF Vo!RestoreVolume, OutputsInv, OutputsTyped
  <1>2. CASE /\ outputs_saved # None
             /\ \E l \in Vo!Target(outputs_saved, d) :
                  outputs_level' = [outputs_level EXCEPT ![d] = l]
             /\ outputs_touched' = outputs_touched \cup {d}
             /\ outputs_clean' = outputs_clean
    <2>1. outputs_saved \in Fractions
      BY <1>2 DEF OutputsInv, OutputsTyped
    <2>2. PICK l \in Vo!Target(outputs_saved, d) :
            outputs_level' = [outputs_level EXCEPT ![d] = l]
      BY <1>2
    <2>3. /\ l \in Nat /\ l <= Steps[d]
          /\ outputs_saved.of = Steps[d] =>
               l \in {outputs_saved.at}
                       \cup (IF outputs_os = "linux" THEN {outputs_saved.at - 1} ELSE {})
      BY <1>1, <2>1, WhereItLands
    <2>4. outputs_level' \in [Devices -> Nat] /\ \A c \in Devices : outputs_level'[c] <= Steps[c]
      BY <2>2, <2>3 DEF OutputsInv, OutputsTyped
    <2>5. IsFiniteSet(outputs_touched') /\ outputs_touched' \subseteq Devices
      BY <1>1, <1>2, FS_AddElement DEF OutputsInv, OutputsTyped
    <2>6. OutputsTyped'
      BY <1>1, <2>4, <2>5 DEF OutputsInv, OutputsTyped
    <2>7. ASSUME NEW c \in Devices, outputs_clean', outputs_touched' = {c} PROVE Given(c)'
      <3>1. c = d /\ outputs_touched = {d}
        <4>1. outputs_touched # {}
          BY <1>1, <1>2 DEF OutputsInv, OwnersIsRemembered
        <4>2. QED
          BY <1>2, <2>7, <4>1
      <3>2. outputs_saved = [at |-> outputs_owner[d], of |-> Steps[d]]
        BY <1>1, <1>2, <2>7, <3>1 DEF OutputsInv, OwnersIsRemembered
      <3>3. outputs_level'[d] = l
        BY <1>1, <2>2 DEF OutputsInv, OutputsTyped
      <3>4. outputs_saved.at = outputs_owner[d] /\ outputs_saved.of = Steps[d]
        BY <3>2
      <3>5. QED
        BY <1>1, <2>3, <3>1, <3>3, <3>4 DEF Given
    <2>8. OwnersIsRemembered'
      BY <1>1, <2>7 DEF OwnersIsRemembered
    <2>9. QED
      BY <2>6, <2>8 DEF OutputsInv
  <1>3. CASE /\ UNCHANGED <<outputs_level, outputs_touched>>
             /\ \/ outputs_saved = None /\ outputs_clean' = outputs_clean
                \/ ~outputs_clean'
    <2>1. OutputsTyped'
      BY <1>1, <1>3 DEF OutputsInv, OutputsTyped
    <2>2. ASSUME NEW c \in Devices, outputs_clean', outputs_touched' = {c} PROVE FALSE
      <3>1. outputs_saved = None /\ outputs_touched # {}
        BY <1>3, <2>2
      <3>2. QED
        BY <1>1, <3>1 DEF OutputsInv, OwnersIsRemembered
    <2>3. OwnersIsRemembered'
      BY <1>1, <2>2 DEF OwnersIsRemembered
    <2>4. QED
      BY <2>1, <2>3 DEF OutputsInv
  <1>4. QED
    BY <1>2, <1>3 DEF Vo!RestoreVolume

LEMMA OutputsStep == ASSUME Vo!ConstantsOK, OutputsInv, [Vo!Next]_Vo!vars PROVE OutputsInv'
  <1>0. outputs_todo \in TouchedChains \cup {None}
    BY DEF OutputsInv, OutputsTyped
  <1>1. CASE Vo!MaxVolume
    <2>1. /\ outputs_todo \in TouchedChains \ {<<>>} /\ outputs_todo' = Tail(outputs_todo)
          /\ UNCHANGED <<outputs_os, outputs_default, outputs_owner>>
      BY <1>0, <1>1 DEF Vo!MaxVolume
    <2>2. Vo!Full \in Fractions
      BY DEF Vo!Full, Fractions
    <2>3. PICK unmutes : Vo!Raise(Vo!Full, unmutes)
      BY <1>1 DEF Vo!MaxVolume
    <2>4. QED
      BY <2>1, <2>2, <2>3, RaiseKeeps
  <1>2. CASE Vo!SetVolume
    <2>1. /\ outputs_todo \in TouchedChains \ {<<>>} /\ outputs_todo' = Tail(outputs_todo)
          /\ UNCHANGED <<outputs_os, outputs_default, outputs_owner>>
      BY <1>0, <1>2 DEF Vo!SetVolume
    <2>2. [at |-> Medium, of |-> 100] \in Fractions
      BY DEF Vo!ConstantsOK, Fractions
    <2>3. PICK unmutes : Vo!Raise([at |-> Medium, of |-> 100], unmutes)
      BY <1>2 DEF Vo!SetVolume
    <2>4. QED
      BY <2>1, <2>2, <2>3, RaiseKeeps
  <1>3. CASE Vo!RaiseFails
    <2>1. /\ outputs_todo # None /\ outputs_todo' = Tail(outputs_todo)
          /\ outputs_todo \in TouchedChains \ {<<>>}
          /\ UNCHANGED <<outputs_os, outputs_default, outputs_level, outputs_saved,
                         outputs_owner, outputs_clean, outputs_touched>>
      BY <1>0, <1>3 DEF Vo!RaiseFails
    <2>2. outputs_todo' \in TouchedChains /\ outputs_todo' # None
      <3>1. Tail(<<"full">>) = <<>> /\ Tail(<<"medium", "full">>) = <<"full">>
        OBVIOUS
      <3>2. outputs_todo = <<"full">> \/ outputs_todo = <<"medium", "full">>
        BY <2>1 DEF TouchedChains
      <3>3. QED
        BY <2>1, <3>1, <3>2 DEF TouchedChains, Vo!ConstantsOK
    <2>3. OutputsTyped'
      BY <2>1, <2>2 DEF OutputsInv, OutputsTyped
    <2>4. OwnersIsRemembered'
      BY <2>1, <2>2 DEF OutputsInv, OwnersIsRemembered
    <2>5. QED
      BY <2>3, <2>4 DEF OutputsInv
  <1>4. CASE Vo!Start
    <2>1. /\ outputs_todo = None /\ outputs_todo' \in TouchedChains /\ outputs_touched' = {}
          /\ outputs_owner' = outputs_level
          /\ UNCHANGED <<outputs_os, outputs_default, outputs_level, outputs_saved>>
      BY <1>4 DEF Vo!Start, TouchedChains
    <2>2. IsFiniteSet(outputs_touched')
      BY <2>1, FS_EmptySet
    <2>3. outputs_saved = None
      BY <2>1 DEF OutputsInv, OwnersIsRemembered
    <2>4. OutputsTyped'
      BY <2>1, <2>2 DEF OutputsInv, OutputsTyped
    <2>5. OwnersIsRemembered'
      BY <2>1, <2>3 DEF OwnersIsRemembered
    <2>6. QED
      BY <2>4, <2>5 DEF OutputsInv
  <1>5. CASE Vo!RestoreVolume
    BY <1>5, RestoreKeeps
  <1>6. CASE Vo!Meddle
    <2>1. /\ UNCHANGED <<outputs_os, outputs_todo, outputs_saved, outputs_owner, outputs_touched>>
          /\ outputs_default' \in Devices
          /\ \/ outputs_level' = outputs_level /\ outputs_clean' = outputs_clean
             \/ /\ \E l \in 0 .. Steps[outputs_default] :
                     outputs_level' = [outputs_level EXCEPT ![outputs_default] = l]
                /\ ~outputs_clean'
      BY <1>6 DEF Vo!Meddle, OutputsInv, OutputsTyped
    <2>2. outputs_level' \in [Devices -> Nat] /\ \A c \in Devices : outputs_level'[c] <= Steps[c]
      <3>1. \A l \in 0 .. Steps[outputs_default] : l \in Nat /\ l <= Steps[outputs_default]
        BY DEF Vo!ConstantsOK, OutputsInv, OutputsTyped
      <3>2. QED
        BY <2>1, <3>1 DEF OutputsInv, OutputsTyped
    <2>3. OutputsTyped'
      BY <2>1, <2>2 DEF OutputsInv, OutputsTyped
    <2>4. OwnersIsRemembered'
      BY <2>1 DEF OutputsInv, OwnersIsRemembered, Given
    <2>5. QED
      BY <2>3, <2>4 DEF OutputsInv
  <1>7. CASE UNCHANGED Vo!vars
    BY <1>7 DEF Vo!vars, OutputsInv, OutputsTyped, OwnersIsRemembered, Given
  <1>8. QED
    BY <1>1, <1>2, <1>3, <1>4, <1>5, <1>6, <1>7 DEF Vo!Next

\* Every device's level is one of its steps, and what is remembered is a fraction of one,
\* whatever the owner plugs in or turns and whichever reading fails.
THEOREM OutputsInvariant == ASSUME Vo!ConstantsOK PROVE Vo!Spec => []OutputsInv
  <1>1. Vo!Init => OutputsInv
    BY OutputsInit
  <1>2. OutputsInv /\ [Vo!Next]_Vo!vars => OutputsInv'
    BY OutputsStep
  <1>3. QED
    BY <1>1, <1>2, PTL DEF Vo!Spec

\* On a device of any number of steps, an alarm that could read the volume and whose every
\* call found the same device leaves it where the owner had it, or on Linux a step below.
\* (volume_linux.go, volume_windows.go, volume_darwin.go, rememberVolume.)
THEOREM OwnersLevelIsBack == ASSUME Vo!ConstantsOK PROVE Vo!Spec => []Vo!OwnersLevelBack
  <1>1. ASSUME OutputsInv PROVE Vo!OwnersLevelBack
    <2>1. SUFFICES ASSUME outputs_todo = None, outputs_clean, Cardinality(outputs_touched) = 1
                   PROVE  \A d \in outputs_touched : Given(d)
      <3>1. Vo!Cardinality(outputs_touched) = Cardinality(outputs_touched)
        BY DEF Vo!Cardinality, Cardinality
      <3>2. QED
        BY <3>1 DEF Vo!OwnersLevelBack, Given
    <2>2. PICK d : outputs_touched = {d}
      BY <1>1, <2>1, FS_Singleton DEF OutputsInv, OutputsTyped
    <2>3. d \in Devices
      BY <1>1, <2>2 DEF OutputsInv, OutputsTyped
    <2>4. QED
      BY <1>1, <2>1, <2>2, <2>3 DEF OutputsInv, OwnersIsRemembered
  <1>2. QED
    BY <1>1, OutputsInvariant, PTL

-----------------------------------------------------------------------------
(***************************************************************************)
(* Sensors.  That the one run not cancelled is the current one is needed   *)
(* for CoverageIsEarned: a callback with live readings clears the failure  *)
(* of whoever is current, and only a run that has begun can be calling.    *)
(***************************************************************************)
LEMMA SensorRunsAreCounted == SensorRuns \in Nat
  BY LoopsConstants DEF Se!ConstantsOK

USE SensorRunsAreCounted

\* Which runs have begun, and what the two kinds of driver go through.
Begun ==
  /\ \A r \in Se!Runs : sensors_pc[r] # "none" => r \in 1 .. sensors_started
  /\ Se!ReportsReady => \A r \in Se!Runs : sensors_pc[r] # "clear"

SensorsInv == Se!TypeOK /\ Se!SoleWatcher /\ Begun /\ Se!CoverageIsEarned

\* A step of the goroutine of run r.
RunStep(r) ==
  Se!Try(r) \/ Se!Clear(r) \/ Se!AskedTo(r) \/ Se!Record(r) \/ Se!Retry(r) \/ Se!Ready(r)
  \/ Se!Return(r) \/ Se!Panic(r)

LEMMA RunSteps ==
  ASSUME NEW r \in Se!Runs, Se!Supervise(r) \/ Se!Ready(r) \/ Se!Return(r) \/ Se!Panic(r)
  PROVE  RunStep(r)
  BY DEF Se!Supervise, RunStep

LEMMA TypeStep ==
  ASSUME Se!TypeOK, Se!Next
  PROVE  Se!TypeOK'
  <1> USE DEF Se!Places, Se!Runs
  <1>1. sensors_driver' = sensors_driver
    BY DEF Se!Next
  <1>2. CASE Se!Enable \/ Se!SettleAvailability \/ Se!AvailableNow \/ Se!ProbeEnds
    BY <1>1, <1>2 DEF Se!TypeOK, Se!Enable, Se!SettleAvailability, Se!AvailableNow, Se!ProbeEnds,
                      Se!runs, Se!probe
  <1>3. CASE Se!Disable \/ Se!StopAll
    <2>1. /\ sensors_current' = 0 /\ sensors_cancelled' = sensors_cancelled \cup ({sensors_current} \ {0})
          /\ sensors_failure' = "none" /\ sensors_enabled' \in BOOLEAN
          /\ UNCHANGED <<sensors_started, sensors_pc, sensors_known, sensors_probing>>
      BY <1>3 DEF Se!TypeOK, Se!Disable, Se!StopAll, Se!CancelRun, Se!probe
    <2>2. 0 \in 0 .. sensors_started /\ 0 \notin sensors_cancelled'
      BY <2>1 DEF Se!TypeOK
    <2>3. sensors_cancelled' \subseteq 1 .. sensors_started
      BY <2>1 DEF Se!TypeOK
    <2>4. QED
      BY <1>1, <2>1, <2>2, <2>3 DEF Se!TypeOK
  <1>4. CASE Se!StartEnabled
    <2>1. /\ sensors_started' = sensors_started + 1 /\ sensors_current' = sensors_started + 1
          /\ sensors_pc' = [sensors_pc EXCEPT ![sensors_started + 1] = "try"]
          /\ sensors_failure' \in {"waiting", sensors_failure}
          /\ UNCHANGED <<sensors_enabled, sensors_cancelled, sensors_known, sensors_probing>>
      BY <1>4 DEF Se!StartEnabled, Se!probe
    <2>2. sensors_started \in Nat /\ sensors_started < SensorRuns /\ sensors_cancelled \subseteq 1 .. sensors_started
      BY <1>4 DEF Se!TypeOK, Se!StartEnabled
    <2>3. /\ sensors_started + 1 \in 0 .. SensorRuns /\ sensors_started + 1 \in 0 .. sensors_started + 1
          /\ sensors_started + 1 \notin sensors_cancelled /\ sensors_cancelled \subseteq 1 .. sensors_started + 1
      BY <2>2
    <2>4. sensors_failure' \in {"none", "waiting", "error"} /\ sensors_pc' \in [Se!Runs -> Se!Places]
      BY <2>1 DEF Se!TypeOK
    <2>5. QED
      BY <1>1, <2>1, <2>3, <2>4 DEF Se!TypeOK
  <1>5. ASSUME NEW r \in Se!Runs, RunStep(r)
        PROVE  Se!TypeOK'
    <2>1. sensors_pc' \in [Se!Runs -> Se!Places]
      BY <1>5 DEF Se!TypeOK, RunStep, Se!Try, Se!Clear, Se!AskedTo, Se!Record, Se!Retry, Se!Ready, Se!Return,
                  Se!Panic, Se!Goto
    <2>2. /\ sensors_failure' \in {"none", "waiting", "error"}
          /\ UNCHANGED <<sensors_enabled, sensors_current, sensors_started, sensors_cancelled, sensors_known, sensors_probing>>
      BY <1>5 DEF Se!TypeOK, RunStep, Se!Try, Se!Clear, Se!AskedTo, Se!Record, Se!Retry, Se!Ready, Se!Return,
                  Se!Panic, Se!probe
    <2>3. QED
      BY <1>1, <2>1, <2>2 DEF Se!TypeOK
  <1>6. QED
    BY <1>2, <1>3, <1>4, <1>5, RunSteps DEF Se!Next

LEMMA WatcherStep ==
  ASSUME Se!TypeOK, Se!SoleWatcher, Begun, Se!Next
  PROVE  Se!SoleWatcher' /\ Begun'
  <1>1. Se!ReportsReady' = Se!ReportsReady
    BY DEF Se!Next, Se!ReportsReady
  <1>2. CASE Se!Enable \/ Se!SettleAvailability \/ Se!AvailableNow \/ Se!ProbeEnds
    BY <1>1, <1>2 DEF Se!SoleWatcher, Begun, Se!Enable, Se!SettleAvailability, Se!AvailableNow,
                      Se!ProbeEnds, Se!runs, Se!probe
  <1>3. CASE Se!Disable \/ Se!StopAll
    BY <1>1, <1>3 DEF Se!SoleWatcher, Begun, Se!Disable, Se!StopAll, Se!CancelRun
  <1>4. CASE Se!StartEnabled
    <2>1. /\ sensors_started' = sensors_started + 1 /\ sensors_current' = sensors_started + 1 /\ sensors_current = 0
          /\ sensors_cancelled' = sensors_cancelled /\ sensors_pc' = [sensors_pc EXCEPT ![sensors_started + 1] = "try"]
      BY <1>4 DEF Se!StartEnabled
    <2>0. sensors_started \in Nat /\ sensors_pc \in [1 .. SensorRuns -> Se!Places]
      BY DEF Se!TypeOK, Se!Runs
    <2>2. \A r \in 1 .. sensors_started + 1 : r = sensors_started + 1 \/ r \in 1 .. sensors_started
      BY <2>0
    <2>3. Se!SoleWatcher'
      BY <2>1, <2>2 DEF Se!SoleWatcher
    <2>4. Begun'
      <3>1. ASSUME NEW r \in Se!Runs
            PROVE  /\ sensors_pc'[r] # "none" => r \in 1 .. sensors_started + 1
                   /\ Se!ReportsReady => sensors_pc'[r] # "clear"
        BY <2>0, <2>1, <3>1 DEF Begun, Se!Runs
      <3>2. QED
        BY <1>1, <2>1, <3>1 DEF Begun
    <2>5. QED
      BY <2>3, <2>4
  <1>5. ASSUME NEW r \in Se!Runs, RunStep(r)
        PROVE  Se!SoleWatcher' /\ Begun'
    <2>1. UNCHANGED <<sensors_current, sensors_started, sensors_cancelled>>
      BY <1>5 DEF RunStep, Se!Try, Se!Clear, Se!AskedTo, Se!Record, Se!Retry, Se!Ready, Se!Return, Se!Panic
    <2>2. /\ sensors_pc[r] # "none"
          /\ \A q \in Se!Runs : sensors_pc'[q] = sensors_pc[q] \/ q = r
          /\ Se!ReportsReady => sensors_pc'[r] # "clear"
      BY <1>5 DEF RunStep, Se!Try, Se!Clear, Se!AskedTo, Se!Record, Se!Retry, Se!Ready, Se!Return, Se!Panic,
                  Se!Goto, Se!TypeOK
    <2>3. QED
      BY <1>1, <2>1, <2>2 DEF Se!SoleWatcher, Begun
  <1>6. QED
    BY <1>2, <1>3, <1>4, <1>5, RunSteps DEF Se!Next

LEMMA CoverageStep ==
  ASSUME SensorsInv, Se!Next, Se!CoverageIsEarned,
         Se!ReportsReady, ~Se!MayPanic, sensors_current' # 0, sensors_failure' = "none"
  PROVE  sensors_pc'[sensors_current'] \in {"watching", "returned", "record"}
  <1>1. CASE Se!Enable \/ Se!SettleAvailability \/ Se!AvailableNow \/ Se!ProbeEnds
    BY <1>1 DEF Se!CoverageIsEarned, Se!Enable, Se!SettleAvailability, Se!AvailableNow,
                Se!ProbeEnds, Se!runs
  <1>2. CASE Se!Disable \/ Se!StopAll
    BY <1>2 DEF Se!Disable, Se!StopAll, Se!CancelRun
  <1>3. CASE Se!StartEnabled
    BY <1>3 DEF Se!StartEnabled
  <1>4. ASSUME NEW r \in Se!Runs, RunStep(r)
        PROVE  sensors_pc'[sensors_current'] \in {"watching", "returned", "record"}
    <2>0. sensors_current' = sensors_current
      BY <1>4 DEF RunStep, Se!Try, Se!Clear, Se!AskedTo, Se!Record, Se!Retry, Se!Ready, Se!Return, Se!Panic
    <2>1. sensors_current' = sensors_current /\ sensors_current \in Se!Runs /\ sensors_current \notin sensors_cancelled
      BY <2>0 DEF SensorsInv, Se!TypeOK, Se!Runs
    <2>2. CASE r = sensors_current
      BY <1>4, <2>1, <2>2
      DEF RunStep, Se!Try, Se!Clear, Se!AskedTo, Se!Record, Se!Retry, Se!Ready, Se!Return, Se!Panic, Se!Goto,
          SensorsInv, Se!TypeOK, Begun, Se!CoverageIsEarned
    <2>3. CASE r # sensors_current
      <3>1. sensors_pc'[sensors_current] = sensors_pc[sensors_current]
        BY <1>4, <2>1, <2>3
        DEF RunStep, Se!Try, Se!Clear, Se!AskedTo, Se!Record, Se!Retry, Se!Ready, Se!Return, Se!Panic, Se!Goto,
            SensorsInv, Se!TypeOK
      <3>2. sensors_pc[r] # "none" /\ sensors_pc[r] # "clear"
        BY <1>4 DEF RunStep, Se!Try, Se!Clear, Se!AskedTo, Se!Record, Se!Retry, Se!Ready, Se!Return, Se!Panic,
                    Se!Goto, SensorsInv, Begun
      <3>3. r \in sensors_cancelled
        BY <2>3, <3>2 DEF SensorsInv, Se!SoleWatcher, Begun
      <3>4. sensors_failure = "none"
        BY <1>4, <3>2, <3>3
        DEF RunStep, Se!Try, Se!Clear, Se!AskedTo, Se!Record, Se!Retry, Se!Ready, Se!Return, Se!Panic, Se!Goto
      <3>5. QED
        BY <2>1, <3>1, <3>4 DEF Se!CoverageIsEarned
    <2>4. QED
      BY <2>2, <2>3
  <1>5. QED
    BY <1>1, <1>2, <1>3, <1>4, RunSteps DEF Se!Next

\* The inductive invariant of one sensor: types, the sole run that is not on its
\* way out, which runs have begun, and earned coverage.
THEOREM SensorsInvariant == Se!Spec => []SensorsInv
  <1>1. Se!Init => SensorsInv
    <2>1. SUFFICES ASSUME Se!Init PROVE SensorsInv
      OBVIOUS
    <2>2. Se!TypeOK
      <3>1. sensors_started = 0 /\ sensors_current = 0 /\ sensors_cancelled = {}
        BY <2>1 DEF Se!Init
      <3>2. /\ sensors_started \in 0 .. SensorRuns /\ sensors_current \in 0 .. sensors_started
            /\ sensors_cancelled \subseteq 1 .. sensors_started /\ sensors_current \notin sensors_cancelled
        BY <3>1
      <3>3. sensors_pc \in [Se!Runs -> Se!Places]
        BY <2>1 DEF Se!Init, Se!Places
      <3>4. QED
        BY <2>1, <3>2, <3>3 DEF Se!Init, Se!TypeOK
    <2>3. Se!SoleWatcher /\ Begun /\ Se!CoverageIsEarned
      BY <2>1 DEF Se!Init, Se!SoleWatcher, Begun, Se!CoverageIsEarned
    <2>4. QED
      BY <2>2, <2>3 DEF SensorsInv
  <1>2. SensorsInv /\ [Se!Next]_Se!vars => SensorsInv'
    <2>1. SUFFICES ASSUME SensorsInv, [Se!Next]_Se!vars PROVE SensorsInv'
      OBVIOUS
    <2>2. CASE Se!Next
      <3>1. Se!TypeOK' /\ Se!SoleWatcher' /\ Begun'
        BY <2>1, <2>2, TypeStep, WatcherStep DEF SensorsInv
      <3>2. Se!ReportsReady' = Se!ReportsReady /\ Se!MayPanic' = Se!MayPanic
        BY <2>2 DEF Se!Next, Se!ReportsReady, Se!MayPanic
      <3>3. Se!CoverageIsEarned'
        BY <2>1, <2>2, <3>2, CoverageStep DEF SensorsInv, Se!CoverageIsEarned
      <3>4. QED
        BY <3>1, <3>3 DEF SensorsInv
    <2>3. CASE UNCHANGED Se!vars
      BY <2>1, <2>3 DEF SensorsInv, Se!TypeOK, Se!SoleWatcher, Begun, Se!CoverageIsEarned, Se!vars,
                        Se!runs, Se!probe, Se!ReportsReady, Se!MayPanic
    <2>4. QED
      BY <2>1, <2>2, <2>3
  <1>3. QED
    BY <1>1, <1>2, PTL DEF Se!Spec

\* However often the sensor is started, stopped, switched off and on, at most one
\* of its runs is not on its way out, and it is the one the manager can cancel.
THEOREM OneRunIsWatching == Se!Spec => []Se!SoleWatcher
  <1>1. SensorsInv => Se!SoleWatcher
    BY DEF SensorsInv
  <1>2. QED
    BY <1>1, SensorsInvariant, PTL

\* A driver that reports its readiness is never shown as working without having
\* had live readings, whatever the runs before it still write.
THEOREM CoverageHasARun == Se!Spec => []Se!CoverageIsEarned
  <1>1. SensorsInv => Se!CoverageIsEarned
    BY DEF SensorsInv
  <1>2. QED
    BY <1>1, SensorsInvariant, PTL

-----------------------------------------------------------------------------
(***************************************************************************)
(* Playback: whatever the device still has is later than what was heard,   *)
(* in the order it was generated, and no later than what was generated.    *)
(*                                                                         *)
(* ALSA has frames; the other two have buffers, and what they are to play  *)
(* is in the buffers, so a buffer that is filled must not be one they      *)
(* have.  waveOut's flags say which those are.  Audio Queue only counts:   *)
(* the buffers it has are the last that were handed over, the count leaves *)
(* room for fewer than all, and so the next in turn is none of them.       *)
(***************************************************************************)
PlayPlaces == {"open", "loop", "write", "wait", "handOver", "close", "over"}

Generator ==
  [pc : PlayPlaces, chunk : 0 .. MaxChunks, next : Pl!Slots, slot : Pl!Slots,
   at : 0 .. Frames, left : 0 .. Recoveries, failed : BOOLEAN]

Header == [prepared : BOOLEAN, done : BOOLEAN]

PlayTyped ==
  /\ playback_os \in {"alsa", "waveOut", "audioQueue"} /\ playback_gen \in Generator
  /\ playback_content \in [Pl!Slots -> Nat] /\ playback_hdr \in [Pl!Slots -> Header]
  /\ playback_queue \in Seq(Nat) /\ playback_free \in Nat /\ playback_heard \in Nat

\* The last frame that was generated in whole buffers, and of all.
Generated == playback_gen.chunk * Frames
AllFrames == MaxChunks * Frames

\* A buffer is written while there are frames to write, and whose turn it is follows
\* from who had the last one.
WritingOK ==
  /\ playback_gen.pc \in {"write", "wait", "handOver"} => playback_gen.chunk < MaxChunks
  /\ playback_gen.pc \in {"wait", "handOver"} =>
       playback_os # "alsa" /\ playback_gen.next = (playback_gen.slot + 1) % Buffers
  /\ playback_os # "audioQueue" => playback_free = 0

\* The last frame ALSA may have been given.
Written ==
  IF playback_gen.pc = "write" THEN Generated + playback_gen.at
  ELSE IF playback_gen.pc \in {"open", "loop"} THEN Generated ELSE AllFrames

FramesOK ==
  playback_os = "alsa" =>
    /\ playback_heard <= Written
    /\ \A i \in 1 .. Len(playback_queue) : playback_heard < playback_queue[i] /\ playback_queue[i] <= Written
    /\ \A i, j \in 1 .. Len(playback_queue) : i < j => playback_queue[i] < playback_queue[j]

BuffersOK ==
  playback_os # "alsa" =>
    /\ playback_heard <= Generated
    /\ \A i \in 1 .. Len(playback_queue) :
         /\ playback_queue[i] \in Pl!Slots
         /\ playback_heard < playback_content[playback_queue[i]]
         /\ playback_content[playback_queue[i]] + Frames <= Generated + 1
    /\ \A i, j \in 1 .. Len(playback_queue) : i < j =>
         playback_content[playback_queue[i]] + Frames <= playback_content[playback_queue[j]]

FlagsOK ==
  playback_os = "waveOut" =>
    /\ \A i \in 1 .. Len(playback_queue) :
         playback_hdr[playback_queue[i]].prepared = TRUE /\ playback_hdr[playback_queue[i]].done = FALSE
    /\ playback_gen.pc = "handOver" => playback_hdr[playback_gen.slot] = Pl!NoFlags

\* Whose turn it is, and whose it was k buffers ago.
InTurnNow == IF playback_gen.pc \in {"loop", "write"} THEN playback_gen.next ELSE playback_gen.slot
Back(x, k) == IF x >= k THEN x - k ELSE x - k + Buffers

RotationOK ==
  playback_os = "audioQueue" =>
    /\ playback_gen.pc = "open" => playback_free = 0 /\ playback_queue = <<>>
    /\ Len(playback_queue) + playback_free + (IF playback_gen.pc = "handOver" THEN 1 ELSE 0) <= Buffers
    /\ playback_gen.pc \in {"loop", "write", "wait", "handOver"} =>
         \A i \in 1 .. Len(playback_queue) : playback_queue[i] = Back(InTurnNow, Len(playback_queue) + 1 - i)

PlayInv == PlayTyped /\ WritingOK /\ FramesOK /\ BuffersOK /\ FlagsOK /\ RotationOK

LEMMA PlayConstants ==
  /\ Frames \in Nat \ {0} /\ Buffers \in Nat \ {0} /\ Recoveries \in Nat /\ MaxChunks \in Nat
  /\ Pl!Slots = 0 .. Buffers - 1 /\ 0 \in Pl!Slots
  BY LoopsConstants DEF Pl!ConstantsOK, Pl!Slots

LEMMA Products ==
  /\ \A c, f \in Nat : c * f \in Nat /\ (c + 1) * f = c * f + f
  /\ \A c, m, f \in Nat : c <= m => c * f <= m * f
  /\ \A c, m, f \in Nat : c < m => c * f + f <= m * f
  <1>1. \A c, f \in Nat : c * f \in Nat /\ (c + 1) * f = c * f + f
    BY Z3
  <1>2. \A c, m, f \in Nat : c <= m => c * f <= m * f
    BY Z3
  <1>3. \A c, m, f \in Nat : c < m => c * f + f <= m * f
    BY Z3
  <1>4. QED
    BY <1>1, <1>2, <1>3

LEMMA Successor ==
  ASSUME NEW s \in Pl!Slots
  PROVE  (s + 1) % Buffers = IF s + 1 = Buffers THEN 0 ELSE s + 1
  <1>1. \A b \in Nat \ {0} : \A r \in 0 .. b - 1 : (r + 1) % b = IF r + 1 = b THEN 0 ELSE r + 1
    BY Z3
  <1>2. QED
    BY <1>1, PlayConstants

\* What is common to all: how much was generated, within how much there is.
LEMMA Amounts ==
  ASSUME PlayTyped, WritingOK
  PROVE  /\ Generated \in Nat /\ AllFrames \in Nat /\ Generated <= AllFrames
         /\ playback_gen.pc \in {"write", "wait", "handOver"} => Generated + Frames <= AllFrames
         /\ (playback_gen.chunk + 1) * Frames = Generated + Frames
  <1>1. /\ playback_gen.chunk \in Nat /\ playback_gen.chunk <= MaxChunks
        /\ playback_gen.pc \in {"write", "wait", "handOver"} => playback_gen.chunk < MaxChunks
    BY PlayConstants DEF PlayTyped, WritingOK, Generator
  <1>2. /\ playback_gen.chunk * Frames \in Nat /\ MaxChunks * Frames \in Nat
        /\ (playback_gen.chunk + 1) * Frames = playback_gen.chunk * Frames + Frames
        /\ playback_gen.chunk * Frames <= MaxChunks * Frames
        /\ playback_gen.chunk < MaxChunks => playback_gen.chunk * Frames + Frames <= MaxChunks * Frames
    BY <1>1, PlayConstants, Products
  <1>3. QED
    BY <1>1, <1>2 DEF Generated, AllFrames

\* Where a field of the generator's may be set.
LEMMA GeneratorSet ==
  ASSUME NEW g \in Generator
  PROVE  /\ \A p \in PlayPlaces, a \in 0 .. Frames, l \in 0 .. Recoveries :
              [g EXCEPT !.pc = p, !.at = a, !.left = l] \in Generator
         /\ \A a \in 0 .. Frames : [g EXCEPT !.at = a] \in Generator
         /\ \A l \in 0 .. Recoveries : [g EXCEPT !.left = l] \in Generator
         /\ \A p \in PlayPlaces : [g EXCEPT !.pc = p, !.failed = TRUE] \in Generator
         /\ \A p \in PlayPlaces, c \in 0 .. MaxChunks : [g EXCEPT !.pc = p, !.chunk = c] \in Generator
  <1> DEFINE A == 0 .. Frames
             L == 0 .. Recoveries
             C == 0 .. MaxChunks
  <1> HIDE DEF A, L, C
  <1>0. g \in [pc : PlayPlaces, chunk : C, next : Pl!Slots, slot : Pl!Slots, at : A, left : L, failed : BOOLEAN]
    BY DEF Generator, A, L, C
  <1>1. /\ \A p \in PlayPlaces, a \in A, l \in L : [g EXCEPT !.pc = p, !.at = a, !.left = l] \in
              [pc : PlayPlaces, chunk : C, next : Pl!Slots, slot : Pl!Slots, at : A, left : L, failed : BOOLEAN]
        /\ \A a \in A : [g EXCEPT !.at = a] \in
              [pc : PlayPlaces, chunk : C, next : Pl!Slots, slot : Pl!Slots, at : A, left : L, failed : BOOLEAN]
        /\ \A l \in L : [g EXCEPT !.left = l] \in
              [pc : PlayPlaces, chunk : C, next : Pl!Slots, slot : Pl!Slots, at : A, left : L, failed : BOOLEAN]
    BY <1>0
  <1>2. /\ \A p \in PlayPlaces : [g EXCEPT !.pc = p, !.failed = TRUE] \in
              [pc : PlayPlaces, chunk : C, next : Pl!Slots, slot : Pl!Slots, at : A, left : L, failed : BOOLEAN]
        /\ \A p \in PlayPlaces, c \in C : [g EXCEPT !.pc = p, !.chunk = c] \in
              [pc : PlayPlaces, chunk : C, next : Pl!Slots, slot : Pl!Slots, at : A, left : L, failed : BOOLEAN]
    BY <1>0
  <1>3. QED
    BY <1>1, <1>2 DEF Generator, A, L, C

LEMMA PlayInit ==
  ASSUME Pl!Init PROVE PlayInv
  <1>1. PlayTyped
    <2>1. playback_gen \in Generator
      BY PlayConstants DEF Pl!Init, Generator, PlayPlaces
    <2>2. playback_hdr \in [Pl!Slots -> Header]
      <3>1. Pl!NoFlags \in Header
        BY DEF Pl!NoFlags, Header
      <3>2. QED
        BY <3>1 DEF Pl!Init
    <2>3. QED
      BY <2>1, <2>2 DEF Pl!Init, PlayTyped
  <1>2. /\ playback_queue = <<>> /\ playback_heard = 0 /\ playback_free = 0
        /\ playback_gen.pc = "open" /\ playback_gen.chunk = 0
    BY DEF Pl!Init
  <1>3. WritingOK
    BY <1>2 DEF WritingOK
  <1>4. Generated \in Nat
    BY <1>1, <1>3, Amounts
  <1>5. Written = Generated
    BY <1>2 DEF Written
  <1>6. FramesOK /\ BuffersOK /\ FlagsOK
    BY <1>2, <1>4, <1>5 DEF FramesOK, BuffersOK, FlagsOK
  <1>7. RotationOK
    BY <1>2, PlayConstants DEF RotationOK
  <1>8. QED
    BY <1>1, <1>3, <1>6, <1>7 DEF PlayInv

\* The generator's part of a step.
LEMMA GeneratorStep ==
  ASSUME PlayTyped, WritingOK, Pl!Next
  PROVE  playback_gen' \in Generator /\ WritingOK'
  <1> USE PlayConstants
  <1>0. playback_gen \in Generator
    BY Zenon DEF PlayTyped
  <1>1. CASE Pl!Open
    <2>1. /\ playback_gen.pc = "open" /\ playback_os' = playback_os
          /\ \/ playback_gen' = [playback_gen EXCEPT !.pc = "loop"]
             \/ playback_gen' = [playback_gen EXCEPT !.pc = "over", !.failed = TRUE]
          /\ playback_os # "audioQueue" /\ playback_free = 0 => playback_free' = 0
      BY <1>1 DEF Pl!Open, Pl!Goto
    <2>2. playback_gen' \in Generator
      <3>1. {"loop", "over"} \subseteq PlayPlaces
        BY DEF PlayPlaces
      <3>2. QED
        BY <1>0, <2>1, <3>1 DEF Generator
    <2>3. playback_gen'.pc \notin {"write", "wait", "handOver"}
      BY <1>0, <2>1 DEF Generator
    <2>4. playback_os # "audioQueue" => playback_free' = 0
      BY <2>1 DEF WritingOK
    <2>5. QED
      BY <2>1, <2>2, <2>3, <2>4 DEF WritingOK
  <1>2. CASE Pl!Stopped
    <2>1. /\ playback_gen' = [playback_gen EXCEPT !.pc = "close"]
          /\ playback_os' = playback_os /\ playback_free' = playback_free
      BY <1>2 DEF Pl!Stopped, Pl!Goto
    <2>2. QED
      BY <2>1 DEF PlayTyped, Generator, PlayPlaces, WritingOK
  <1>3. CASE Pl!Fill
    <2>1. /\ playback_gen.chunk < MaxChunks
          /\ playback_gen' = [playback_gen EXCEPT !.pc = "write", !.at = 0, !.left = Recoveries]
          /\ playback_os' = playback_os /\ playback_free' = playback_free
      BY <1>3, Zenon DEF Pl!Fill
    <2>2. playback_gen' \in Generator
      <3>1. "write" \in PlayPlaces /\ 0 \in 0 .. Frames /\ Recoveries \in 0 .. Recoveries
        BY DEF PlayPlaces
      <3>2. QED
        BY <1>0, <2>1, <3>1, GeneratorSet, Zenon
    <2>3. playback_gen'.pc = "write" /\ playback_gen'.chunk = playback_gen.chunk
      BY <1>0, <2>1 DEF Generator
    <2>4. WritingOK'
      BY <2>1, <2>3 DEF WritingOK
    <2>5. QED
      BY <2>2, <2>4
  <1>4. CASE Pl!Writei
    <2>1. /\ playback_gen.pc = "write" /\ playback_os = "alsa"
          /\ playback_os' = playback_os /\ playback_free' = playback_free
          /\ \/ \E n \in 1 .. Frames - playback_gen.at :
                  playback_gen' = [playback_gen EXCEPT !.at = playback_gen.at + n]
             \/ playback_gen.left > 1 /\ playback_gen' = [playback_gen EXCEPT !.left = playback_gen.left - 1]
             \/ playback_gen' = [playback_gen EXCEPT !.pc = "close", !.failed = TRUE]
      BY <1>4, Zenon DEF Pl!Writei, Pl!Fail
    <2>2. playback_gen' \in Generator
      <3>1. /\ \A n \in 1 .. Frames - playback_gen.at : playback_gen.at + n \in 0 .. Frames
            /\ playback_gen.left > 1 => playback_gen.left - 1 \in 0 .. Recoveries
            /\ "close" \in PlayPlaces
        BY <1>0, SMTT(40) DEF Generator, PlayPlaces
      <3>2. QED
        BY <1>0, <2>1, <3>1, GeneratorSet, Zenon
    <2>3. /\ playback_gen'.pc \in {"write", "close"}
          /\ playback_gen'.chunk = playback_gen.chunk
      BY <1>0, <2>1 DEF Generator
    <2>4. WritingOK'
      BY <2>1, <2>3 DEF WritingOK
    <2>5. QED
      BY <2>2, <2>4
  <1>5. CASE Pl!WriteiDone
    <2>1. /\ playback_gen.pc = "write" /\ playback_os' = playback_os /\ playback_free' = playback_free
          /\ playback_gen' = [playback_gen EXCEPT !.pc = "loop", !.chunk = playback_gen.chunk + 1]
      BY <1>5, Zenon DEF Pl!WriteiDone, Pl!Wrote
    <2>2. playback_gen' \in Generator
      <3>1. playback_gen.chunk < MaxChunks
        BY <2>1 DEF WritingOK
      <3>2. playback_gen.chunk + 1 \in 0 .. MaxChunks /\ "loop" \in PlayPlaces
        BY <1>0, <3>1 DEF Generator, PlayPlaces
      <3>3. QED
        BY <1>0, <2>1, <3>2, GeneratorSet, Zenon
    <2>3. playback_gen'.pc = "loop"
      BY <1>0, <2>1 DEF Generator
    <2>4. WritingOK'
      BY <2>1, <2>3 DEF WritingOK
    <2>5. QED
      BY <2>2, <2>4
  <1>6. CASE Pl!Turn
    <2>1. /\ playback_gen.pc = "write" /\ playback_os # "alsa"
          /\ playback_gen' = [playback_gen EXCEPT !.pc = "wait", !.slot = playback_gen.next,
                                                  !.next = (playback_gen.next + 1) % Buffers]
          /\ playback_os' = playback_os /\ playback_free' = playback_free
      BY <1>6 DEF Pl!Turn
    <2>2. (playback_gen.next + 1) % Buffers \in Pl!Slots
      BY Successor, SMTT(40) DEF PlayTyped, Generator
    <2>3. QED
      BY <2>1, <2>2 DEF PlayTyped, Generator, PlayPlaces, WritingOK
  <1>7. CASE Pl!Reclaim
    BY <1>7 DEF Pl!Reclaim, Pl!Goto, PlayTyped, Generator, PlayPlaces, WritingOK
  <1>8. CASE Pl!WaitForABuffer
    BY <1>8 DEF Pl!WaitForABuffer, Pl!Goto, PlayTyped, Generator, PlayPlaces, WritingOK
  <1>9. CASE Pl!NotGivenBack
    BY <1>9 DEF Pl!NotGivenBack, Pl!Fail, PlayTyped, Generator, PlayPlaces, WritingOK
  <1>10. CASE Pl!HandOver
    <2>1. /\ playback_gen.pc = "handOver" /\ playback_os' = playback_os /\ playback_free' = playback_free
          /\ \/ playback_gen' = [playback_gen EXCEPT !.pc = "loop", !.chunk = playback_gen.chunk + 1]
             \/ playback_gen' = [playback_gen EXCEPT !.pc = "close", !.failed = TRUE]
      BY <1>10, Zenon DEF Pl!HandOver, Pl!Wrote, Pl!Fail
    <2>2. playback_gen.chunk < MaxChunks
      BY <2>1 DEF WritingOK
    <2>31. playback_gen' \in Generator
      <3>2. playback_gen.chunk + 1 \in 0 .. MaxChunks /\ "loop" \in PlayPlaces /\ "close" \in PlayPlaces
        BY <1>0, <2>2 DEF Generator, PlayPlaces
      <3>3. CASE playback_gen' = [playback_gen EXCEPT !.pc = "loop", !.chunk = playback_gen.chunk + 1]
        BY <1>0, <3>2, <3>3, GeneratorSet, Zenon
      <3>4. CASE playback_gen' = [playback_gen EXCEPT !.pc = "close", !.failed = TRUE]
        BY <1>0, <3>2, <3>4, GeneratorSet, Zenon
      <3>5. QED
        BY <2>1, <3>3, <3>4, Zenon
    <2>3. playback_gen'.pc \in {"loop", "close"}
      BY <1>0, <2>1 DEF Generator
    <2>4. WritingOK'
      BY <2>1, <2>3 DEF WritingOK
    <2>5. QED
      BY <2>31, <2>4
  <1>11. CASE Pl!Close
    BY <1>11 DEF Pl!Close, Pl!Goto, PlayTyped, Generator, PlayPlaces, WritingOK
  <1>12. CASE Pl!Stop \/ Pl!PlayFrame \/ Pl!LoseQueue
    BY <1>12 DEF Pl!Stop, Pl!PlayFrame, Pl!LoseQueue, PlayTyped, WritingOK
  <1>13. CASE Pl!PlayBuffer
    BY <1>13 DEF Pl!PlayBuffer, PlayTyped, WritingOK
  <1>14. QED
    BY <1>1, <1>2, <1>3, <1>4, <1>5, <1>6, <1>7, <1>8, <1>9, <1>10, <1>11, <1>12, <1>13
    DEF Pl!Next, Pl!Generator

\* The device's part.
LEMMA DeviceStep ==
  ASSUME PlayTyped, WritingOK, FramesOK, BuffersOK, FlagsOK, Pl!Next
  PROVE  PlayTyped'
  <1> USE PlayConstants
  <1>1. playback_os' \in {"alsa", "waveOut", "audioQueue"} /\ playback_gen' \in Generator
    <2>1. playback_os' = playback_os
      BY Zenon DEF Pl!Next, Pl!Generator, Pl!Open, Pl!Stopped, Pl!Fill, Pl!Writei, Pl!WriteiDone, Pl!Turn, Pl!Reclaim,
                   Pl!WaitForABuffer, Pl!NotGivenBack, Pl!HandOver, Pl!Close, Pl!Stop, Pl!PlayFrame, Pl!LoseQueue,
                   Pl!PlayBuffer
    <2>2. QED
      BY <2>1, GeneratorStep DEF PlayTyped
  <1>2. playback_content' \in [Pl!Slots -> Nat]
    <2>1. CASE Pl!HandOver
      <3>1. playback_content' = [playback_content EXCEPT ![playback_gen.slot] = Pl!First]
        BY <2>1, Zenon DEF Pl!HandOver
      <3>2. Pl!First \in Nat
        BY Amounts DEF Pl!First, Generated
      <3>3. QED
        BY <3>1, <3>2 DEF PlayTyped
    <2>2. CASE ~Pl!HandOver
      <3>1. playback_content' = playback_content
        BY <2>2, Zenon DEF Pl!Next, Pl!Generator, Pl!Open, Pl!Stopped, Pl!Fill, Pl!Writei, Pl!WriteiDone, Pl!Turn,
                     Pl!Reclaim, Pl!WaitForABuffer, Pl!NotGivenBack, Pl!Close, Pl!Stop, Pl!PlayFrame, Pl!LoseQueue,
                     Pl!PlayBuffer
      <3>2. QED
        BY <3>1, Zenon DEF PlayTyped
    <2>3. QED
      BY <2>1, <2>2
  <1>3. playback_hdr' \in [Pl!Slots -> Header]
    <2>1. \/ playback_hdr' = playback_hdr
          \/ playback_hdr' = [i \in Pl!Slots |-> Pl!NoFlags]
          \/ playback_hdr' = [playback_hdr EXCEPT ![playback_gen.slot] = Pl!NoFlags]
          \/ playback_hdr' = [playback_hdr EXCEPT ![playback_gen.slot].prepared = TRUE]
          \/ \E s \in Nat : playback_hdr' = [playback_hdr EXCEPT ![s].done = TRUE]
      <3>1. playback_queue # <<>> => Head(playback_queue) \in Nat
        BY DEF PlayTyped
      <3>2. QED
        BY <3>1, Zenon
        DEF Pl!Next, Pl!Generator, Pl!Open, Pl!Stopped, Pl!Fill, Pl!Writei, Pl!WriteiDone, Pl!Turn, Pl!Reclaim,
            Pl!WaitForABuffer, Pl!NotGivenBack, Pl!HandOver, Pl!Close, Pl!Stop, Pl!PlayFrame, Pl!LoseQueue,
            Pl!PlayBuffer
    <2>2. Pl!NoFlags \in Header
      BY DEF Pl!NoFlags, Header
    <2>3. \A h \in Header : [h EXCEPT !.prepared = TRUE] \in Header /\ [h EXCEPT !.done = TRUE] \in Header
      BY DEF Header
    <2>4. playback_hdr \in [Pl!Slots -> Header]
      BY Zenon DEF PlayTyped
    <2>5. \A s : [playback_hdr EXCEPT ![s].done = TRUE] \in [Pl!Slots -> Header]
      BY <2>3, <2>4
    <2>6. \A s : [playback_hdr EXCEPT ![s].prepared = TRUE] \in [Pl!Slots -> Header]
      BY <2>3, <2>4
    <2>7. \A s : [playback_hdr EXCEPT ![s] = Pl!NoFlags] \in [Pl!Slots -> Header]
      BY <2>2, <2>4
    <2>8. [i \in Pl!Slots |-> Pl!NoFlags] \in [Pl!Slots -> Header]
      BY <2>2
    <2>9. CASE \E s \in Nat : playback_hdr' = [playback_hdr EXCEPT ![s].done = TRUE]
      BY <2>9, <2>5, Zenon
    <2>10. CASE playback_hdr' = [playback_hdr EXCEPT ![playback_gen.slot] = Pl!NoFlags]
      BY <2>10, <2>7, Zenon
    <2>11. CASE playback_hdr' = [playback_hdr EXCEPT ![playback_gen.slot].prepared = TRUE]
      BY <2>11, <2>6, Zenon
    <2>12. QED
      BY <2>1, <2>4, <2>8, <2>9, <2>10, <2>11, Zenon
  <1>4. playback_queue' \in Seq(Nat)
    <2>0. playback_queue \in Seq(Nat) /\ playback_gen \in Generator
      BY Zenon DEF PlayTyped
    <2>1. CASE Pl!Writei
      <3>1. CASE playback_queue' = playback_queue
        BY <2>0, <3>1
      <3>2. CASE \E n \in 1 .. Frames - playback_gen.at :
                   playback_queue' = playback_queue \o [i \in 1 .. n |-> Pl!First + playback_gen.at + i - 1]
        <4>1. Pl!First \in Nat /\ playback_gen.at \in Nat
          BY <2>0, Amounts, SMTT(40) DEF Pl!First, Generated, Generator
        <4>2. \A n \in Nat : [i \in 1 .. n |-> Pl!First + playback_gen.at + i - 1] \in Seq(Nat)
          BY <4>1
        <4>3. QED
          BY <2>0, <3>2, <4>1, <4>2
      <3>3. QED
        BY <2>1, <3>1, <3>2, Zenon DEF Pl!Writei
    <2>2. CASE Pl!HandOver
      <3>1. playback_queue' = playback_queue \/ playback_queue' = Append(playback_queue, playback_gen.slot)
        BY <2>2, Zenon DEF Pl!HandOver
      <3>2. playback_gen.slot \in Nat
        BY <2>0 DEF Generator
      <3>3. QED
        BY <2>0, <3>1, <3>2, SMTT(40)
    <2>3. CASE ~Pl!Writei /\ ~Pl!HandOver
      <3>1. \/ playback_queue' = playback_queue
            \/ playback_queue' = <<>>
            \/ playback_queue # <<>> /\ playback_queue' = Tail(playback_queue)
        BY <2>3, Zenon DEF Pl!Next, Pl!Generator, Pl!Open, Pl!Stopped, Pl!Fill, Pl!WriteiDone, Pl!Turn,
                     Pl!Reclaim, Pl!WaitForABuffer, Pl!NotGivenBack, Pl!Close, Pl!Stop, Pl!PlayFrame, Pl!LoseQueue,
                     Pl!PlayBuffer
      <3>2. QED
        <4>1. \A q \in Seq(Nat) : q # <<>> => Tail(q) \in Seq(Nat)
          OBVIOUS
        <4>2. <<>> \in Seq(Nat)
          OBVIOUS
        <4>3. QED
          BY <2>0, <3>1, <4>1, <4>2, Zenon
    <2>4. QED
      BY <2>1, <2>2, <2>3
  <1>5. playback_free' \in Nat
    <2>1. \/ playback_free' \in {playback_free, Buffers, 0, playback_free + 1}
          \/ playback_free > 0 /\ playback_free' = playback_free - 1
      BY Zenon DEF Pl!Next, Pl!Generator, Pl!Open, Pl!Stopped, Pl!Fill, Pl!Writei, Pl!WriteiDone, Pl!Turn, Pl!Reclaim,
                   Pl!WaitForABuffer, Pl!NotGivenBack, Pl!HandOver, Pl!Close, Pl!Stop, Pl!PlayFrame, Pl!LoseQueue,
                   Pl!PlayBuffer
    <2>2. QED
      BY <2>1 DEF PlayTyped
  <1>6. playback_heard' \in Nat
    <2>1. CASE Pl!PlayFrame
      BY <2>1 DEF Pl!PlayFrame, PlayTyped
    <2>2. CASE Pl!PlayBuffer
      <3>1. /\ playback_os # "alsa" /\ playback_queue # <<>>
            /\ playback_heard' = playback_content[Head(playback_queue)] + Frames - 1
        BY <2>2, Zenon DEF Pl!PlayBuffer
      <3>2. Len(playback_queue) >= 1 /\ Head(playback_queue) = playback_queue[1]
        BY <3>1 DEF PlayTyped
      <3>3. playback_queue[1] \in Pl!Slots
        BY <3>1, <3>2 DEF BuffersOK
      <3>4. playback_content[playback_queue[1]] \in Nat
        BY <3>3 DEF PlayTyped
      <3>5. QED
        BY <3>1, <3>2, <3>4
    <2>3. CASE ~Pl!PlayFrame /\ ~Pl!PlayBuffer
      <3>1. playback_heard' = playback_heard
        BY <2>3, Zenon DEF Pl!Next, Pl!Generator, Pl!Open, Pl!Stopped, Pl!Fill, Pl!Writei, Pl!WriteiDone, Pl!Turn,
                     Pl!Reclaim, Pl!WaitForABuffer, Pl!NotGivenBack, Pl!HandOver, Pl!Close, Pl!Stop, Pl!LoseQueue
      <3>2. QED
        BY <3>1 DEF PlayTyped
    <2>4. QED
      BY <2>1, <2>2, <2>3
  <1>7. QED
    BY <1>1, <1>2, <1>3, <1>4, <1>5, <1>6, Zenon DEF PlayTyped

LEMMA SameMachine ==
  ASSUME Pl!Next PROVE playback_os' = playback_os
  BY Zenon DEF Pl!Next, Pl!Generator, Pl!Open, Pl!Stopped, Pl!Fill, Pl!Writei, Pl!WriteiDone, Pl!Turn, Pl!Reclaim,
               Pl!WaitForABuffer, Pl!NotGivenBack, Pl!HandOver, Pl!Close, Pl!Stop, Pl!PlayFrame, Pl!LoseQueue,
               Pl!PlayBuffer

LEMMA FramesStep ==
  ASSUME PlayTyped, WritingOK, FramesOK, Pl!Next, playback_os = "alsa"
  PROVE  FramesOK'
  <1> DEFINE n == Len(playback_queue)
  <1>0. /\ playback_queue \in Seq(Nat) /\ playback_gen \in Generator /\ playback_heard \in Nat /\ n \in Nat
        /\ playback_os' = "alsa"
    BY SameMachine DEF PlayTyped
  <1>1. /\ Generated \in Nat /\ AllFrames \in Nat /\ Generated <= AllFrames
        /\ playback_gen.pc = "write" => Generated + Frames <= AllFrames
        /\ (playback_gen.chunk + 1) * Frames = Generated + Frames
        /\ playback_gen.at \in Nat /\ playback_gen.at <= Frames /\ Frames \in Nat
    BY <1>0, Amounts, PlayConstants DEF Generator
  <1>2. /\ playback_heard <= Written /\ Written \in Nat /\ Written <= AllFrames
        /\ \A i \in 1 .. n : playback_heard < playback_queue[i] /\ playback_queue[i] <= Written
        /\ \A i, j \in 1 .. n : i < j => playback_queue[i] < playback_queue[j]
    BY <1>1 DEF FramesOK, Written
  <1>3. ASSUME playback_queue' = playback_queue, playback_heard' = playback_heard, Written' \in Nat, Written <= Written'
        PROVE  FramesOK'
    BY <1>0, <1>2, <1>3 DEF FramesOK
  <1>4. CASE Pl!Open
    <2>1. /\ playback_gen.pc = "open" /\ playback_queue' = playback_queue /\ playback_heard' = playback_heard
          /\ \/ playback_gen' = [playback_gen EXCEPT !.pc = "loop"]
             \/ playback_gen' = [playback_gen EXCEPT !.pc = "over", !.failed = TRUE]
      BY <1>4, Zenon DEF Pl!Open, Pl!Goto
    <2>2. playback_gen'.pc \in {"loop", "over"} /\ playback_gen'.chunk = playback_gen.chunk
      BY <1>0, <2>1 DEF Generator
    <2>3. Written' \in {Generated, AllFrames} /\ Written = Generated
      BY <2>1, <2>2 DEF Written, Generated, AllFrames
    <2>4. QED
      BY <1>1, <1>3, <2>1, <2>3
  <1>5. CASE Pl!Stopped
    <2>1. /\ playback_gen' = [playback_gen EXCEPT !.pc = "close"]
          /\ playback_queue' = playback_queue /\ playback_heard' = playback_heard
      BY <1>5, Zenon DEF Pl!Stopped, Pl!Goto
    <2>2. playback_gen'.pc = "close"
      BY <1>0, <2>1 DEF Generator
    <2>3. Written' = AllFrames
      BY <2>2 DEF Written, AllFrames
    <2>4. QED
      BY <1>1, <1>2, <1>3, <2>1, <2>3
  <1>6. CASE Pl!Fill
    <2>1. /\ playback_gen.pc = "loop" /\ playback_gen' = [playback_gen EXCEPT !.pc = "write", !.at = 0, !.left = Recoveries]
          /\ playback_queue' = playback_queue /\ playback_heard' = playback_heard
      BY <1>6, Zenon DEF Pl!Fill
    <2>2. playback_gen'.pc = "write" /\ playback_gen'.chunk = playback_gen.chunk /\ playback_gen'.at = 0
      BY <1>0, <2>1 DEF Generator
    <2>3. Written' = Generated + 0 /\ Written = Generated
      BY <2>1, <2>2 DEF Written, Generated
    <2>4. QED
      BY <1>1, <1>3, <2>1, <2>3
  <1>7. CASE Pl!Writei
    <2>1. /\ playback_gen.pc = "write" /\ playback_heard' = playback_heard
          /\ \/ \E k \in 1 .. Frames - playback_gen.at :
                  /\ playback_gen' = [playback_gen EXCEPT !.at = playback_gen.at + k]
                  /\ playback_queue' = playback_queue \o [i \in 1 .. k |-> Pl!First + playback_gen.at + i - 1]
             \/ /\ \/ playback_gen' = [playback_gen EXCEPT !.left = playback_gen.left - 1]
                   \/ playback_gen' = [playback_gen EXCEPT !.pc = "close", !.failed = TRUE]
                /\ playback_queue' = playback_queue
      BY <1>7, Zenon DEF Pl!Writei, Pl!Fail
    <2>2. Written = Generated + playback_gen.at
      BY <2>1 DEF Written
    <2>3. CASE playback_gen' = [playback_gen EXCEPT !.left = playback_gen.left - 1] /\ playback_queue' = playback_queue
      <3>1. playback_gen'.pc = "write" /\ playback_gen'.chunk = playback_gen.chunk /\ playback_gen'.at = playback_gen.at
        BY <1>0, <2>1, <2>3 DEF Generator
      <3>2. Written' = Written
        BY <2>2, <3>1 DEF Written, Generated
      <3>3. QED
        BY <1>1, <1>2, <1>3, <2>1, <2>3, <3>2
    <2>4. CASE playback_gen' = [playback_gen EXCEPT !.pc = "close", !.failed = TRUE] /\ playback_queue' = playback_queue
      <3>1. playback_gen'.pc = "close"
        BY <1>0, <2>4 DEF Generator
      <3>2. Written' = AllFrames
        BY <3>1 DEF Written, AllFrames
      <3>3. QED
        BY <1>1, <1>2, <1>3, <2>1, <2>4, <3>2
    <2>5. ASSUME NEW k \in 1 .. Frames - playback_gen.at,
                 playback_gen' = [playback_gen EXCEPT !.at = playback_gen.at + k],
                 playback_queue' = playback_queue \o [i \in 1 .. k |-> Pl!First + playback_gen.at + i - 1]
          PROVE  FramesOK'
      <3>1. /\ playback_gen'.pc = "write" /\ playback_gen'.chunk = playback_gen.chunk
            /\ playback_gen'.at = playback_gen.at + k
        BY <1>0, <2>1, <2>5 DEF Generator
      <3>2. Written' = Written + k /\ k \in Nat
        BY <1>1, <2>2, <2>5, <3>1 DEF Written, Generated
      <3>3. Pl!First = Generated + 1
        BY DEF Pl!First, Generated
      <3>4. /\ [i \in 1 .. k |-> Pl!First + playback_gen.at + i - 1] \in Seq(Nat)
            /\ Len([i \in 1 .. k |-> Pl!First + playback_gen.at + i - 1]) = k
            /\ \A i \in 1 .. k : [j \in 1 .. k |-> Pl!First + playback_gen.at + j - 1][i] = Written + i
        BY <1>1, <2>2, <3>2, <3>3
      <3>5. /\ Len(playback_queue') = n + k
            /\ \A i \in 1 .. n : playback_queue'[i] = playback_queue[i]
            /\ \A i \in n + 1 .. n + k : playback_queue'[i] = Written + (i - n)
        BY <1>0, <2>5, <3>2, <3>4
      <3>51. \A i \in 1 .. n : playback_queue[i] \in Nat
        BY <1>0
      <3>52. n \in Nat /\ k \in Nat /\ Written \in Nat /\ playback_heard \in Nat /\ playback_heard' = playback_heard
        BY <1>0, <1>2, <2>1, <3>2
      <3>6. \A i \in 1 .. n + k : playback_heard' < playback_queue'[i] /\ playback_queue'[i] <= Written'
        <4>1. ASSUME NEW i \in 1 .. n
              PROVE  playback_heard' < playback_queue'[i] /\ playback_queue'[i] <= Written'
          BY <1>2, <3>2, <3>5, <3>51, <3>52
        <4>2. ASSUME NEW i \in n + 1 .. n + k
              PROVE  playback_heard' < playback_queue'[i] /\ playback_queue'[i] <= Written'
          BY <1>2, <3>2, <3>5, <3>52
        <4>3. \A i \in 1 .. n + k : i \in 1 .. n \/ i \in n + 1 .. n + k
          BY <3>52
        <4>4. QED
          BY <4>1, <4>2, <4>3, Zenon
      <3>7. \A i, j \in 1 .. n + k : i < j => playback_queue'[i] < playback_queue'[j]
        <4>1. ASSUME NEW i \in 1 .. n + k, NEW j \in 1 .. n + k, i < j, j <= n
              PROVE  playback_queue'[i] < playback_queue'[j]
          BY <1>2, <3>5, <3>52, <4>1
        <4>2. ASSUME NEW i \in 1 .. n + k, NEW j \in 1 .. n + k, i < j, n < i
              PROVE  playback_queue'[i] < playback_queue'[j]
          BY <3>5, <3>52, <4>2
        <4>3. ASSUME NEW i \in 1 .. n + k, NEW j \in 1 .. n + k, i <= n, n < j
              PROVE  playback_queue'[i] < playback_queue'[j]
          BY <1>2, <3>5, <3>51, <3>52, <4>3, SMTT(40)
        <4>4. QED
          BY <3>52, <4>1, <4>2, <4>3
      <3>8. playback_heard' <= Written'
        BY <1>0, <1>2, <2>1, <3>2
      <3>9. QED
        BY <3>5, <3>6, <3>7, <3>8 DEF FramesOK
    <2>6. QED
      BY <2>1, <2>3, <2>4, <2>5, Zenon
  <1>8. CASE Pl!WriteiDone
    <2>1. /\ playback_gen.pc = "write" /\ playback_gen.at = Frames
          /\ playback_gen' = [playback_gen EXCEPT !.pc = "loop", !.chunk = playback_gen.chunk + 1]
          /\ playback_queue' = playback_queue /\ playback_heard' = playback_heard
      BY <1>8, Zenon DEF Pl!WriteiDone, Pl!Wrote
    <2>2. playback_gen'.pc = "loop" /\ playback_gen'.chunk = playback_gen.chunk + 1
      BY <1>0, <2>1 DEF Generator
    <2>3. Written' = Generated + Frames /\ Written = Generated + Frames
      BY <1>1, <2>1, <2>2 DEF Written, Generated
    <2>4. QED
      BY <1>1, <1>3, <2>1, <2>3
  <1>9. CASE Pl!Close
    <2>1. playback_queue' = <<>> /\ playback_heard' = playback_heard /\ playback_gen' = [playback_gen EXCEPT !.pc = "over"]
      BY <1>9, Zenon DEF Pl!Close, Pl!Goto
    <2>2. playback_gen'.pc = "over"
      BY <1>0, <2>1 DEF Generator
    <2>3. Written' = AllFrames
      BY <2>2 DEF Written, AllFrames
    <2>4. QED
      BY <1>0, <1>1, <1>2, <2>1, <2>3 DEF FramesOK
  <1>10. CASE Pl!Stop
    BY <1>0, <1>2, <1>10 DEF Pl!Stop, FramesOK, Written, Generated
  <1>11. CASE Pl!PlayFrame
    <2>1. /\ playback_queue # <<>> /\ playback_heard' = Head(playback_queue) /\ playback_queue' = Tail(playback_queue)
          /\ playback_gen' = playback_gen
      BY <1>11, Zenon DEF Pl!PlayFrame
    <2>2. Written' = Written
      BY <2>1 DEF Written, Generated
    <2>3. /\ n >= 1 /\ playback_heard' = playback_queue[1] /\ Len(playback_queue') = n - 1
          /\ \A i \in 1 .. n - 1 : playback_queue'[i] = playback_queue[i + 1]
          /\ \A i \in 1 .. n : playback_queue[i] \in Nat
      BY <1>0, <2>1
    <2>4. playback_heard' <= Written'
      BY <1>0, <1>2, <2>2, <2>3
    <2>5. ASSUME NEW i \in 1 .. n - 1
          PROVE  playback_heard' < playback_queue'[i] /\ playback_queue'[i] <= Written'
      <3>1. 1 \in 1 .. n /\ i + 1 \in 1 .. n /\ 1 < i + 1 /\ playback_queue'[i] = playback_queue[i + 1]
        BY <1>0, <2>3
      <3>2. playback_queue[1] < playback_queue[i + 1] /\ playback_queue[i + 1] <= Written
        BY <1>2, <3>1
      <3>3. QED
        BY <2>2, <2>3, <3>1, <3>2
    <2>6. ASSUME NEW i \in 1 .. n - 1, NEW j \in 1 .. n - 1, i < j
          PROVE  playback_queue'[i] < playback_queue'[j]
      <3>1. /\ i + 1 \in 1 .. n /\ j + 1 \in 1 .. n /\ i + 1 < j + 1
            /\ playback_queue'[i] = playback_queue[i + 1] /\ playback_queue'[j] = playback_queue[j + 1]
        BY <1>0, <2>3, <2>6
      <3>2. QED
        BY <1>2, <3>1
    <2>7. QED
      BY <2>3, <2>4, <2>5, <2>6 DEF FramesOK
  <1>12. CASE Pl!LoseQueue
    <2>1. playback_queue' = <<>> /\ playback_heard' = playback_heard /\ playback_gen' = playback_gen
      BY <1>12, Zenon DEF Pl!LoseQueue
    <2>2. Written' = Written
      BY <2>1 DEF Written, Generated
    <2>3. QED
      BY <1>0, <1>2, <2>1, <2>2 DEF FramesOK
  <1>13. ~Pl!Turn /\ ~Pl!Reclaim /\ ~Pl!WaitForABuffer /\ ~Pl!NotGivenBack /\ ~Pl!PlayBuffer /\ ~Pl!HandOver
    BY DEF Pl!Turn, Pl!Reclaim, Pl!WaitForABuffer, Pl!NotGivenBack, Pl!PlayBuffer, Pl!HandOver, WritingOK
  <1>14. QED
    BY <1>4, <1>5, <1>6, <1>7, <1>8, <1>9, <1>10, <1>11, <1>12, <1>13, Zenon DEF Pl!Next, Pl!Generator

\* The steps of the other two in which nothing is handed over and nothing is played.
LEMMA QuietStep ==
  ASSUME PlayTyped, Pl!Next, playback_os # "alsa", ~Pl!HandOver, ~Pl!Close, ~Pl!PlayBuffer
  PROVE  /\ playback_content' = playback_content /\ playback_queue' = playback_queue
         /\ playback_heard' = playback_heard /\ playback_gen'.chunk = playback_gen.chunk
  <1>1. /\ playback_content' = playback_content /\ playback_queue' = playback_queue
        /\ playback_heard' = playback_heard
    BY Zenon DEF Pl!Next, Pl!Generator, Pl!Open, Pl!Stopped, Pl!Fill, Pl!Writei, Pl!WriteiDone, Pl!Turn, Pl!Reclaim,
                 Pl!WaitForABuffer, Pl!NotGivenBack, Pl!Stop, Pl!PlayFrame, Pl!LoseQueue
  <1>2. \/ playback_gen' = playback_gen
        \/ \E p \in PlayPlaces : playback_gen' = [playback_gen EXCEPT !.pc = p]
        \/ \E p \in PlayPlaces : playback_gen' = [playback_gen EXCEPT !.pc = p, !.failed = TRUE]
        \/ \E p \in PlayPlaces : playback_gen' = [playback_gen EXCEPT !.pc = p, !.at = 0, !.left = Recoveries]
        \/ \E p \in PlayPlaces : playback_gen' = [playback_gen EXCEPT !.pc = p, !.slot = playback_gen.next,
                                                                     !.next = (playback_gen.next + 1) % Buffers]
    <2>1. PlayPlaces = {"open", "loop", "write", "wait", "handOver", "close", "over"}
      BY DEF PlayPlaces
    <2>2. CASE Pl!Open \/ Pl!Stopped \/ Pl!Reclaim \/ Pl!WaitForABuffer \/ Pl!NotGivenBack
      BY <2>1, <2>2, Zenon DEF Pl!Open, Pl!Stopped, Pl!Reclaim, Pl!WaitForABuffer, Pl!NotGivenBack, Pl!Goto, Pl!Fail
    <2>3. CASE Pl!Fill
      BY <2>1, <2>3, Zenon DEF Pl!Fill
    <2>4. CASE Pl!Turn
      BY <2>1, <2>4, Zenon DEF Pl!Turn
    <2>5. CASE Pl!Stop
      BY <2>5, Zenon DEF Pl!Stop
    <2>6. QED
      BY <2>2, <2>3, <2>4, <2>5, Zenon
      DEF Pl!Next, Pl!Generator, Pl!Writei, Pl!WriteiDone, Pl!PlayFrame, Pl!LoseQueue
  <1>3. playback_gen \in Generator
    BY Zenon DEF PlayTyped
  <1>4. playback_gen'.chunk = playback_gen.chunk
    BY <1>2, <1>3 DEF Generator
  <1>5. QED
    BY <1>1, <1>4

\* The buffer that is handed over is none of those the device has.
LEMMA HandedOverIsOurs ==
  ASSUME PlayTyped, WritingOK, FlagsOK, RotationOK, playback_gen.pc = "handOver",
         NEW i \in 1 .. Len(playback_queue)
  PROVE  playback_queue[i] # playback_gen.slot
  <1>1. CASE playback_os = "waveOut"
    BY <1>1 DEF FlagsOK, Pl!NoFlags
  <1>2. CASE playback_os = "audioQueue"
    <2>1. /\ Len(playback_queue) \in Nat /\ playback_free \in Nat
          /\ playback_gen.slot \in 0 .. Buffers - 1 /\ Buffers \in Nat
      BY PlayConstants DEF PlayTyped, Generator
    <2>2. Len(playback_queue) + playback_free + 1 <= Buffers
      BY <1>2 DEF RotationOK
    <2>3. playback_queue[i] = Back(playback_gen.slot, Len(playback_queue) + 1 - i)
      BY <1>2 DEF RotationOK, InTurnNow
    <2>4. QED
      BY <2>1, <2>2, <2>3 DEF Back
  <1>3. QED
    BY <1>1, <1>2 DEF PlayTyped, WritingOK

LEMMA BuffersStep ==
  ASSUME PlayTyped, WritingOK, BuffersOK, FlagsOK, RotationOK, Pl!Next, playback_os # "alsa"
  PROVE  BuffersOK'
  <1> DEFINE n == Len(playback_queue)
  <1>0. /\ playback_queue \in Seq(Nat) /\ playback_gen \in Generator /\ playback_heard \in Nat /\ n \in Nat
        /\ playback_content \in [Pl!Slots -> Nat] /\ playback_os' # "alsa"
    BY SameMachine DEF PlayTyped
  <1>1. /\ Generated \in Nat /\ (playback_gen.chunk + 1) * Frames = Generated + Frames
        /\ Frames \in Nat /\ Frames >= 1 /\ playback_gen.slot \in Pl!Slots
    BY <1>0, Amounts, PlayConstants DEF Generator
  <1>2. /\ playback_heard <= Generated
        /\ \A i \in 1 .. n : /\ playback_queue[i] \in Pl!Slots
                             /\ playback_heard < playback_content[playback_queue[i]]
                             /\ playback_content[playback_queue[i]] + Frames <= Generated + 1
        /\ \A i, j \in 1 .. n : i < j =>
             playback_content[playback_queue[i]] + Frames <= playback_content[playback_queue[j]]
    BY Zenon DEF BuffersOK
  <1>3. CASE ~Pl!HandOver /\ ~Pl!Close /\ ~Pl!PlayBuffer
    <2>1. /\ playback_content' = playback_content /\ playback_queue' = playback_queue
          /\ playback_heard' = playback_heard /\ playback_gen'.chunk = playback_gen.chunk
      BY <1>3, QuietStep, Zenon
    <2>2. Generated' = Generated
      BY <2>1 DEF Generated
    <2>3. QED
      BY <1>2, <2>1, <2>2 DEF BuffersOK
  <1>4. CASE Pl!Close
    <2>1. playback_queue' = <<>> /\ playback_heard' = playback_heard /\ playback_gen' = [playback_gen EXCEPT !.pc = "over"]
      BY <1>4, Zenon DEF Pl!Close, Pl!Goto
    <2>2. playback_gen'.chunk = playback_gen.chunk
      BY <1>0, <2>1 DEF Generator
    <2>3. Generated' = Generated
      BY <2>2 DEF Generated
    <2>4. Len(playback_queue') = 0
      BY <2>1
    <2>5. QED
      BY <1>2, <2>1, <2>3, <2>4 DEF BuffersOK
  <1>5. CASE Pl!PlayBuffer
    <2>1. /\ playback_queue # <<>> /\ playback_queue' = Tail(playback_queue)
          /\ playback_heard' = playback_content[Head(playback_queue)] + Frames - 1
          /\ playback_gen' = playback_gen /\ playback_content' = playback_content
      BY <1>5, Zenon DEF Pl!PlayBuffer
    <2>2. Generated' = Generated
      BY <2>1 DEF Generated
    <2>3. /\ n >= 1 /\ Head(playback_queue) = playback_queue[1] /\ Len(playback_queue') = n - 1
          /\ \A i \in 1 .. n - 1 : playback_queue'[i] = playback_queue[i + 1]
      BY <1>0, <2>1
    <2>4. \A i \in 1 .. n : playback_content[playback_queue[i]] \in Nat
      BY <1>0, <1>2
    <2>5. playback_heard' <= Generated'
      BY <1>1, <1>2, <2>1, <2>2, <2>3, <2>4
    <2>6. ASSUME NEW i \in 1 .. n - 1
          PROVE  /\ playback_queue'[i] \in Pl!Slots
                 /\ playback_heard' < playback_content'[playback_queue'[i]]
                 /\ playback_content'[playback_queue'[i]] + Frames <= Generated' + 1
      <3>1. 1 \in 1 .. n /\ i + 1 \in 1 .. n /\ 1 < i + 1 /\ playback_queue'[i] = playback_queue[i + 1]
        BY <1>0, <2>3, SMTT(40)
      <3>2. /\ playback_queue[i + 1] \in Pl!Slots
            /\ playback_content[playback_queue[1]] + Frames <= playback_content[playback_queue[i + 1]]
            /\ playback_content[playback_queue[i + 1]] + Frames <= Generated + 1
        BY <1>2, <3>1
      <3>3. playback_content[playback_queue[1]] \in Nat /\ playback_content[playback_queue[i + 1]] \in Nat
        BY <2>4, <3>1
      <3>4. playback_heard' = playback_content[playback_queue[1]] + Frames - 1
            /\ playback_content'[playback_queue'[i]] = playback_content[playback_queue[i + 1]]
        BY <2>1, <2>3, <3>1
      <3>5. playback_heard' < playback_content[playback_queue[i + 1]]
        BY <1>1, <3>2, <3>3, <3>4
      <3>6. QED
        BY <2>2, <3>1, <3>2, <3>4, <3>5
    <2>7. ASSUME NEW i \in 1 .. n - 1, NEW j \in 1 .. n - 1, i < j
          PROVE  playback_content'[playback_queue'[i]] + Frames <= playback_content'[playback_queue'[j]]
      <3>1. i + 1 \in 1 .. n /\ j + 1 \in 1 .. n /\ i + 1 < j + 1
        BY <1>0, <2>7
      <3>2. playback_queue'[i] = playback_queue[i + 1] /\ playback_queue'[j] = playback_queue[j + 1]
        BY <2>3
      <3>3. QED
        BY <1>2, <2>1, <3>1, <3>2
    <2>8. QED
      BY <1>0, <2>3, <2>5, <2>6, <2>7 DEF BuffersOK
  <1>6. CASE Pl!HandOver
    <2>1. /\ playback_gen.pc = "handOver" /\ playback_heard' = playback_heard
          /\ playback_content' = [playback_content EXCEPT ![playback_gen.slot] = Pl!First]
          /\ \/ /\ playback_queue' = Append(playback_queue, playback_gen.slot)
                /\ playback_gen' = [playback_gen EXCEPT !.pc = "loop", !.chunk = playback_gen.chunk + 1]
             \/ /\ playback_queue' = playback_queue
                /\ playback_gen' = [playback_gen EXCEPT !.pc = "close", !.failed = TRUE]
      BY <1>6, Zenon DEF Pl!HandOver, Pl!Wrote, Pl!Fail
    <2>2. Pl!First = Generated + 1
      BY DEF Pl!First, Generated
    <2>3. /\ playback_content'[playback_gen.slot] = Generated + 1
          /\ \A i \in 1 .. n : playback_content'[playback_queue[i]] = playback_content[playback_queue[i]]
      <3>1. \A i \in 1 .. n : playback_queue[i] # playback_gen.slot
        BY <2>1, HandedOverIsOurs
      <3>2. QED
        BY <1>0, <1>1, <1>2, <2>1, <2>2, <3>1
    <2>4. CASE playback_queue' = playback_queue /\ playback_gen' = [playback_gen EXCEPT !.pc = "close", !.failed = TRUE]
      <3>1. playback_gen'.chunk = playback_gen.chunk
        BY <1>0, <2>4 DEF Generator
      <3>2. Generated' = Generated
        BY <3>1 DEF Generated
      <3>3. QED
        BY <1>2, <2>1, <2>3, <2>4, <3>2 DEF BuffersOK
    <2>5. CASE /\ playback_queue' = Append(playback_queue, playback_gen.slot)
               /\ playback_gen' = [playback_gen EXCEPT !.pc = "loop", !.chunk = playback_gen.chunk + 1]
      <3>1. playback_gen'.chunk = playback_gen.chunk + 1
        BY <1>0, <2>5 DEF Generator
      <3>2. Generated' = Generated + Frames
        BY <1>1, <3>1 DEF Generated
      <3>3. /\ Len(playback_queue') = n + 1 /\ playback_queue'[n + 1] = playback_gen.slot
            /\ \A i \in 1 .. n : playback_queue'[i] = playback_queue[i]
        BY <1>0, <1>1, <2>5, PlayConstants
      <3>4. \A i \in 1 .. n : playback_content[playback_queue[i]] \in Nat
        BY <1>0, <1>2
      <3>5. playback_heard' <= Generated'
        BY <1>0, <1>1, <1>2, <2>1, <3>2
      <3>6. ASSUME NEW i \in 1 .. n + 1
            PROVE  /\ playback_queue'[i] \in Pl!Slots
                   /\ playback_heard' < playback_content'[playback_queue'[i]]
                   /\ playback_content'[playback_queue'[i]] + Frames <= Generated' + 1
        <4>1. CASE i = n + 1
          BY <1>0, <1>1, <1>2, <2>1, <2>3, <3>2, <3>3, <4>1
        <4>2. CASE i # n + 1
          <5>1. i \in 1 .. n
            BY <1>0, <4>2
          <5>2. playback_content'[playback_queue'[i]] = playback_content[playback_queue[i]]
            BY <2>3, <3>3, <5>1
          <5>3. QED
            BY <1>0, <1>1, <1>2, <2>1, <3>2, <3>3, <3>4, <5>1, <5>2
        <4>3. QED
          BY <4>1, <4>2
      <3>7. ASSUME NEW i \in 1 .. n + 1, NEW j \in 1 .. n + 1, i < j
            PROVE  playback_content'[playback_queue'[i]] + Frames <= playback_content'[playback_queue'[j]]
        <4>1. i \in 1 .. n
          BY <1>0, <3>7
        <4>2. playback_content'[playback_queue'[i]] = playback_content[playback_queue[i]]
          BY <2>3, <3>3, <4>1
        <4>3. CASE j = n + 1
          BY <1>1, <1>2, <2>3, <3>3, <4>1, <4>2, <4>3
        <4>4. CASE j # n + 1
          <5>1. j \in 1 .. n
            BY <1>0, <4>4
          <5>2. playback_content'[playback_queue'[j]] = playback_content[playback_queue[j]]
            BY <2>3, <3>3, <5>1
          <5>3. QED
            BY <1>2, <3>7, <4>1, <4>2, <5>1, <5>2
        <4>5. QED
          BY <4>3, <4>4
      <3>8. QED
        BY <1>0, <3>3, <3>5, <3>6, <3>7 DEF BuffersOK
    <2>6. QED
      BY <2>1, <2>4, <2>5, Zenon
  <1>7. QED
    BY <1>3, <1>4, <1>5, <1>6

LEMMA FlagsStep ==
  ASSUME PlayTyped, WritingOK, BuffersOK, FlagsOK, RotationOK, Pl!Next, playback_os = "waveOut"
  PROVE  FlagsOK'
  <1> DEFINE n == Len(playback_queue)
  <1>0. /\ playback_queue \in Seq(Nat) /\ playback_gen \in Generator /\ n \in Nat
        /\ playback_hdr \in [Pl!Slots -> Header] /\ playback_gen.slot \in Pl!Slots
    BY DEF PlayTyped, Generator
  <1>1. /\ \A i \in 1 .. n : /\ playback_queue[i] \in Pl!Slots
                             /\ playback_hdr[playback_queue[i]].prepared = TRUE
                             /\ playback_hdr[playback_queue[i]].done = FALSE
        /\ playback_gen.pc = "handOver" => playback_hdr[playback_gen.slot] = Pl!NoFlags
    BY DEF BuffersOK, FlagsOK
  <1>2. Pl!NoFlags \in Header /\ Pl!NoFlags.prepared = FALSE /\ Pl!NoFlags.done = FALSE
    BY DEF Pl!NoFlags, Header
  <1>3. CASE ~Pl!HandOver /\ ~Pl!Close /\ ~Pl!PlayBuffer /\ ~Pl!Reclaim
    <2>1. playback_queue' = playback_queue
      BY <1>3, QuietStep, Zenon
    <2>2. playback_hdr' = playback_hdr
      BY <1>3, Zenon DEF Pl!Next, Pl!Generator, Pl!Open, Pl!Stopped, Pl!Fill, Pl!Writei, Pl!WriteiDone, Pl!Turn,
                         Pl!WaitForABuffer, Pl!NotGivenBack, Pl!Stop, Pl!PlayFrame, Pl!LoseQueue
    <2>3. playback_gen' = playback_gen \/ playback_gen'.pc # "handOver"
      <3>1. CASE Pl!Open \/ Pl!Stopped \/ Pl!Fill \/ Pl!Turn \/ Pl!NotGivenBack
        BY <1>0, <3>1 DEF Pl!Open, Pl!Stopped, Pl!Fill, Pl!Turn, Pl!NotGivenBack, Pl!Goto, Pl!Fail, Generator
      <3>2. CASE Pl!Stop
        BY <3>2, Zenon DEF Pl!Stop
      <3>3. QED
        BY <1>3, <3>1, <3>2, Zenon
        DEF Pl!Next, Pl!Generator, Pl!Writei, Pl!WriteiDone, Pl!WaitForABuffer, Pl!PlayFrame, Pl!LoseQueue
    <2>4. QED
      BY <1>1, <2>1, <2>2, <2>3 DEF FlagsOK
  <1>4. CASE Pl!Reclaim
    <2>1. /\ playback_queue' = playback_queue
          /\ playback_hdr' = [playback_hdr EXCEPT ![playback_gen.slot] = Pl!NoFlags]
          /\ playback_gen' = [playback_gen EXCEPT !.pc = "handOver"]
          /\ playback_hdr[playback_gen.slot].prepared => playback_hdr[playback_gen.slot].done
      BY <1>4, Zenon DEF Pl!Reclaim, Pl!Goto
    <2>2. \A i \in 1 .. n : playback_queue[i] # playback_gen.slot
      BY <1>1, <2>1, Zenon
    <2>3. playback_gen'.slot = playback_gen.slot
      BY <1>0, <2>1 DEF Generator
    <2>4. playback_hdr'[playback_gen'.slot] = Pl!NoFlags
      BY <1>0, <2>1, <2>3
    <2>5. \A i \in 1 .. n : playback_hdr'[playback_queue[i]] = playback_hdr[playback_queue[i]]
      BY <1>0, <1>1, <2>1, <2>2
    <2>6. QED
      BY <1>1, <2>1, <2>4, <2>5 DEF FlagsOK
  <1>5. CASE Pl!Close
    <2>1. playback_queue' = <<>> /\ playback_gen' = [playback_gen EXCEPT !.pc = "over"]
      BY <1>5, Zenon DEF Pl!Close, Pl!Goto
    <2>2. playback_gen'.pc = "over" /\ Len(playback_queue') = 0
      BY <1>0, <2>1 DEF Generator
    <2>3. QED
      BY <2>2 DEF FlagsOK
  <1>6. CASE Pl!PlayBuffer
    <2>1. /\ playback_queue # <<>> /\ playback_queue' = Tail(playback_queue) /\ playback_gen' = playback_gen
          /\ playback_hdr' = [playback_hdr EXCEPT ![Head(playback_queue)].done = TRUE]
      BY <1>6, Zenon DEF Pl!PlayBuffer
    <2>2. /\ n >= 1 /\ Head(playback_queue) = playback_queue[1] /\ Len(playback_queue') = n - 1
          /\ \A i \in 1 .. n - 1 : playback_queue'[i] = playback_queue[i + 1]
      BY <1>0, <2>1
    <2>3. ASSUME NEW s \in Pl!Slots, s # playback_queue[1]
          PROVE  playback_hdr'[s] = playback_hdr[s]
      BY <1>0, <2>1, <2>2, <2>3
    <2>4. ASSUME NEW i \in 1 .. n - 1
          PROVE  playback_hdr'[playback_queue'[i]].prepared = TRUE /\ playback_hdr'[playback_queue'[i]].done = FALSE
      <3>1. 1 \in 1 .. n /\ i + 1 \in 1 .. n /\ 1 < i + 1
        BY <1>0, <2>2
      <3>2. playback_content[playback_queue[1]] + Frames <= playback_content[playback_queue[i + 1]]
        BY <3>1 DEF BuffersOK
      <3>3. playback_content[playback_queue[1]] \in Nat
        BY <1>1, <3>1 DEF PlayTyped
      <3>4. playback_queue[i + 1] # playback_queue[1]
        BY <3>2, <3>3, PlayConstants
      <3>5. playback_hdr'[playback_queue[i + 1]] = playback_hdr[playback_queue[i + 1]]
        BY <1>1, <2>3, <3>1, <3>4
      <3>6. QED
        BY <1>1, <2>2, <3>1, <3>5
    <2>5. playback_gen'.pc = "handOver" => playback_hdr'[playback_gen'.slot] = Pl!NoFlags
      <3>1. SUFFICES ASSUME playback_gen.pc = "handOver" PROVE playback_hdr'[playback_gen.slot] = Pl!NoFlags
        BY <2>1
      <3>2. 1 \in 1 .. n
        BY <1>0, <2>2
      <3>3. playback_gen.slot # playback_queue[1]
        BY <3>1, <3>2, HandedOverIsOurs
      <3>4. QED
        BY <1>0, <1>1, <2>3, <3>1, <3>3
    <2>6. QED
      BY <2>2, <2>4, <2>5 DEF FlagsOK
  <1>7. CASE Pl!HandOver
    <2>1. /\ playback_gen.pc = "handOver"
          /\ \/ /\ playback_queue' = Append(playback_queue, playback_gen.slot)
                /\ playback_hdr' = [playback_hdr EXCEPT ![playback_gen.slot].prepared = TRUE]
                /\ playback_gen' = [playback_gen EXCEPT !.pc = "loop", !.chunk = playback_gen.chunk + 1]
             \/ /\ playback_queue' = playback_queue
                /\ \/ playback_hdr' = playback_hdr
                   \/ playback_hdr' = [playback_hdr EXCEPT ![playback_gen.slot].prepared = TRUE]
                /\ playback_gen' = [playback_gen EXCEPT !.pc = "close", !.failed = TRUE]
      BY <1>7, Zenon DEF Pl!HandOver, Pl!Wrote, Pl!Fail
    <2>2. playback_gen'.pc # "handOver"
      BY <1>0, <2>1 DEF Generator
    <2>3. \A i \in 1 .. n : playback_queue[i] # playback_gen.slot
      BY <2>1, HandedOverIsOurs
    <2>4. \A i \in 1 .. n : playback_hdr'[playback_queue[i]] = playback_hdr[playback_queue[i]]
      BY <1>0, <1>1, <2>1, <2>3
    <2>5. CASE playback_queue' = playback_queue
      BY <1>1, <2>2, <2>4, <2>5 DEF FlagsOK
    <2>6. CASE /\ playback_queue' = Append(playback_queue, playback_gen.slot)
               /\ playback_hdr' = [playback_hdr EXCEPT ![playback_gen.slot].prepared = TRUE]
      <3>1. /\ Len(playback_queue') = n + 1 /\ playback_queue'[n + 1] = playback_gen.slot
            /\ \A i \in 1 .. n : playback_queue'[i] = playback_queue[i]
        BY <1>0, <2>6, PlayConstants
      <3>2. playback_hdr[playback_gen.slot].done = FALSE
        BY <1>1, <1>2, <2>1
      <3>3. playback_hdr'[playback_gen.slot].prepared = TRUE /\ playback_hdr'[playback_gen.slot].done = FALSE
        BY <1>0, <2>6, <3>2 DEF Header
      <3>4. ASSUME NEW i \in 1 .. n + 1
            PROVE  playback_hdr'[playback_queue'[i]].prepared = TRUE /\ playback_hdr'[playback_queue'[i]].done = FALSE
        <4>1. i = n + 1 \/ i \in 1 .. n
          BY <1>0
        <4>2. QED
          BY <1>1, <2>4, <3>1, <3>3, <4>1
      <3>5. QED
        BY <2>2, <3>1, <3>4 DEF FlagsOK
    <2>7. QED
      BY <2>1, <2>5, <2>6, Zenon
  <1>8. QED
    BY <1>3, <1>4, <1>5, <1>6, <1>7

\* Where the rotation goes from one buffer to the next.
LEMMA Rotates ==
  ASSUME NEW s \in Pl!Slots, NEW k \in 1 .. Buffers - 1
  PROVE  /\ Back((s + 1) % Buffers, 1) = s
         /\ Back((s + 1) % Buffers, k + 1) = Back(s, k)
  <1>1. s \in 0 .. Buffers - 1 /\ Buffers \in Nat /\ Buffers >= 1
    BY PlayConstants
  <1>2. CASE s + 1 = Buffers
    <2>1. (s + 1) % Buffers = 0
      BY <1>2, Successor
    <2>2. QED
      BY <1>1, <1>2, <2>1 DEF Back
  <1>3. CASE s + 1 # Buffers
    <2>1. (s + 1) % Buffers = s + 1
      BY <1>3, Successor
    <2>2. QED
      BY <1>1, <1>3, <2>1 DEF Back
  <1>4. QED
    BY <1>2, <1>3

LEMMA RotationStep ==
  ASSUME PlayTyped, WritingOK, RotationOK, Pl!Next, playback_os = "audioQueue"
  PROVE  RotationOK'
  <1> DEFINE n == Len(playback_queue)
  <1>0. /\ playback_queue \in Seq(Nat) /\ playback_gen \in Generator /\ n \in Nat
        /\ playback_gen.slot \in Pl!Slots /\ playback_free \in Nat /\ Buffers \in Nat /\ Buffers >= 1
    BY PlayConstants DEF PlayTyped, Generator
  <1>1. /\ playback_gen.pc = "open" => playback_free = 0 /\ n = 0
        /\ n + playback_free <= Buffers
        /\ playback_gen.pc = "handOver" => n + playback_free + 1 <= Buffers
        /\ playback_gen.pc \in {"loop", "write", "wait", "handOver"} =>
             \A i \in 1 .. n : playback_queue[i] = Back(InTurnNow, n + 1 - i)
    BY <1>0 DEF RotationOK
  <1>2. CASE Pl!Open
    <2>1. /\ playback_gen.pc = "open" /\ playback_queue' = playback_queue
          /\ \/ playback_gen' = [playback_gen EXCEPT !.pc = "loop"] /\ playback_free' = Buffers
             \/ playback_gen' = [playback_gen EXCEPT !.pc = "over", !.failed = TRUE] /\ playback_free' = playback_free
      BY <1>2, Zenon DEF Pl!Open, Pl!Goto
    <2>2. playback_gen'.pc \in {"loop", "over"}
      BY <1>0, <2>1 DEF Generator
    <2>3. Len(playback_queue') = 0 /\ playback_free' <= Buffers /\ playback_free' \in Nat
      BY <1>0, <1>1, <2>1
    <2>4. QED
      BY <2>2, <2>3 DEF RotationOK
  <1>3. CASE Pl!Stopped \/ Pl!NotGivenBack
    <2>1. /\ \/ playback_gen' = [playback_gen EXCEPT !.pc = "close"]
             \/ playback_gen' = [playback_gen EXCEPT !.pc = "close", !.failed = TRUE]
          /\ playback_queue' = playback_queue /\ playback_free' = playback_free
      BY <1>3, Zenon DEF Pl!Stopped, Pl!NotGivenBack, Pl!Goto, Pl!Fail
    <2>2. playback_gen'.pc = "close"
      BY <1>0, <2>1 DEF Generator
    <2>3. QED
      BY <1>0, <1>1, <2>1, <2>2 DEF RotationOK
  <1>4. CASE Pl!Fill
    <2>1. /\ playback_gen.pc = "loop" /\ playback_gen' = [playback_gen EXCEPT !.pc = "write", !.at = 0, !.left = Recoveries]
          /\ playback_queue' = playback_queue /\ playback_free' = playback_free
      BY <1>4, Zenon DEF Pl!Fill
    <2>2. playback_gen'.pc = "write" /\ playback_gen'.next = playback_gen.next
      BY <1>0, <2>1 DEF Generator
    <2>3. InTurnNow' = InTurnNow
      BY <2>1, <2>2 DEF InTurnNow
    <2>4. QED
      BY <1>0, <1>1, <2>1, <2>2, <2>3 DEF RotationOK
  <1>5. CASE Pl!Turn
    <2>1. /\ playback_gen.pc = "write"
          /\ playback_gen' = [playback_gen EXCEPT !.pc = "wait", !.slot = playback_gen.next,
                                                  !.next = (playback_gen.next + 1) % Buffers]
          /\ playback_queue' = playback_queue /\ playback_free' = playback_free
      BY <1>5, Zenon DEF Pl!Turn
    <2>2. playback_gen'.pc = "wait" /\ playback_gen'.slot = playback_gen.next
      BY <1>0, <2>1 DEF Generator
    <2>3. InTurnNow' = InTurnNow
      BY <2>1, <2>2 DEF InTurnNow
    <2>4. QED
      BY <1>0, <1>1, <2>1, <2>2, <2>3 DEF RotationOK
  <1>6. CASE Pl!WaitForABuffer
    <2>1. /\ playback_gen.pc = "wait" /\ playback_free > 0 /\ playback_free' = playback_free - 1
          /\ playback_gen' = [playback_gen EXCEPT !.pc = "handOver"] /\ playback_queue' = playback_queue
      BY <1>6, Zenon DEF Pl!WaitForABuffer, Pl!Goto
    <2>2. playback_gen'.pc = "handOver" /\ playback_gen'.slot = playback_gen.slot
      BY <1>0, <2>1 DEF Generator
    <2>3. InTurnNow' = InTurnNow
      BY <2>1, <2>2 DEF InTurnNow
    <2>4. QED
      BY <1>0, <1>1, <2>1, <2>2, <2>3 DEF RotationOK
  <1>7. CASE Pl!HandOver
    <2>1. /\ playback_gen.pc = "handOver" /\ playback_free' = playback_free
          /\ \/ /\ playback_queue' = Append(playback_queue, playback_gen.slot)
                /\ playback_gen' = [playback_gen EXCEPT !.pc = "loop", !.chunk = playback_gen.chunk + 1]
             \/ /\ playback_queue' = playback_queue
                /\ playback_gen' = [playback_gen EXCEPT !.pc = "close", !.failed = TRUE]
      BY <1>7, Zenon DEF Pl!HandOver, Pl!Wrote, Pl!Fail
    <2>2. CASE playback_queue' = playback_queue /\ playback_gen' = [playback_gen EXCEPT !.pc = "close", !.failed = TRUE]
      <3>1. playback_gen'.pc = "close"
        BY <1>0, <2>2 DEF Generator
      <3>2. QED
        BY <1>0, <1>1, <2>1, <2>2, <3>1 DEF RotationOK
    <2>3. CASE /\ playback_queue' = Append(playback_queue, playback_gen.slot)
               /\ playback_gen' = [playback_gen EXCEPT !.pc = "loop", !.chunk = playback_gen.chunk + 1]
      <3>1. playback_gen'.pc = "loop" /\ playback_gen'.next = playback_gen.next
        BY <1>0, <2>3 DEF Generator
      <3>2. /\ Len(playback_queue') = n + 1 /\ playback_queue'[n + 1] = playback_gen.slot
            /\ \A i \in 1 .. n : playback_queue'[i] = playback_queue[i]
        BY <1>0, <2>3, PlayConstants
      <3>3. InTurnNow' = (playback_gen.slot + 1) % Buffers /\ InTurnNow = playback_gen.slot
        BY <2>1, <3>1 DEF InTurnNow, WritingOK
      <3>4. n + playback_free + 1 <= Buffers
        BY <1>1, <2>1
      <3>5. ASSUME NEW i \in 1 .. n + 1
            PROVE  playback_queue'[i] = Back(InTurnNow', n + 2 - i)
        <4>1. CASE i = n + 1
          <5>1. Back((playback_gen.slot + 1) % Buffers, 1) = playback_gen.slot
            <6>1. CASE Buffers = 1
              <7>1. playback_gen.slot = 0 /\ playback_gen.slot + 1 = Buffers
                BY <1>0, <6>1, PlayConstants
              <7>2. (playback_gen.slot + 1) % Buffers = 0
                BY <1>0, <7>1, Successor
              <7>3. QED
                BY <6>1, <7>1, <7>2 DEF Back
            <6>2. CASE Buffers # 1
              <7>1. 1 \in 1 .. Buffers - 1
                BY <1>0, <6>2
              <7>2. QED
                BY <1>0, <7>1, Rotates
            <6>3. QED
              BY <6>1, <6>2
          <5>2. n + 2 - i = 1
            BY <1>0, <4>1
          <5>3. QED
            BY <3>2, <3>3, <4>1, <5>1, <5>2
        <4>2. CASE i # n + 1
          <5>1. i \in 1 .. n /\ n + 1 - i \in 1 .. Buffers - 1 /\ n + 2 - i = (n + 1 - i) + 1
            BY <1>0, <3>4, <4>2
          <5>2. playback_queue[i] = Back(playback_gen.slot, n + 1 - i)
            BY <1>1, <2>1, <3>3, <5>1
          <5>3. Back((playback_gen.slot + 1) % Buffers, (n + 1 - i) + 1) = Back(playback_gen.slot, n + 1 - i)
            BY <1>0, <5>1, Rotates
          <5>4. QED
            BY <3>2, <3>3, <5>1, <5>2, <5>3
        <4>3. QED
          BY <4>1, <4>2
      <3>6. \A i \in 1 .. n + 1 : Len(playback_queue') + 1 - i = n + 2 - i
        BY <1>0, <3>2
      <3>7. \A i \in 1 .. Len(playback_queue') : playback_queue'[i] = Back(InTurnNow', Len(playback_queue') + 1 - i)
        BY <3>2, <3>5, <3>6
      <3>8. Len(playback_queue') + playback_free' + 0 <= Buffers
        BY <1>0, <2>1, <3>2, <3>4
      <3>9. QED
        BY <3>1, <3>7, <3>8 DEF RotationOK
    <2>4. QED
      BY <2>1, <2>2, <2>3, Zenon
  <1>8. CASE Pl!Close
    <2>1. playback_queue' = <<>> /\ playback_free' = playback_free /\ playback_gen' = [playback_gen EXCEPT !.pc = "over"]
      BY <1>8, Zenon DEF Pl!Close, Pl!Goto
    <2>2. playback_gen'.pc = "over" /\ Len(playback_queue') = 0
      BY <1>0, <2>1 DEF Generator
    <2>3. QED
      BY <1>0, <1>1, <2>1, <2>2 DEF RotationOK
  <1>9. CASE Pl!Stop
    <2>1. playback_queue' = playback_queue /\ playback_free' = playback_free /\ playback_gen' = playback_gen
      BY <1>9, Zenon DEF Pl!Stop
    <2>2. QED
      BY <2>1 DEF RotationOK, InTurnNow
  <1>10. CASE Pl!PlayBuffer
    <2>1. /\ playback_queue # <<>> /\ playback_queue' = Tail(playback_queue) /\ playback_gen' = playback_gen
          /\ playback_free' = playback_free + 1
      BY <1>10, Zenon DEF Pl!PlayBuffer
    <2>2. /\ n >= 1 /\ Len(playback_queue') = n - 1
          /\ \A i \in 1 .. n - 1 : playback_queue'[i] = playback_queue[i + 1]
      BY <1>0, <2>1
    <2>3. InTurnNow' = InTurnNow
      BY <2>1 DEF InTurnNow
    <2>4. ASSUME NEW i \in 1 .. n - 1, playback_gen.pc \in {"loop", "write", "wait", "handOver"}
          PROVE  playback_queue'[i] = Back(InTurnNow', Len(playback_queue') + 1 - i)
      <3>1. i \in Nat /\ i + 1 \in 1 .. n
        BY <1>0
      <3>2. n + 1 - (i + 1) = (n - 1) + 1 - i
        BY <1>0, <3>1
      <3>3. playback_queue[i + 1] = Back(InTurnNow, n + 1 - (i + 1))
        BY <1>1, <2>4, <3>1
      <3>4. playback_queue'[i] = playback_queue[i + 1]
        BY <2>2
      <3>5. Len(playback_queue') + 1 - i = n + 1 - (i + 1)
        BY <2>2, <3>2
      <3>6. QED
        BY <2>3, <3>3, <3>4, <3>5
    <2>5. playback_gen.pc # "open"
      BY <1>0, <1>1, <2>2
    <2>6. Len(playback_queue') + playback_free' = n + playback_free
      BY <1>0, <2>1, <2>2
    <2>7. QED
      BY <1>0, <1>1, <2>1, <2>2, <2>4, <2>5, <2>6 DEF RotationOK
  <1>11. ~Pl!Writei /\ ~Pl!WriteiDone /\ ~Pl!Reclaim /\ ~Pl!PlayFrame /\ ~Pl!LoseQueue
    BY DEF Pl!Writei, Pl!WriteiDone, Pl!Reclaim, Pl!PlayFrame, Pl!LoseQueue
  <1>12. QED
    BY <1>2, <1>3, <1>4, <1>5, <1>6, <1>7, <1>8, <1>9, <1>10, <1>11, Zenon DEF Pl!Next, Pl!Generator

\* The inductive invariant of what is played.
THEOREM PlayInvariant == Pl!Spec => []PlayInv
  <1>1. PlayInv /\ [Pl!Next]_Pl!vars => PlayInv'
    <2>1. SUFFICES ASSUME PlayInv, [Pl!Next]_Pl!vars PROVE PlayInv'
      OBVIOUS
    <2>2. CASE Pl!Next
      <3>1. PlayTyped' /\ WritingOK'
        BY <2>1, <2>2, DeviceStep, GeneratorStep, Zenon DEF PlayInv
      <3>2. playback_os' = playback_os
        BY <2>2, SameMachine, Zenon
      <3>3. FramesOK'
        <4>1. CASE playback_os = "alsa"
          BY <2>1, <2>2, <4>1, FramesStep, Zenon DEF PlayInv
        <4>2. CASE playback_os # "alsa"
          BY <3>2, <4>2, Zenon DEF FramesOK
        <4>3. QED
          BY <4>1, <4>2
      <3>4. BuffersOK'
        <4>1. CASE playback_os # "alsa"
          BY <2>1, <2>2, <4>1, BuffersStep, Zenon DEF PlayInv
        <4>2. CASE playback_os = "alsa"
          BY <3>2, <4>2, Zenon DEF BuffersOK
        <4>3. QED
          BY <4>1, <4>2
      <3>5. FlagsOK'
        <4>1. CASE playback_os = "waveOut"
          BY <2>1, <2>2, <4>1, FlagsStep, Zenon DEF PlayInv
        <4>2. CASE playback_os # "waveOut"
          BY <3>2, <4>2, Zenon DEF FlagsOK
        <4>3. QED
          BY <4>1, <4>2
      <3>6. RotationOK'
        <4>1. CASE playback_os = "audioQueue"
          BY <2>1, <2>2, <4>1, RotationStep, Zenon DEF PlayInv
        <4>2. CASE playback_os # "audioQueue"
          BY <3>2, <4>2, Zenon DEF RotationOK
        <4>3. QED
          BY <4>1, <4>2
      <3>7. QED
        BY <3>1, <3>3, <3>4, <3>5, <3>6, Zenon DEF PlayInv
    <2>3. CASE UNCHANGED Pl!vars
      BY <2>1, <2>3 DEF PlayInv, PlayTyped, WritingOK, FramesOK, BuffersOK, FlagsOK, RotationOK, Generated,
                        Written, InTurnNow, Pl!vars
    <2>4. QED
      BY <2>1, <2>2, <2>3
  <1>2. QED
    BY <1>1, PlayInit, PTL DEF Pl!Spec

\* Nothing is heard twice or out of its order, on any of the three systems, for any
\* number and size of buffers.
THEOREM SoundIsHeardInOrder == Pl!Spec => Pl!HeardInOrder
  <1>1. PlayInv /\ [Pl!Next]_Pl!vars => (playback_heard' # playback_heard => playback_heard' > playback_heard)
    <2>1. SUFFICES ASSUME PlayInv, Pl!Next, playback_heard' # playback_heard
                   PROVE  playback_heard' > playback_heard
      BY Zenon DEF Pl!vars
    <2>2. PlayTyped /\ FramesOK /\ BuffersOK
      BY <2>1, Zenon DEF PlayInv
    <2>3. playback_queue \in Seq(Nat) /\ playback_heard \in Nat
      BY <2>2, Zenon DEF PlayTyped
    <2>4. CASE Pl!PlayFrame
      <3>1. playback_os = "alsa" /\ playback_queue # <<>> /\ playback_heard' = Head(playback_queue)
        BY <2>4, Zenon DEF Pl!PlayFrame
      <3>2. 1 \in 1 .. Len(playback_queue) /\ playback_heard' = playback_queue[1] /\ playback_queue[1] \in Nat
        BY <2>3, <3>1
      <3>3. playback_heard < playback_queue[1]
        BY <2>2, <3>1, <3>2 DEF FramesOK
      <3>4. QED
        BY <2>3, <3>2, <3>3
    <2>5. CASE Pl!PlayBuffer
      <3>1. /\ playback_os # "alsa" /\ playback_queue # <<>>
            /\ playback_heard' = playback_content[Head(playback_queue)] + Frames - 1
        BY <2>5, Zenon DEF Pl!PlayBuffer
      <3>2. 1 \in 1 .. Len(playback_queue) /\ Head(playback_queue) = playback_queue[1]
        BY <2>3, <3>1
      <3>3. playback_queue[1] \in Pl!Slots /\ playback_heard < playback_content[playback_queue[1]]
        BY <2>2, <3>1, <3>2 DEF BuffersOK
      <3>4. playback_content[playback_queue[1]] \in Nat
        BY <2>2, <3>3 DEF PlayTyped
      <3>5. QED
        BY <2>3, <3>1, <3>2, <3>3, <3>4, PlayConstants
    <2>6. QED
      BY <2>1, <2>4, <2>5, Zenon
      DEF Pl!Next, Pl!Generator, Pl!Open, Pl!Stopped, Pl!Fill, Pl!Writei, Pl!WriteiDone, Pl!Turn, Pl!Reclaim,
          Pl!WaitForABuffer, Pl!NotGivenBack, Pl!HandOver, Pl!Close, Pl!Stop, Pl!LoseQueue
  <1>2. QED
    BY <1>1, PlayInvariant, PTL DEF Pl!Spec, Pl!HeardInOrder

-----------------------------------------------------------------------------
(***************************************************************************)
(* Lid: the notifications that wait are the lid's movements in turn, so    *)
(* what they will still say can be counted.  Whoever takes them one after  *)
(* another, beginning from the position known last, raises an alarm for    *)
(* every step down: twice that number is the number of steps, plus one if  *)
(* the lid was open to begin with, less one if it is open in the end.      *)
(***************************************************************************)
LidTyped ==
  /\ Li!TypeOK
  /\ lid_open \in BOOLEAN /\ lid_reading \in BOOLEAN /\ lid_last \in BOOLEAN
  /\ lid_lost \in BOOLEAN /\ lid_events \in Seq(BOOLEAN)
  /\ lid_closings \in Nat /\ lid_alarms \in Nat

Listening == {"baseline", "watch", "read"}

SubscribedOK ==
  /\ lid_pc \in Listening => lid_subscribed = TRUE
  /\ lid_pc \notin Listening => lid_subscribed = FALSE

\* Before the watch there is nothing to count.
BeforeOK ==
  /\ lid_pc \in {"subscribe", "baseline"} => lid_closings = 0 /\ lid_alarms = 0
  /\ lid_pc = "subscribe" => lid_events = <<>>

Open(b) == IF b THEN 1 ELSE 0

\* One after another, and the last of them is where the lid is.
InTurn ==
  /\ \A i \in 1 .. Len(lid_events) - 1 : Open(lid_events[i]) + Open(lid_events[i + 1]) = 1
  /\ lid_events # <<>> => Open(lid_events[Len(lid_events)]) = Open(lid_open)

\* When none waits, the loop knows the lid, and so does a reading under way.
Known ==
  lid_events = <<>> =>
    /\ lid_pc \in {"watch", "read"} => Open(lid_last) = Open(lid_open)
    /\ lid_pc = "read" => Open(lid_reading) = Open(lid_open)

\* Twice the alarms that those that wait will raise.
Owed ==
  (IF lid_events # <<>> /\ Open(lid_events[1]) = Open(lid_last)
   THEN Len(lid_events) - 1 ELSE Len(lid_events))
    + Open(lid_last) - Open(lid_open)

Accounted ==
  lid_pc \in {"watch", "read"} => 2 * lid_alarms + Owed >= 2 * lid_closings

LidInv ==
  /\ LidTyped /\ SubscribedOK /\ BeforeOK
  /\ lid_subscribed /\ ~lid_lost => InTurn /\ Known /\ Accounted

LEMMA OpenIs == Open(TRUE) = 1 /\ Open(FALSE) = 0 /\ \A b : Open(b) \in {0, 1}
  BY Zenon DEF Open

LEMMA LidInit ==
  ASSUME Li!Init PROVE LidInv
  <1>1. Room \in Nat /\ MaxMoves \in Nat
    BY LoopsConstants DEF Li!ConstantsOK
  <1>2. Li!TypeOK
    BY <1>1 DEF Li!Init, Li!TypeOK
  <1>3. lid_open \in BOOLEAN /\ lid_reading \in BOOLEAN /\ lid_last \in BOOLEAN /\ lid_lost \in BOOLEAN
    BY Zenon DEF Li!Init
  <1>4. lid_events \in Seq(BOOLEAN) /\ lid_closings \in Nat /\ lid_alarms \in Nat
    BY DEF Li!Init
  <1>5. SubscribedOK /\ BeforeOK /\ ~lid_subscribed
    <2>1. lid_subscribed = FALSE /\ lid_pc = "subscribe" /\ lid_events = <<>> /\ lid_closings = 0 /\ lid_alarms = 0
      BY DEF Li!Init
    <2>2. lid_pc \notin Listening
      BY <2>1 DEF Listening
    <2>3. SubscribedOK
      BY <2>1, <2>2, Zenon DEF SubscribedOK
    <2>4. BeforeOK
      BY <2>1 DEF BeforeOK
    <2>5. QED
      BY <2>1, <2>3, <2>4, Zenon
  <1>6. QED
    BY <1>2, <1>3, <1>4, <1>5, Zenon DEF LidInv, LidTyped

LEMMA LidTypedStep ==
  ASSUME LidInv, Li!Next
  PROVE  LidTyped' /\ SubscribedOK' /\ BeforeOK'
  <1>0. /\ Room \in Nat /\ MaxMoves \in Nat
        /\ lid_events \in Seq(BOOLEAN) /\ Len(lid_events) \in Nat
        /\ lid_closings \in Nat /\ lid_alarms \in Nat
    BY LoopsConstants DEF Li!ConstantsOK, LidInv, LidTyped
  <1>1. lid_open' \in BOOLEAN /\ lid_reading' \in BOOLEAN /\ lid_last' \in BOOLEAN /\ lid_lost' \in BOOLEAN
    <2>1. lid_events # <<>> => Head(lid_events) \in BOOLEAN
      BY <1>0
    <2>2. /\ lid_open \in BOOLEAN /\ lid_reading \in BOOLEAN /\ lid_last \in BOOLEAN /\ lid_lost \in BOOLEAN
          /\ (~lid_open) \in BOOLEAN
      BY Zenon DEF LidInv, LidTyped
    <2>3. lid_open' = lid_open \/ lid_open' = ~lid_open
      BY Zenon DEF Li!Next, Li!Move, Li!Subscribe, Li!Baseline, Li!TakeEvent, Li!Tick, Li!ReadAnswers,
                   Li!ReadFails, Li!Cancel
    <2>4. lid_reading' = lid_reading \/ lid_reading' = lid_open
      BY Zenon DEF Li!Next, Li!Move, Li!Subscribe, Li!Baseline, Li!TakeEvent, Li!Tick, Li!ReadAnswers,
                   Li!ReadFails, Li!Cancel
    <2>5. \/ lid_last' \in {lid_last, lid_open, lid_reading}
          \/ lid_events # <<>> /\ lid_last' = Head(lid_events)
      BY Zenon DEF Li!Next, Li!Move, Li!Subscribe, Li!Baseline, Li!TakeEvent, Li!Tick, Li!ReadAnswers,
                   Li!ReadFails, Li!Cancel, Li!Report
    <2>6. lid_lost' = lid_lost \/ lid_lost' = TRUE
      BY Zenon DEF Li!Next, Li!Move, Li!Subscribe, Li!Baseline, Li!TakeEvent, Li!Tick, Li!ReadAnswers,
                   Li!ReadFails, Li!Cancel, Li!Deliver
    <2>7. QED
      BY <2>1, <2>2, <2>3, <2>4, <2>5, <2>6, Zenon
  <1>2. CASE Li!Move
    <2>1. /\ lid_events' = lid_events \/ /\ Len(lid_events) < Room
                                         /\ lid_events' = Append(lid_events, ~lid_open)
          /\ lid_moves < MaxMoves /\ lid_moves' = lid_moves + 1
          /\ lid_pc' = lid_pc /\ lid_subscribed' = lid_subscribed /\ lid_alarms' = lid_alarms
      BY <1>2, Zenon DEF Li!Move, Li!Deliver
    <2>2. \A b \in BOOLEAN : /\ Append(lid_events, b) \in Seq(BOOLEAN)
                             /\ Len(Append(lid_events, b)) = Len(lid_events) + 1
      BY <1>0
    <2>3. (~lid_open) \in BOOLEAN
      BY Zenon
    <2>4. lid_events' \in Seq(BOOLEAN) /\ Len(lid_events') <= Room
      <3>1. CASE lid_events' = lid_events
        BY <1>0, <3>1 DEF LidInv, LidTyped, Li!TypeOK
      <3>2. CASE Len(lid_events) < Room /\ lid_events' = Append(lid_events, ~lid_open)
        <4>1. /\ lid_events' \in Seq(BOOLEAN)
              /\ Len(lid_events') = Len(lid_events) + 1
          BY <2>2, <2>3, <3>2, Zenon
        <4>2. QED
          BY <1>0, <4>1, <3>2
      <3>3. QED
        BY <2>1, <3>1, <3>2, Zenon
    <2>5. lid_moves' \in 0 .. MaxMoves
      BY <1>0, <2>1 DEF LidInv, LidTyped, Li!TypeOK
    <2>6. \/ lid_closings' = lid_closings
          \/ lid_pc \in {"watch", "read"} /\ lid_closings' = lid_closings + 1
      BY <1>2, Zenon DEF Li!Move
    <2>7. lid_closings' \in Nat
      BY <1>0, <2>6
    <2>8. BeforeOK'
      <3>1. lid_pc = "subscribe" => lid_events' = lid_events
        BY <1>2, Zenon DEF Li!Move, LidInv, SubscribedOK, Listening
      <3>2. QED
        BY <2>1, <2>6, <3>1 DEF LidInv, BeforeOK
    <2>9. SubscribedOK'
      BY <2>1, Zenon DEF LidInv, SubscribedOK
    <2>10. lid_pc' \in {"subscribe", "baseline", "watch", "read", "over"}
      BY <2>1 DEF LidInv, LidTyped, Li!TypeOK
    <2>11. QED
      BY <1>0, <1>1, <2>1, <2>4, <2>5, <2>7, <2>8, <2>9, <2>10, Zenon DEF LidTyped, Li!TypeOK
  <1>3. CASE Li!Subscribe \/ Li!Baseline \/ Li!TakeEvent \/ Li!Tick \/ Li!ReadAnswers \/ Li!ReadFails \/ Li!Cancel
    <2>1. lid_moves' = lid_moves /\ lid_closings' = lid_closings
      BY <1>3, Zenon DEF Li!Subscribe, Li!Baseline, Li!TakeEvent, Li!Tick, Li!ReadAnswers, Li!ReadFails, Li!Cancel
    <2>2. \/ lid_events' = lid_events
          \/ lid_pc = "watch" /\ lid_events # <<>> /\ lid_events' = Tail(lid_events)
      BY <1>3, Zenon DEF Li!Subscribe, Li!Baseline, Li!TakeEvent, Li!Tick, Li!ReadAnswers, Li!ReadFails, Li!Cancel
    <2>3. lid_events' \in Seq(BOOLEAN) /\ Len(lid_events') <= Room
      BY <1>0, <2>2 DEF LidInv, LidTyped, Li!TypeOK
    <2>4. \/ lid_alarms' = lid_alarms
          \/ lid_pc \in {"watch", "read"} /\ lid_alarms' = lid_alarms + 1
      BY <1>3, Zenon DEF Li!Subscribe, Li!Baseline, Li!TakeEvent, Li!Tick, Li!ReadAnswers, Li!ReadFails, Li!Cancel, Li!Report
    <2>5. lid_alarms' \in Nat
      BY <1>0, <2>4
    <2>6. /\ lid_pc' \in {"baseline", "watch", "read", "over"}
          /\ lid_pc \in {"watch", "read"} => lid_pc' \notin {"subscribe", "baseline"}
      BY <1>3
      DEF Li!Subscribe, Li!Baseline, Li!TakeEvent, Li!Tick, Li!ReadAnswers, Li!ReadFails, Li!Cancel
    <2>7. lid_pc' = "baseline" => lid_pc \in {"subscribe", "baseline"}
      BY <1>3
      DEF Li!Subscribe, Li!Baseline, Li!TakeEvent, Li!Tick, Li!ReadAnswers, Li!ReadFails, Li!Cancel
    <2>8. BeforeOK'
      BY <2>1, <2>4, <2>6, <2>7 DEF LidInv, BeforeOK
    <2>9. SubscribedOK'
      <3>1. CASE Li!Subscribe \/ Li!Baseline
        BY <1>3, <3>1, Zenon DEF Li!Subscribe, Li!Baseline, Listening, LidInv, SubscribedOK
      <3>2. CASE Li!Cancel
        BY <3>2, Zenon DEF Li!Cancel, Listening, SubscribedOK
      <3>3. CASE Li!TakeEvent \/ Li!Tick \/ Li!ReadAnswers \/ Li!ReadFails
        <4>1. lid_pc \in Listening /\ lid_pc' \in Listening
          BY <3>3 DEF Li!TakeEvent, Li!Tick, Li!ReadAnswers, Li!ReadFails, Listening
        <4>2. lid_subscribed' = lid_subscribed
          BY <3>3, Zenon DEF Li!TakeEvent, Li!Tick, Li!ReadAnswers, Li!ReadFails
        <4>3. QED
          BY <4>1, <4>2, Zenon DEF LidInv, SubscribedOK
      <3>4. QED
        BY <1>3, <3>1, <3>2, <3>3, Zenon
    <2>10. Li!TypeOK'
      BY <2>1, <2>3, <2>6 DEF LidInv, LidTyped, Li!TypeOK
    <2>11. QED
      BY <1>0, <1>1, <2>1, <2>3, <2>5, <2>8, <2>9, <2>10, Zenon DEF LidTyped
  <1>4. QED
    BY <1>2, <1>3 DEF Li!Next

LEMMA LidCountStep ==
  ASSUME LidInv, Li!Next, lid_subscribed', ~lid_lost'
  PROVE  InTurn' /\ Known' /\ Accounted'
  <1> DEFINE n == Len(lid_events)
  <1>0. /\ n \in Nat /\ lid_events \in Seq(BOOLEAN) /\ (lid_events = <<>> <=> n = 0)
        /\ lid_closings \in Nat /\ lid_alarms \in Nat
    BY DEF LidInv, LidTyped
  <1>01. \A b : Open(b) \in {0, 1}
    BY OpenIs
  <1>1. CASE Li!Move
    <2>1. /\ lid_subscribed /\ ~lid_lost
          /\ lid_events' = Append(lid_events, ~lid_open) /\ lid_open' = ~lid_open
          /\ lid_pc' = lid_pc /\ lid_last' = lid_last /\ lid_alarms' = lid_alarms
          /\ lid_closings' = IF lid_open /\ lid_pc \in {"watch", "read"} THEN lid_closings + 1 ELSE lid_closings
      BY <1>1, Zenon DEF Li!Move, Li!Deliver
    <2>2. InTurn /\ Known /\ Accounted
      BY <2>1, Zenon DEF LidInv
    <2>3. /\ Open(lid_open') = 1 - Open(lid_open)
          /\ \/ lid_closings' = lid_closings
             \/ Open(lid_open) = 1 /\ lid_closings' = lid_closings + 1
      <3>1. lid_open \in BOOLEAN
        BY Zenon DEF LidInv, LidTyped
      <3>2. CASE lid_open = TRUE
        <4>1. /\ lid_open' = FALSE
              /\ lid_closings' = lid_closings \/ lid_closings' = lid_closings + 1
          BY <2>1, <3>2, Zenon
        <4>2. Open(lid_open) = 1 /\ Open(lid_open') = 0
          BY <3>2, <4>1, OpenIs, Zenon
        <4>3. QED
          BY <4>1, <4>2
      <3>3. CASE lid_open = FALSE
        <4>1. lid_open' = TRUE /\ lid_closings' = lid_closings
          BY <2>1, <3>3, Zenon
        <4>2. Open(lid_open) = 0 /\ Open(lid_open') = 1
          BY <3>3, <4>1, OpenIs, Zenon
        <4>3. QED
          BY <4>1, <4>2
      <3>4. QED
        BY <3>1, <3>2, <3>3, Zenon
    <2>4. /\ Len(lid_events') = n + 1 /\ lid_events'[n + 1] = lid_open'
          /\ \A i \in 1 .. n : lid_events'[i] = lid_events[i]
          /\ lid_events' # <<>>
      BY <1>0, <2>1
    <2>5. InTurn'
      BY <1>0, <1>01, <2>2, <2>3, <2>4 DEF InTurn
    <2>6. Known'
      BY <2>4, Zenon DEF Known
    <2>7. Accounted'
      <3>1. SUFFICES ASSUME lid_pc \in {"watch", "read"} PROVE 2 * lid_alarms' + Owed' >= 2 * lid_closings'
        BY <2>1, Zenon DEF Accounted
      <3>2. Owed' = Owed + 1 + Open(lid_open) - Open(lid_open')
        <4>1. CASE n = 0
          <5>1. Open(lid_last) = Open(lid_open) /\ Owed = 0
            BY <1>0, <1>01, <2>2, <3>1, <4>1 DEF Known, Owed
          <5>2. Open(lid_events'[1]) # Open(lid_last')
            BY <1>01, <2>1, <2>3, <2>4, <4>1, <5>1
          <5>3. QED
            BY <1>0, <1>01, <2>1, <2>3, <2>4, <4>1, <5>1, <5>2 DEF Owed
        <4>2. CASE n # 0
          <5>1. lid_events'[1] = lid_events[1]
            BY <1>0, <2>4, <4>2
          <5>2. QED
            BY <1>0, <1>01, <2>1, <2>4, <4>2, <5>1, SMTT(40) DEF Owed
        <4>3. QED
          BY <4>1, <4>2
      <3>3. 2 * lid_alarms + Owed >= 2 * lid_closings /\ Owed \in Int
        BY <1>0, <1>01, <2>2, <3>1 DEF Accounted, Owed
      <3>4. QED
        BY <1>0, <1>01, <2>1, <2>3, <3>2, <3>3
    <2>8. QED
      BY <2>5, <2>6, <2>7
  <1>2. CASE Li!Subscribe
    <2>1. lid_events' = <<>> /\ lid_pc' = "baseline"
      <3>1. BeforeOK
        BY Zenon DEF LidInv
      <3>2. lid_pc = "subscribe" /\ lid_pc' \in {"baseline", "over"} /\ lid_events' = lid_events
            /\ (lid_pc' = "over" => lid_subscribed' = lid_subscribed)
        BY <1>2, Zenon DEF Li!Subscribe
      <3>3. lid_pc' = "over" => ~lid_subscribed'
        BY <3>2, Zenon DEF LidInv, SubscribedOK, Listening
      <3>4. QED
        BY <3>1, <3>2, <3>3 DEF BeforeOK
    <2>2. QED
      BY <2>1 DEF InTurn, Known, Accounted
  <1>3. CASE Li!Baseline
    <2>1. /\ lid_subscribed /\ ~lid_lost /\ lid_pc' = "watch" /\ lid_last' = lid_open /\ lid_events' = lid_events
          /\ lid_open' = lid_open /\ lid_alarms' = lid_alarms /\ lid_closings' = lid_closings /\ lid_pc = "baseline"
      <3>1. lid_pc = "baseline" /\ lid_subscribed
        BY <1>3 DEF Li!Baseline, LidInv, SubscribedOK, Listening
      <3>2. QED
        BY <1>3, <3>1, Zenon DEF Li!Baseline
    <2>2. InTurn' /\ Known'
      BY <2>1 DEF LidInv, InTurn, Known
    <2>21. lid_alarms' = 0 /\ lid_closings' = 0
      BY <2>1 DEF LidInv, BeforeOK
    <2>3. Owed' >= 0
      BY <1>0, <1>01, <2>1 DEF Owed
    <2>4. Owed' \in Int
      BY <1>0, <1>01, <2>1 DEF Owed
    <2>5. Accounted'
      <3>1. 2 * lid_alarms' + Owed' >= 2 * lid_closings'
        <4>1. lid_alarms' \in Int /\ lid_closings' \in Int
          BY <2>21
        <4>2. 2 * lid_alarms' = 0 /\ 2 * lid_closings' = 0
          BY <2>21
        <4>3. QED
          BY <2>3, <2>4, <4>2
      <3>2. QED
        BY <3>1 DEF Accounted
    <2>6. QED
      BY <2>2, <2>5
  <1>4. CASE Li!TakeEvent
    <2>1. /\ lid_subscribed /\ ~lid_lost /\ lid_pc = "watch" /\ lid_pc' = "watch" /\ lid_events # <<>>
          /\ lid_events' = Tail(lid_events) /\ lid_last' = Head(lid_events) /\ lid_open' = lid_open
          /\ lid_closings' = lid_closings
          /\ lid_alarms' = IF lid_last /\ ~Head(lid_events) THEN lid_alarms + 1 ELSE lid_alarms
      BY <1>4, Zenon DEF Li!TakeEvent, Li!Report
    <2>2. InTurn /\ Accounted
      BY <2>1, Zenon DEF LidInv
    <2>21. /\ lid_events # <<>> /\ lid_events' = Tail(lid_events) /\ lid_last' = Head(lid_events)
           /\ lid_open' = lid_open /\ lid_pc = "watch" /\ lid_pc' = "watch" /\ lid_closings' = lid_closings
      BY <2>1, Zenon
    <2>3. /\ n > 0 /\ Len(lid_events') = n - 1 /\ lid_last' = lid_events[1]
          /\ \A i \in 1 .. n - 1 : lid_events'[i] = lid_events[i + 1]
          /\ lid_events' = <<>> <=> n = 1
      <3>1. n > 0 /\ lid_last' = lid_events[1]
        BY <1>0, <2>21
      <3>2. lid_events' \in Seq(BOOLEAN)
        BY <1>0, <2>21
      <3>21. Len(lid_events') = n - 1
        BY <1>0, <2>21, <3>1
      <3>3. \A i \in 1 .. n - 1 : lid_events'[i] = lid_events[i + 1]
        BY <1>0, <2>21
      <3>4. lid_events' = <<>> <=> n = 1
        BY <1>0, <3>1, <3>2, <3>21
      <3>5. QED
        BY <3>1, <3>21, <3>3, <3>4
    <2>4. InTurn'
      BY <1>0, <1>01, <2>21, <2>2, <2>3 DEF InTurn
    <2>5. Known'
      BY <1>0, <1>01, <2>21, <2>2, <2>3 DEF InTurn, Known
    <2>6. Owed' = n - 1 + Open(lid_events[1]) - Open(lid_open)
      <3>1. n > 1 => Open(lid_events'[1]) # Open(lid_last')
        BY <1>0, <1>01, <2>21, <2>2, <2>3 DEF InTurn
      <3>2. QED
        BY <1>0, <1>01, <2>21, <2>3, <3>1 DEF Owed
    <2>7. Owed = (IF Open(lid_events[1]) = Open(lid_last) THEN n - 1 ELSE n) + Open(lid_last) - Open(lid_open)
      BY <2>1 DEF Owed
    <2>8. lid_alarms' = IF Open(lid_last) = 1 /\ Open(lid_events[1]) = 0 THEN lid_alarms + 1 ELSE lid_alarms
      <3>1. lid_last \in BOOLEAN /\ Head(lid_events) \in BOOLEAN /\ Head(lid_events) = lid_events[1]
        BY <1>0, <2>21 DEF LidInv, LidTyped
      <3>2. CASE lid_last = TRUE /\ Head(lid_events) = FALSE
        <4>1. lid_alarms' = lid_alarms + 1
          BY <2>1, <3>2, Zenon
        <4>2. QED
          BY <3>1, <3>2, <4>1, OpenIs
      <3>3. CASE lid_last = FALSE \/ Head(lid_events) = TRUE
        <4>1. lid_alarms' = lid_alarms
          BY <2>1, <3>3, Zenon
        <4>2. Open(lid_last) = 0 \/ Open(lid_events[1]) = 1
          BY <3>1, <3>3, OpenIs, Zenon
        <4>3. QED
          BY <4>1, <4>2
      <3>4. QED
        BY <3>1, <3>2, <3>3, Zenon
    <2>9. 2 * lid_alarms + Owed >= 2 * lid_closings
      BY <2>21, <2>2 DEF Accounted
    <2>10. 2 * lid_alarms' + Owed' >= 2 * lid_closings'
      BY <1>0, <1>01, <2>21, <2>6, <2>7, <2>8, <2>9
    <2>11. QED
      BY <2>4, <2>5, <2>10 DEF Accounted
  <1>5. CASE Li!Tick
    BY <1>5 DEF Li!Tick, LidInv, InTurn, Known, Accounted, Owed
  <1>51. CASE Li!ReadFails
    BY <1>51 DEF Li!ReadFails, LidInv, InTurn, Known, Accounted, Owed
  <1>6. CASE Li!ReadAnswers
    <2>1. /\ lid_subscribed /\ ~lid_lost /\ lid_pc = "read" /\ lid_pc' = "watch" /\ lid_events' = lid_events
          /\ lid_last' = lid_reading /\ lid_open' = lid_open /\ lid_closings' = lid_closings
          /\ lid_alarms' = IF lid_last /\ ~lid_reading THEN lid_alarms + 1 ELSE lid_alarms
      BY <1>6, Zenon DEF Li!ReadAnswers, Li!Report
    <2>11. /\ lid_pc = "read" /\ lid_pc' = "watch" /\ lid_events' = lid_events
           /\ lid_last' = lid_reading /\ lid_open' = lid_open /\ lid_closings' = lid_closings
      BY <2>1, Zenon
    <2>2. InTurn /\ Known /\ Accounted
      BY <2>1, Zenon DEF LidInv
    <2>3. InTurn' /\ Known'
      BY <2>11, <2>2 DEF InTurn, Known
    <2>4. lid_alarms' = IF Open(lid_last) = 1 /\ Open(lid_reading) = 0 THEN lid_alarms + 1 ELSE lid_alarms
      <3>1. lid_last \in BOOLEAN /\ lid_reading \in BOOLEAN
        BY Zenon DEF LidInv, LidTyped
      <3>2. CASE lid_last = TRUE /\ lid_reading = FALSE
        <4>1. lid_alarms' = lid_alarms + 1
          BY <2>1, <3>2, Zenon
        <4>2. QED
          BY <3>2, <4>1, OpenIs
      <3>3. CASE lid_last = FALSE \/ lid_reading = TRUE
        <4>1. lid_alarms' = lid_alarms
          BY <2>1, <3>3, Zenon
        <4>2. Open(lid_last) = 0 \/ Open(lid_reading) = 1
          BY <3>3, OpenIs, Zenon
        <4>3. QED
          BY <4>1, <4>2
      <3>4. QED
        BY <3>1, <3>2, <3>3, Zenon
    <2>5. 2 * lid_alarms + Owed >= 2 * lid_closings
      BY <2>11, <2>2 DEF Accounted
    <2>6. /\ Owed = (IF n # 0 /\ Open(lid_events[1]) = Open(lid_last) THEN n - 1 ELSE n) + Open(lid_last) - Open(lid_open)
          /\ Owed' = (IF n # 0 /\ Open(lid_events[1]) = Open(lid_reading) THEN n - 1 ELSE n)
                        + Open(lid_reading) - Open(lid_open)
          /\ n = 0 => Open(lid_last) = Open(lid_open) /\ Open(lid_reading) = Open(lid_open)
      BY <1>0, <2>11, <2>2 DEF Owed, Known
    <2>7. 2 * lid_alarms' + Owed' >= 2 * lid_closings'
      BY <1>0, <1>01, <2>11, <2>4, <2>5, <2>6, SMTT(40)
    <2>8. QED
      BY <2>3, <2>7 DEF Accounted
  <1>7. CASE Li!Cancel
    BY <1>7 DEF Li!Cancel
  <1>8. QED
    BY <1>1, <1>2, <1>3, <1>4, <1>5, <1>51, <1>6, <1>7, Zenon DEF Li!Next

\* The inductive invariant of the watch on the lid.
THEOREM LidInvariant == Li!Spec => []LidInv
  <1>1. LidInv /\ [Li!Next]_Li!vars => LidInv'
    <2>1. SUFFICES ASSUME LidInv, [Li!Next]_Li!vars PROVE LidInv'
      OBVIOUS
    <2>2. CASE Li!Next
      BY <2>1, <2>2, LidTypedStep, LidCountStep, Zenon DEF LidInv
    <2>3. CASE UNCHANGED Li!vars
      BY <2>1, <2>3 DEF LidInv, LidTyped, Li!TypeOK, SubscribedOK, BeforeOK, InTurn, Known, Accounted, Owed,
                        Li!vars
    <2>4. QED
      BY <2>1, <2>2, <2>3
  <1>2. QED
    BY <1>1, LidInit, PTL DEF Li!Spec

\* A lid that is closed and opened again between two readings is an alarm all the same.
THEOREM ClosingsAreHeard == Li!Spec => Li!EveryClosingIsHeard
  <1>1. LidInv' => (lid_pc' = "watch" /\ lid_events' = <<>> /\ ~lid_lost' => lid_alarms' >= lid_closings')
    <2>1. SUFFICES ASSUME LidInv', lid_pc' = "watch", lid_events' = <<>>, ~lid_lost'
                   PROVE  lid_alarms' >= lid_closings'
      OBVIOUS
    <2>2. lid_subscribed'
      BY <2>1 DEF LidInv, SubscribedOK, Listening
    <2>3. Known' /\ Accounted'
      BY <2>1, <2>2, Zenon DEF LidInv
    <2>31. lid_pc' = "watch"
      BY <2>1
    <2>4. Open(lid_last') = Open(lid_open') /\ Open(lid_last') \in {0, 1} /\ Len(lid_events') = 0
      BY <2>1, <2>3, OpenIs DEF Known
    <2>5. Owed' = 0
      BY <2>1, <2>4 DEF Owed
    <2>6. lid_alarms' \in Nat /\ lid_closings' \in Nat
      BY <2>1 DEF LidInv, LidTyped
    <2>7. 2 * lid_alarms' + Owed' >= 2 * lid_closings'
      BY <2>3, <2>31 DEF Accounted
    <2>8. QED
      <3>1. \A a, c \in Nat : 2 * a + 0 >= 2 * c => a >= c
        OBVIOUS
      <3>2. 2 * lid_alarms' + 0 >= 2 * lid_closings'
        BY <2>5, <2>7, Zenon
      <3>3. QED
        BY <2>6, <3>1, <3>2
  <1>2. QED
    BY <1>1, LidInvariant, PTL DEF Li!EveryClosingIsHeard

-----------------------------------------------------------------------------
(***************************************************************************)
(* Console: no digit of the PIN is where it may be seen.                   *)
(*                                                                         *)
(* A digit waits only while the prompt for the PIN is there, at the head of *)
(* the keystrokes that wait, and so it is the next that the prompt takes;  *)
(* and what the line, its draft and its history are made of is known by    *)
(* whether the line is masked, whatever is done to it.                     *)
(***************************************************************************)
Plain == Co!Chars \ {Co!Digit}

\* The lines that are made of some characters, whose history has no digit.
Lines(S) ==
  [buf : Seq(S), pos : Nat, history : Seq(Seq(Plain)), at : Nat, draft : Seq(S), masked : BOOLEAN]

Fits(l) == l.pos <= Len(l.buf) /\ l.at <= Len(l.history)

Pressed == {Co!ReadKey(k) : k \in Keystrokes}

ConsoleTyped ==
  /\ console_input \in Seq(Keystrokes) /\ Len(console_input) <= 1
  /\ console_pump \in {"reading", "over"}
  /\ console_keys \in [queue : Seq(Pressed), closed : BOOLEAN]
  /\ Len(console_keys.queue) <= Backlog
  /\ console_line \in Lines(Co!Chars) /\ Fits(console_line)
  /\ console_reader \in {"line", "secret", "running", "unmask", "gone", "over"}
  /\ console_row = [text |-> console_line.buf, masked |-> console_line.masked]
  /\ console_log \in Seq(Plain)

Masking == {"secret", "unmask", "gone"}

MaskedOK ==
  /\ console_reader \in Masking => console_line.masked = TRUE
  /\ console_reader \notin Masking => console_line.masked = FALSE

\* What may be read of the line has no digit in it.
OpenOK ==
  /\ console_reader \in {"line", "running", "unmask"} => console_line \in Lines(Plain)
  /\ console_reader \in {"gone", "over"} /\ console_pump = "reading" => console_line.buf \in Seq(Plain)

\* The keyboard is handed on until it is over, and a digit that waits is the prompt's.
WaitingOK ==
  /\ console_keys.closed = TRUE => console_pump = "over"
  /\ \A i \in DOMAIN console_keys.queue : console_keys.queue[i] = Co!Digit =>
       i = 1 /\ console_reader = "secret"
  /\ \A i \in DOMAIN console_input : console_input[i] = Co!Digit =>
       console_pump = "over" \/ (console_keys.queue = <<>> /\ console_reader = "secret")

ConsoleInv == ConsoleTyped /\ MaskedOK /\ OpenOK /\ WaitingOK

-----------------------------------------------------------------------------
(***************************************************************************)
(* What a line is after a keystroke.                                       *)
(***************************************************************************)
LEMMA Least == ASSUME NEW T, T \subseteq Nat, T # {} PROVE \E i \in T : \A j \in T : i <= j
  <1>1. PICK i \in T : \A j \in T : ~(<<j, i>> \in OpToRel(<, Nat))
    BY NatLessThanWellFounded, WFMin
  <1>2. ASSUME NEW j \in T, j < i PROVE FALSE
    <2>1. <<j, i>> \in OpToRel(<, Nat)
      BY <1>2 DEF OpToRel
    <2>2. QED
      BY <1>1, <2>1
  <1>3. QED
    BY <1>2

LEMMA Greatest ==
  ASSUME NEW n \in Nat, NEW T, T \subseteq 0 .. n, T # {}
  PROVE  \E i \in T : \A j \in T : i >= j
  <1>. DEFINE Rest == {n - j : j \in T}
  <1>1. Rest \subseteq Nat /\ Rest # {}
    <2>1. \A j \in T : n - j \in Nat
      OBVIOUS
    <2>2. QED
      BY <2>1
  <1>2. PICK d \in Rest : \A e \in Rest : d <= e
    <2>. HIDE DEF Rest
    <2>1. QED
      BY <1>1, Least
  <1>3. PICK i \in T : d = n - i
    BY <1>2
  <1>4. ASSUME NEW j \in T PROVE i >= j
    <2>1. n - i <= n - j /\ i \in 0 .. n /\ j \in 0 .. n
      BY <1>2, <1>3
    <2>2. QED
      BY <2>1
  <1>5. QED
    BY <1>4

\* A keystroke is a character only if it is that character's.
LEMMA ReadChars == \A k : Co!ReadKey(k) = Co!Digit => k = Co!Digit
  <1> TAKE k
  <1>1. CASE Co!IsEscape(k)
    <2>1. Co!ReadKey(k) = Co!EscapeKey(k)
      BY <1>1, Zenon DEF Co!ReadKey
    <2>2. Co!EscapeKey(k) # Co!Digit
      BY Zenon DEF Co!EscapeKey, Co!Digit
    <2>3. QED
      BY <2>1, <2>2
  <1>2. CASE ~Co!IsEscape(k)
    <2>1. Co!ReadKey(k) = Co!ControlKey(k)
      BY <1>2, Zenon DEF Co!ReadKey
    <2>2. Co!ControlKey(k) = Co!Digit => k = Co!Digit
      BY Zenon DEF Co!ControlKey, Co!Digit, Co!Chars
    <2>3. QED
      BY <2>1, <2>2
  <1>3. QED
    BY <1>1, <1>2

\* The lines of fewer characters are lines of more.
LEMMA PlainLines == Lines(Plain) \subseteq Lines(Co!Chars) /\ Seq(Plain) \subseteq Seq(Co!Chars)
  <1>1. Plain \subseteq Co!Chars
    BY DEF Plain
  <1>2. Seq(Plain) \subseteq Seq(Co!Chars)
    BY <1>1, SeqMonotonic
  <1>3. QED
    BY <1>2 DEF Lines

LEMMA NoDigit == ASSUME NEW text \in Seq(Plain) PROVE ~Co!Has(text, Co!Digit)
  <1>1. \A i \in DOMAIN text : text[i] \in Plain
    BY ElementOfSeq
  <1>2. QED
    BY <1>1 DEF Co!Has, Plain

LEMMA LineParts ==
  ASSUME NEW S, NEW l \in Lines(S), Fits(l)
  PROVE  /\ Co!Before(l) \in Seq(S) /\ Len(Co!Before(l)) = l.pos
         /\ Co!After(l) \in Seq(S) /\ Len(Co!After(l)) = Len(l.buf) - l.pos
  <1>1. l.buf \in Seq(S) /\ l.pos \in Nat /\ l.pos <= Len(l.buf) /\ Len(l.buf) \in Nat
    BY LenProperties DEF Lines, Fits
  <1>. DEFINE b == l.buf  p == l.pos
  <1>. HIDE DEF b, p
  <1>2. b \in Seq(S) /\ p \in Nat /\ p <= Len(b) /\ Len(b) \in Nat
    BY <1>1 DEF b, p
  <1>3. SubSeq(b, 1, p) \in Seq(S) /\ Len(SubSeq(b, 1, p)) = p
    BY <1>2
  <1>4. SubSeq(b, p + 1, Len(b)) \in Seq(S) /\ Len(SubSeq(b, p + 1, Len(b))) = Len(b) - p
    BY <1>2
  <1>5. QED
    BY <1>3, <1>4 DEF Co!Before, Co!After, b, p

\* What editing leaves alone.
Edit(S, l, m) ==
  /\ m \in Lines(S) /\ Fits(m)
  /\ m.history = l.history /\ m.at = l.at /\ m.draft = l.draft /\ m.masked = l.masked

LEMMA Joined ==
  ASSUME NEW S, NEW u \in Seq(S), NEW v \in Seq(S)
  PROVE  u \o v \in Seq(S) /\ Len(u \o v) = Len(u) + Len(v) /\ Len(u) \in Nat /\ Len(v) \in Nat
  BY ConcatProperties

LEMMA Moved ==
  ASSUME NEW S, NEW l \in Lines(S), Fits(l), NEW p \in Nat, p <= Len(l.buf)
  PROVE  Edit(S, l, [l EXCEPT !.pos = p])
  BY DEF Edit, Lines, Fits

LEMMA Unmoved ==
  ASSUME NEW S, NEW l \in Lines(S), Fits(l) PROVE Edit(S, l, l)
  BY DEF Edit

LEMMA InsertEdits ==
  ASSUME NEW S, NEW l \in Lines(S), Fits(l), NEW c \in S
  PROVE  Edit(S, l, Co!Insert(l, c))
  <1>. DEFINE b == Co!Before(l) \o <<c>> \o Co!After(l)
  <1>1. b \in Seq(S) /\ Len(b) = Len(l.buf) + 1 /\ l.pos \in Nat /\ l.pos <= Len(l.buf) /\ Len(l.buf) \in Nat
    <2>1. l.pos \in Nat /\ l.pos <= Len(l.buf) /\ l.buf \in Seq(S) /\ Len(l.buf) \in Nat
      BY DEF Lines, Fits
    <2>2. <<c>> \in Seq(S) /\ Len(<<c>>) = 1
      OBVIOUS
    <2>. DEFINE v == Co!Before(l) \o <<c>>  a == Co!After(l)
    <2>3. v \in Seq(S) /\ Len(v) = l.pos + 1
      BY <2>2, LineParts, Joined
    <2>4. a \in Seq(S) /\ Len(a) = Len(l.buf) - l.pos
      BY LineParts
    <2>5. b = v \o a
      OBVIOUS
    <2>. HIDE DEF v, a, b
    <2>6. b \in Seq(S) /\ Len(b) = Len(v) + Len(a)
      BY <2>3, <2>4, <2>5, Joined
    <2>7. QED
      BY <2>1, <2>3, <2>4, <2>6
  <1>2. Co!Insert(l, c) = [l EXCEPT !.buf = b, !.pos = l.pos + 1]
    BY DEF Co!Insert
  <1>. HIDE DEF b
  <1>3. l.pos + 1 \in Nat /\ l.pos + 1 <= Len(b)
    BY <1>1
  <1>4. QED
    BY <1>1, <1>2, <1>3 DEF Edit, Lines, Fits

LEMMA DeleteBackEdits ==
  ASSUME NEW S, NEW l \in Lines(S), Fits(l)
  PROVE  Edit(S, l, Co!DeleteBack(l))
  <1>1. CASE l.pos = 0
    BY <1>1, Unmoved DEF Co!DeleteBack
  <1>2. CASE l.pos # 0
    <2>. DEFINE f == Co!Front(Co!Before(l))  b == f \o Co!After(l)
    <2>1. l.pos \in Nat /\ l.pos - 1 \in Nat /\ l.pos <= Len(l.buf) /\ l.buf \in Seq(S) /\ Len(l.buf) \in Nat
      BY <1>2 DEF Lines, Fits
    <2>2. f \in Seq(S) /\ Len(f) = l.pos - 1
      <3>. DEFINE v == Co!Before(l)
      <3>1. v \in Seq(S) /\ Len(v) = l.pos
        BY LineParts
      <3>. HIDE DEF v
      <3>2. SubSeq(v, 1, Len(v) - 1) \in Seq(S) /\ Len(SubSeq(v, 1, Len(v) - 1)) = Len(v) - 1
        BY <2>1, <3>1
      <3>3. QED
        BY <3>1, <3>2 DEF v, Co!Front
    <2>3. b \in Seq(S) /\ Len(b) = (l.pos - 1) + (Len(l.buf) - l.pos)
      <3>. DEFINE a == Co!After(l)
      <3>1. a \in Seq(S) /\ Len(a) = Len(l.buf) - l.pos
        BY LineParts
      <3>. HIDE DEF f, a
      <3>2. f \o a \in Seq(S) /\ Len(f \o a) = Len(f) + Len(a)
        BY <2>2, <3>1, Joined
      <3>3. QED
        BY <2>2, <3>1, <3>2 DEF a
    <2>4. Co!DeleteBack(l) = [l EXCEPT !.buf = b, !.pos = l.pos - 1]
      BY <1>2 DEF Co!DeleteBack
    <2>. HIDE DEF b
    <2>5. l.pos - 1 <= Len(b)
      BY <2>1, <2>3
    <2>6. QED
      BY <2>1, <2>3, <2>4, <2>5 DEF Edit, Lines, Fits
  <1>3. QED
    BY <1>1, <1>2

LEMMA DeleteForwardEdits ==
  ASSUME NEW S, NEW l \in Lines(S), Fits(l)
  PROVE  Edit(S, l, Co!DeleteForward(l))
  <1>1. CASE l.pos >= Len(l.buf)
    BY <1>1, Unmoved DEF Co!DeleteForward
  <1>2. CASE ~(l.pos >= Len(l.buf))
    <2>. DEFINE t == Tail(Co!After(l))  b == Co!Before(l) \o t
    <2>1. l.pos \in Nat /\ l.pos < Len(l.buf) /\ l.buf \in Seq(S) /\ Len(l.buf) \in Nat
      BY <1>2 DEF Lines, Fits
    <2>2. t \in Seq(S) /\ Len(t) = Len(l.buf) - l.pos - 1
      <3>. DEFINE v == Co!After(l)
      <3>1. v \in Seq(S) /\ Len(v) = Len(l.buf) - l.pos
        BY LineParts
      <3>. HIDE DEF v
      <3>2. v # <<>>
        BY <2>1, <3>1
      <3>3. Tail(v) \in Seq(S) /\ Len(Tail(v)) = Len(v) - 1
        BY <3>1, <3>2
      <3>4. QED
        BY <3>1, <3>3 DEF v
    <2>3. b \in Seq(S) /\ Len(b) = l.pos + Len(t)
      <3>. DEFINE v == Co!Before(l)
      <3>1. v \in Seq(S) /\ Len(v) = l.pos
        BY LineParts
      <3>. HIDE DEF t, v
      <3>2. v \o t \in Seq(S) /\ Len(v \o t) = Len(v) + Len(t)
        BY <2>2, <3>1, Joined
      <3>3. QED
        BY <3>1, <3>2 DEF v
    <2>4. Co!DeleteForward(l) = [l EXCEPT !.buf = b]
      BY <1>2 DEF Co!DeleteForward
    <2>5. [l EXCEPT !.buf = b] = [l EXCEPT !.buf = b, !.pos = l.pos]
      BY DEF Lines
    <2>. HIDE DEF b
    <2>6. l.pos <= Len(b)
      <3>. HIDE DEF t
      <3>1. QED
        BY <2>1, <2>2, <2>3
    <2>7. QED
      BY <2>1, <2>3, <2>4, <2>5, <2>6 DEF Edit, Lines, Fits
  <1>3. QED
    BY <1>1, <1>2

LEMMA WordStartIs ==
  ASSUME NEW S, NEW l \in Lines(S)
  PROVE  Co!WordStart(l) \in 0 .. l.pos
  <1>. DEFINE spaces == {i \in 0 .. l.pos : \A j \in i + 1 .. l.pos : l.buf[j] = Co!Space}
              end == CHOOSE i \in spaces : \A j \in spaces : i <= j
              word == {i \in 0 .. end : \A j \in i + 1 .. end : l.buf[j] # Co!Space}
  <1>0. l.pos \in Nat
    BY DEF Lines
  <1>1. spaces \subseteq Nat /\ l.pos \in spaces
    BY <1>0
  <1>2. end \in spaces
    <2>. HIDE DEF spaces
    <2>1. \E i \in spaces : \A j \in spaces : i <= j
      BY <1>1, Least
    <2>2. QED
      BY <2>1
  <1>3. end \in 0 .. l.pos
    <2>. HIDE DEF end
    <2>1. QED
      BY <1>2
  <1>4. word \subseteq Nat /\ word \subseteq 0 .. end /\ end \in word
    <2>. HIDE DEF end
    <2>1. QED
      BY <1>0, <1>3
  <1>5. (CHOOSE i \in word : \A j \in word : i <= j) \in word
    <2>. HIDE DEF word
    <2>1. \E i \in word : \A j \in word : i <= j
      BY <1>4, Least
    <2>2. QED
      BY <2>1
  <1>6. Co!WordStart(l) \in word
    BY <1>5, Zenon DEF Co!WordStart
  <1>. HIDE DEF word, end
  <1>7. Co!WordStart(l) \in 0 .. end
    BY <1>4, <1>6
  <1>8. QED
    BY <1>0, <1>3, <1>7

LEMMA DeleteWordEdits ==
  ASSUME NEW S, NEW l \in Lines(S), Fits(l)
  PROVE  Edit(S, l, Co!DeleteWord(l))
  <1>. DEFINE w == Co!WordStart(l)  f == SubSeq(l.buf, 1, w)  b == f \o Co!After(l)
  <1>1. w \in Nat /\ w <= l.pos /\ l.pos \in Nat /\ l.pos <= Len(l.buf) /\ l.buf \in Seq(S) /\ Len(l.buf) \in Nat
    BY WordStartIs DEF Lines, Fits
  <1>2. Co!DeleteWord(l) = [l EXCEPT !.buf = b, !.pos = w]
    BY DEF Co!DeleteWord
  <1>. HIDE DEF w
  <1>3. f \in Seq(S) /\ Len(f) = w
    <2>. DEFINE c == l.buf
    <2>1. c \in Seq(S) /\ w <= Len(c) /\ Len(c) \in Nat
      BY <1>1
    <2>. HIDE DEF c
    <2>2. SubSeq(c, 1, w) \in Seq(S) /\ Len(SubSeq(c, 1, w)) = w
      BY <1>1, <2>1
    <2>3. QED
      BY <2>2 DEF c
  <1>4. b \in Seq(S) /\ Len(b) = w + (Len(l.buf) - l.pos)
    <2>. DEFINE a == Co!After(l)
    <2>1. a \in Seq(S) /\ Len(a) = Len(l.buf) - l.pos
      BY LineParts
    <2>. HIDE DEF f, a
    <2>2. f \o a \in Seq(S) /\ Len(f \o a) = Len(f) + Len(a)
      BY <1>3, <2>1, Joined
    <2>3. QED
      BY <1>3, <2>1, <2>2 DEF a
  <1>. HIDE DEF b
  <1>5. w <= Len(b)
    BY <1>1, <1>4
  <1>6. QED
    BY <1>1, <1>2, <1>4, <1>5 DEF Edit, Lines, Fits

LEMMA SetEdits ==
  ASSUME NEW S, NEW l \in Lines(S), Fits(l), NEW b \in Seq(S)
  PROVE  Edit(S, l, Co!Set(l, b)) /\ Co!Set(l, b).buf = b
  <1>. DEFINE n == Len(b)
  <1>1. n \in Nat /\ n <= Len(b)
    OBVIOUS
  <1>2. Co!Set(l, b) = [l EXCEPT !.buf = b, !.pos = n]
    BY DEF Co!Set
  <1>. HIDE DEF n
  <1>3. Co!Set(l, b) \in Lines(S) /\ Co!Set(l, b).buf = b /\ Co!Set(l, b).pos = n
    BY <1>1, <1>2 DEF Lines
  <1>4. /\ Co!Set(l, b).history = l.history /\ Co!Set(l, b).at = l.at
        /\ Co!Set(l, b).draft = l.draft /\ Co!Set(l, b).masked = l.masked
    BY <1>2 DEF Lines
  <1>5. Fits(Co!Set(l, b))
    BY <1>1, <1>3, <1>4 DEF Fits
  <1>6. QED
    BY <1>3, <1>4, <1>5 DEF Edit

\* A walk goes from one line to another of the history and the line of now.
LEMMA WalkWalks ==
  ASSUME NEW S, Plain \subseteq S, NEW l \in Lines(S), Fits(l), NEW by \in {-1, 1}
  PROVE  LET m == Co!Walk(l, by)
             now == Len(l.history)
         IN  /\ m \in Lines(S) /\ Fits(m) /\ m.history = l.history /\ m.masked = l.masked
             /\ l.at = now /\ m.at # now => m.draft = l.buf
             /\ l.at # now => m.draft = l.draft
             /\ l.at # now /\ m.at = now => m.buf = l.draft
  <1>. DEFINE now == Len(l.history)  to == l.at + by
              kept == IF l.at = now THEN [l EXCEPT !.draft = l.buf] ELSE l
              k2 == [kept EXCEPT !.at = to]
              text == IF to = now THEN kept.draft ELSE l.history[to + 1]
              m == Co!Walk(l, by)
  <1>0. /\ l.buf \in Seq(S) /\ l.pos \in Nat /\ l.history \in Seq(Seq(Plain)) /\ l.at \in Nat
        /\ l.draft \in Seq(S) /\ l.pos <= Len(l.buf) /\ l.at <= now /\ now \in Nat
    BY DEF Lines, Fits
  <1>1. CASE to < 0 \/ to > now
    <2>1. m = l
      BY <1>1, Zenon DEF Co!Walk
    <2>2. QED
      BY <2>1
  <1>2. CASE ~(to < 0 \/ to > now)
    <2>1. m = Co!Set(k2, text)
      BY <1>2, Zenon DEF Co!Walk
    <2>2. /\ kept \in Lines(S) /\ kept.history = l.history /\ kept.masked = l.masked /\ kept.buf = l.buf
          /\ kept.pos = l.pos
          /\ l.at = now => kept.draft = l.buf
          /\ l.at # now => kept.draft = l.draft
      BY <1>0 DEF Lines
    <2>3. to \in Nat /\ to <= now
      BY <1>0, <1>2
    <2>. HIDE DEF kept, to, now
    <2>4. /\ k2 \in Lines(S) /\ k2.history = l.history /\ k2.masked = l.masked /\ k2.draft = kept.draft
          /\ k2.at = to /\ k2.buf = l.buf /\ k2.pos = l.pos
      BY <2>2, <2>3 DEF Lines
    <2>5. Fits(k2)
      BY <1>0, <2>3, <2>4 DEF Fits, now
    <2>6. text \in Seq(S)
      <3>1. CASE to = now
        BY <2>2, <3>1 DEF Lines
      <3>2. CASE to # now
        <4>1. to + 1 \in 1 .. Len(l.history)
          BY <2>3, <3>2, <1>0 DEF now
        <4>2. l.history[to + 1] \in Seq(Plain)
          BY <1>0, <4>1, ElementOfSeq
        <4>3. Seq(Plain) \subseteq Seq(S)
          BY SeqMonotonic
        <4>4. QED
          BY <3>2, <4>2, <4>3
      <3>3. QED
        BY <3>1, <3>2
    <2>. HIDE DEF k2
    <2>7. Edit(S, k2, m) /\ m.buf = text
      <3>. HIDE DEF text, m
      <3>1. QED
        BY <2>1, <2>4, <2>5, <2>6, SetEdits
    <2>8. /\ m \in Lines(S) /\ Fits(m) /\ m.history = l.history /\ m.masked = l.masked /\ m.at = to
          /\ m.draft = kept.draft
      <3>. HIDE DEF m
      <3>1. QED
        BY <2>4, <2>7 DEF Edit
    <2>9. l.at # now /\ m.at = now => m.buf = l.draft
      <3>. HIDE DEF m
      <3>1. QED
        BY <2>2, <2>7, <2>8
    <2>10. QED
      <3>. HIDE DEF m
      <3>1. QED
        BY <2>2, <2>8, <2>9 DEF now, m
  <1>3. QED
    BY <1>1, <1>2

\* What a keystroke makes of the draft, and it leaves the history alone.
Walked(l, m) ==
  /\ m.history = l.history /\ m.masked = l.masked
  /\ l.at = Len(l.history) /\ m.at # Len(l.history) => m.draft = l.buf
  /\ l.at # Len(l.history) /\ m.at # Len(l.history) => m.draft = l.draft
  /\ l.at # Len(l.history) /\ m.at = Len(l.history) => m.buf = l.draft

LEMMA WalkIs ==
  ASSUME NEW S, Plain \subseteq S, NEW l \in Lines(S), Fits(l), NEW by \in {-1, 1}
  PROVE  Co!Walk(l, by) \in Lines(S) /\ Fits(Co!Walk(l, by)) /\ Walked(l, Co!Walk(l, by))
  BY WalkWalks, Zenon DEF Walked

LEMMA EditWalks ==
  ASSUME NEW S, NEW l \in Lines(S), NEW m, Edit(S, l, m)
  PROVE  m \in Lines(S) /\ Fits(m) /\ Walked(l, m)
  BY Zenon DEF Edit, Walked

LEMMA ApplyIs ==
  ASSUME NEW S, Plain \subseteq S, NEW l \in Lines(S), Fits(l), NEW k, k \in Co!Chars => k \in S
  PROVE  Co!Apply(l, k) \in Lines(S) /\ Fits(Co!Apply(l, k)) /\ Walked(l, Co!Apply(l, k))
  <1>. DEFINE m == Co!Apply(l, k)
              back == IF l.pos > 0 THEN l.pos - 1 ELSE 0
              on == IF l.pos < Len(l.buf) THEN l.pos + 1 ELSE l.pos
  <1>0. l.pos \in Nat /\ l.pos <= Len(l.buf) /\ Len(l.buf) \in Nat /\ <<>> \in Seq(S)
    BY DEF Lines, Fits
  <1>1. \/ k \in Co!Chars /\ m = Co!Insert(l, k)
        \/ m = Co!DeleteBack(l)
        \/ m = Co!DeleteForward(l)
        \/ m = [l EXCEPT !.pos = back]
        \/ m = [l EXCEPT !.pos = on]
        \/ m = [l EXCEPT !.pos = 0]
        \/ m = [l EXCEPT !.pos = Len(l.buf)]
        \/ m = Co!Walk(l, -1)
        \/ m = Co!Walk(l, 1)
        \/ m = Co!Set(l, <<>>)
        \/ m = Co!DeleteWord(l)
        \/ m = l
    <2>. USE DEF Co!Apply, Co!Chars, Co!Digit, Co!Space
    <2>1. k \in Co!Chars => m = Co!Insert(l, k)
      BY Zenon
    <2>2. k = "backspace" => m = Co!DeleteBack(l)
      BY Zenon
    <2>3. k \in {"delete", "eof"} => m = Co!DeleteForward(l)
      BY Zenon
    <2>4. k = "left" => m = [l EXCEPT !.pos = back]
      BY Zenon
    <2>5. k = "right" => m = [l EXCEPT !.pos = on]
      BY Zenon
    <2>6. k = "home" => m = [l EXCEPT !.pos = 0]
      BY Zenon
    <2>7. k = "end" => m = [l EXCEPT !.pos = Len(l.buf)]
      BY Zenon
    <2>8. k = "prev" => m = Co!Walk(l, -1)
      BY Zenon
    <2>9. k = "next" => m = Co!Walk(l, 1)
      BY Zenon
    <2>10. k = "kill line" => m = Co!Set(l, <<>>)
      BY Zenon
    <2>11. k = "kill word" => m = Co!DeleteWord(l)
      BY Zenon
    <2>. HIDE DEF Co!Chars
    <2>12. k \notin Co!Chars /\ k \notin {"backspace", "delete", "eof", "left", "right", "home", "end", "prev",
                                         "next", "kill line", "kill word"} => m = l
      BY Zenon
    <2>. HIDE DEF m, back, on
    <2>13. QED
      BY <2>1, <2>2, <2>3, <2>4, <2>5, <2>6, <2>7, <2>8, <2>9, <2>10, <2>11, <2>12, Zenon
  <1>2. back \in Nat /\ back <= Len(l.buf) /\ on \in Nat /\ on <= Len(l.buf)
    BY <1>0
  <1>. HIDE DEF m, back, on
  <1>3. CASE m = Co!Walk(l, -1) \/ m = Co!Walk(l, 1)
    BY <1>3, WalkIs DEF m
  <1>4. CASE Edit(S, l, m)
    BY <1>4, EditWalks DEF m
  <1>5. CASE k \in Co!Chars /\ m = Co!Insert(l, k)
    BY <1>4, <1>5, InsertEdits
  <1>6. CASE m = Co!DeleteBack(l) \/ m = Co!DeleteForward(l) \/ m = Co!DeleteWord(l)
    BY <1>4, <1>6, DeleteBackEdits, DeleteForwardEdits, DeleteWordEdits
  <1>7. CASE m = Co!Set(l, <<>>)
    BY <1>0, <1>4, <1>7, SetEdits
  <1>8. CASE m = l
    BY <1>4, <1>8, Unmoved
  <1>9. CASE m = [l EXCEPT !.pos = back] \/ m = [l EXCEPT !.pos = on]
    BY <1>2, <1>4, <1>9, Moved
  <1>10. CASE m = [l EXCEPT !.pos = 0] \/ m = [l EXCEPT !.pos = Len(l.buf)]
    BY <1>0, <1>4, <1>10, Moved
  <1>11. QED
    BY <1>1, <1>3, <1>5, <1>6, <1>7, <1>8, <1>9, <1>10

LEMMA TrimmedIs ==
  ASSUME NEW S, NEW text \in Seq(S) PROVE Co!Trimmed(text) \in Seq(S)
  <1>. DEFINE letters == {i \in DOMAIN text : text[i] # Co!Space}
              first == CHOOSE i \in letters : \A j \in letters : i <= j
              last == CHOOSE i \in letters : \A j \in letters : i >= j
  <1>0. Len(text) \in Nat /\ DOMAIN text = 1 .. Len(text)
    BY LenProperties
  <1>1. CASE letters = {}
    <2>1. Co!Trimmed(text) = <<>>
      BY <1>1, Zenon DEF Co!Trimmed
    <2>2. QED
      BY <2>1
  <1>2. CASE letters # {}
    <2>1. Co!Trimmed(text) = SubSeq(text, first, last)
      BY <1>2, Zenon DEF Co!Trimmed
    <2>2. letters \subseteq 1 .. Len(text) /\ letters \subseteq Nat /\ letters \subseteq 0 .. Len(text)
      BY <1>0
    <2>. HIDE DEF letters
    <2>3. \E i \in letters : \A j \in letters : i <= j
      BY <1>2, <2>2, Least
    <2>4. \E i \in letters : \A j \in letters : i >= j
      BY <1>0, <1>2, <2>2, Greatest
    <2>5. first \in letters /\ last \in letters
      BY <2>3, <2>4, Zenon
    <2>. HIDE DEF first, last
    <2>6. first \in 1 .. Len(text) /\ last \in 1 .. Len(text)
      BY <2>2, <2>5
    <2>7. SubSeq(text, first, last) \in Seq(S)
      BY <1>0, <2>6
    <2>8. QED
      BY <2>1, <2>7
  <1>3. QED
    BY <1>1, <1>2

LEMMA EmptyLineIs ==
  Co!EmptyLine \in Lines(Plain) /\ Co!EmptyLine.buf = <<>> /\ Co!EmptyLine.draft = <<>>
  /\ Co!EmptyLine.pos = 0 /\ Co!EmptyLine.at = 0 /\ Co!EmptyLine.history = <<>> /\ Co!EmptyLine.masked = FALSE
  BY DEF Co!EmptyLine, Lines

\* Nothing is remembered that was typed under asterisks.
LEMMA TakeIs ==
  ASSUME NEW l \in Lines(Co!Chars), Fits(l), l.masked = FALSE => l.buf \in Seq(Plain)
  PROVE  /\ Co!Take(l) \in Lines(Plain) /\ Fits(Co!Take(l)) /\ Co!Take(l).masked = l.masked
         /\ \A i \in DOMAIN l.history : Co!Take(l).history[i] = l.history[i]
  <1>. DEFINE text == Co!Trimmed(l.buf)
              new == IF text # <<>> /\ ~l.masked /\ Co!LastTyped(l) # text
                       THEN Append(l.history, text) ELSE l.history
              m == Co!Take(l)
  <1>1. m = [Co!EmptyLine EXCEPT !.history = new, !.at = Len(new), !.masked = l.masked]
    BY Zenon DEF Co!Take
  <1>2. new = l.history \/ (new = Append(l.history, text) /\ ~l.masked)
    BY Zenon
  <1>3. l.history \in Seq(Seq(Plain)) /\ (l.masked = TRUE \/ l.masked = FALSE)
    BY Zenon DEF Lines
  <1>4. ~l.masked => text \in Seq(Plain)
    <2>1. ~l.masked => l.masked = FALSE
      BY <1>3, Zenon
    <2>2. ~l.masked => l.buf \in Seq(Plain)
      BY <2>1, Zenon
    <2>3. l.buf \in Seq(Plain) => text \in Seq(Plain)
      BY TrimmedIs
    <2>4. QED
      BY <2>2, <2>3, Zenon
  <1>5. new = l.history \/ (new = Append(l.history, text) /\ text \in Seq(Plain))
    BY <1>2, <1>4, Zenon
  <1>. HIDE DEF text, new
  <1>6. /\ new \in Seq(Seq(Plain)) /\ Len(new) \in Nat
        /\ \A i \in DOMAIN l.history : new[i] = l.history[i]
    <2>. DEFINE h == l.history
    <2>1. h \in Seq(Seq(Plain))
      BY <1>3, Zenon
    <2>. HIDE DEF h
    <2>2. CASE new = h
      BY <2>1, <2>2 DEF h
    <2>3. CASE new = Append(h, text) /\ text \in Seq(Plain)
      <3>1. Append(h, text) \in Seq(Seq(Plain)) /\ \A i \in 1 .. Len(h) : Append(h, text)[i] = h[i]
        BY <2>1, <2>3, AppendProperties
      <3>2. DOMAIN h = 1 .. Len(h)
        BY <2>1, LenProperties
      <3>3. QED
        BY <2>3, <3>1, <3>2, LenProperties DEF h
    <2>4. QED
      BY <1>5, <2>2, <2>3, Zenon DEF h
  <1>7. /\ m.history = new /\ m.at = Len(new) /\ m.masked = l.masked /\ m.buf = <<>> /\ m.pos = 0
        /\ m.draft = <<>> /\ m \in Lines(Plain)
    <2>. DEFINE e == Co!EmptyLine  n == Len(new)  b == l.masked
    <2>1. e \in Lines(Plain) /\ e.buf = <<>> /\ e.draft = <<>> /\ e.pos = 0 /\ b \in BOOLEAN
      BY EmptyLineIs DEF Lines
    <2>2. m = [e EXCEPT !.history = new, !.at = n, !.masked = b]
      BY <1>1
    <2>3. n \in Nat
      BY <1>6
    <2>. HIDE DEF m, e, n, b
    <2>4. /\ m.history = new /\ m.at = n /\ m.masked = b /\ m.buf = <<>> /\ m.pos = 0
          /\ m.draft = <<>> /\ m \in Lines(Plain)
      BY <1>6, <2>1, <2>2, <2>3 DEF Lines
    <2>5. QED
      BY <2>4, Zenon DEF n, b
  <1>. HIDE DEF m
  <1>8. Fits(m)
    BY <1>6, <1>7 DEF Fits
  <1>9. \A i \in DOMAIN l.history : m.history[i] = l.history[i]
    BY <1>6, <1>7
  <1>10. QED
    BY <1>7, <1>8, <1>9, Zenon DEF m

-----------------------------------------------------------------------------
(***************************************************************************)
(* The steps.                                                              *)
(***************************************************************************)
LEMMA MaskedLine ==
  ASSUME NEW S, NEW l \in Lines(S), Fits(l), NEW b \in BOOLEAN
  PROVE  LET m == [l EXCEPT !.masked = b] IN
         /\ m \in Lines(S) /\ Fits(m) /\ m.buf = l.buf /\ m.masked = b
         /\ m.history = l.history /\ m.at = l.at /\ m.draft = l.draft
  BY DEF Lines, Fits

LEMMA ConsoleInit == Co!ConstantsOK /\ Co!Init => ConsoleInv
  <1>1. SUFFICES ASSUME Co!ConstantsOK, Co!Init PROVE ConsoleInv
    OBVIOUS
  <1>2. /\ console_input = <<>> /\ console_pump = "reading" /\ console_keys = [queue |-> <<>>, closed |-> FALSE]
        /\ console_line = Co!EmptyLine /\ console_reader = "line"
        /\ console_row = [text |-> <<>>, masked |-> FALSE] /\ console_log = <<>> /\ Backlog \in Nat
    BY <1>1 DEF Co!Init, Co!ConstantsOK
  <1>3. Fits(Co!EmptyLine) /\ Co!EmptyLine \in Lines(Co!Chars)
    BY EmptyLineIs, PlainLines DEF Fits
  <1>4. console_keys.queue = <<>> /\ console_keys.closed = FALSE /\ console_keys \in [queue : Seq(Pressed), closed : BOOLEAN]
    BY <1>2
  <1>5. ConsoleTyped
    <2>1. console_input \in Seq(Keystrokes) /\ Len(console_input) <= 1 /\ console_log \in Seq(Plain)
          /\ Len(console_keys.queue) <= Backlog
      BY <1>2, <1>4
    <2>2. console_row = [text |-> console_line.buf, masked |-> console_line.masked]
      BY <1>2, EmptyLineIs, Zenon
    <2>3. console_pump \in {"reading", "over"}
          /\ console_reader \in {"line", "secret", "running", "unmask", "gone", "over"}
      BY <1>2
    <2>4. QED
      BY <1>2, <1>3, <1>4, <2>1, <2>2, <2>3, Zenon DEF ConsoleTyped
  <1>6. MaskedOK /\ OpenOK
    BY <1>2, EmptyLineIs DEF MaskedOK, Masking, OpenOK
  <1>7. WaitingOK
    BY <1>2, <1>4 DEF WaitingOK
  <1>8. QED
    BY <1>5, <1>6, <1>7 DEF ConsoleInv

\* The head of the queue is taken: what is left of it has no digit.
LEMMA HeadIsTaken ==
  ASSUME ConsoleInv, console_keys.queue # <<>>,
         console_keys' = [console_keys EXCEPT !.queue = Tail(@)]
  PROVE  /\ console_keys' \in [queue : Seq(Pressed), closed : BOOLEAN]
         /\ Len(console_keys'.queue) <= Backlog /\ console_keys'.closed = console_keys.closed
         /\ \A i \in DOMAIN console_keys'.queue : console_keys'.queue[i] # Co!Digit
         /\ Head(console_keys.queue) = Co!Digit => console_reader = "secret"
         /\ \A i \in DOMAIN console_input : console_input[i] = Co!Digit => console_pump = "over"
  <1>. DEFINE q == console_keys.queue  r == console_keys'.queue
  <1>1. q \in Seq(Pressed) /\ Len(q) <= Backlog /\ q # <<>> /\ Backlog \in Nat
    BY LoopsConstants DEF ConsoleInv, ConsoleTyped, Co!ConstantsOK
  <1>2. console_keys' = [console_keys EXCEPT !.queue = Tail(q)]
    OBVIOUS
  <1>3. \A i \in DOMAIN q : q[i] = Co!Digit => i = 1 /\ console_reader = "secret"
    BY DEF ConsoleInv, WaitingOK
  <1>4. \A i \in DOMAIN console_input : console_input[i] = Co!Digit => console_pump = "over"
    BY <1>1 DEF ConsoleInv, WaitingOK
  <1>5. console_keys \in [queue : Seq(Pressed), closed : BOOLEAN]
    BY DEF ConsoleInv, ConsoleTyped
  <1>. HIDE DEF q
  <1>6. Tail(q) \in Seq(Pressed) /\ Len(Tail(q)) = Len(q) - 1 /\ DOMAIN Tail(q) = 1 .. Len(q) - 1
        /\ \A i \in 1 .. Len(q) - 1 : Tail(q)[i] = q[i + 1]
    BY <1>1
  <1>7. Len(q) \in Nat /\ Len(q) >= 1 /\ DOMAIN q = 1 .. Len(q) /\ Head(q) = q[1]
    BY <1>1
  <1>8. \A i \in 1 .. Len(q) - 1 : Tail(q)[i] # Co!Digit
    <2>1. SUFFICES ASSUME NEW i \in 1 .. Len(q) - 1, Tail(q)[i] = Co!Digit PROVE FALSE
      OBVIOUS
    <2>2. i + 1 \in DOMAIN q /\ i + 1 # 1
      BY <1>7
    <2>3. QED
      BY <1>3, <1>6, <2>1, <2>2
  <1>. DEFINE t == Tail(q)
  <1>9. console_keys' = [console_keys EXCEPT !.queue = t] /\ t \in Seq(Pressed)
    BY <1>2, <1>6
  <1>. HIDE DEF t
  <1>10. /\ console_keys' \in [queue : Seq(Pressed), closed : BOOLEAN] /\ r = t
         /\ console_keys'.closed = console_keys.closed
    BY <1>5, <1>9
  <1>11. Head(q) = Co!Digit => console_reader = "secret"
    BY <1>3, <1>7
  <1>12. Len(r) <= Backlog
    BY <1>1, <1>6, <1>7, <1>10 DEF t
  <1>13. \A i \in DOMAIN r : r[i] # Co!Digit
    BY <1>6, <1>8, <1>10 DEF t
  <1>14. QED
    BY <1>4, <1>10, <1>11, <1>12, <1>13 DEF q

LEMMA KeyboardStep ==
  ASSUME ConsoleInv, Co!Press \/ Co!Pump \/ Co!PumpFails PROVE ConsoleInv'
  <1>0. /\ console_input \in Seq(Keystrokes) /\ Len(console_input) <= 1
        /\ console_keys \in [queue : Seq(Pressed), closed : BOOLEAN] /\ Len(console_keys.queue) <= Backlog
        /\ Backlog \in Nat
    BY LoopsConstants DEF ConsoleInv, ConsoleTyped, Co!ConstantsOK
  <1>1. UNCHANGED <<console_line, console_reader, console_row, console_log>>
    BY Zenon DEF Co!Press, Co!Pump, Co!PumpFails
  <1>2. MaskedOK'
    BY <1>1 DEF ConsoleInv, MaskedOK
  <1>3. ASSUME console_input' \in Seq(Keystrokes), Len(console_input') <= 1,
               console_pump' \in {"reading", "over"}, console_pump' = "reading" => console_pump = "reading",
               console_keys' \in [queue : Seq(Pressed), closed : BOOLEAN], Len(console_keys'.queue) <= Backlog,
               WaitingOK'
        PROVE  ConsoleInv'
    <2>1. ConsoleTyped'
      BY <1>1, <1>3 DEF ConsoleInv, ConsoleTyped
    <2>2. OpenOK'
      BY <1>1, <1>3 DEF ConsoleInv, OpenOK
    <2>3. QED
      BY <1>2, <1>3, <2>1, <2>2 DEF ConsoleInv
  <1>4. CASE Co!Press
    <2>1. PICK k \in Keystrokes : /\ k = Co!Digit => Co!AtPrompt
                                  /\ console_input' = Append(console_input, k)
      BY <1>4, Zenon DEF Co!Press
    <2>2. Len(console_input) < 1 /\ UNCHANGED <<console_pump, console_keys>>
      BY <1>4, Zenon DEF Co!Press
    <2>3. console_input = <<>>
      BY <1>0, <2>2
    <2>4. console_input' \in Seq(Keystrokes) /\ Len(console_input') = 1 /\ DOMAIN console_input' = {1}
          /\ console_input'[1] = k
      BY <2>1, <2>3
    <2>5. k = Co!Digit => console_reader = "secret" /\ console_keys.queue = <<>>
      BY <2>1 DEF Co!AtPrompt
    <2>6. WaitingOK'
      BY <1>1, <2>2, <2>4, <2>5 DEF ConsoleInv, WaitingOK
    <2>7. console_pump \in {"reading", "over"}
      BY DEF ConsoleInv, ConsoleTyped
    <2>8. QED
      BY <1>0, <1>3, <2>2, <2>4, <2>6, <2>7
  <1>5. CASE Co!PumpFails
    <2>1. /\ console_input' = console_input /\ console_pump' = "over"
          /\ console_keys' = [console_keys EXCEPT !.closed = TRUE]
      BY <1>5, Zenon DEF Co!PumpFails
    <2>2. console_keys' \in [queue : Seq(Pressed), closed : BOOLEAN] /\ console_keys'.queue = console_keys.queue
      BY <1>0, <2>1
    <2>3. WaitingOK'
      BY <1>1, <2>1, <2>2 DEF ConsoleInv, WaitingOK
    <2>4. QED
      BY <1>0, <1>3, <2>1, <2>2, <2>3
  <1>6. CASE Co!Pump
    <2>. DEFINE k == Co!ReadKey(Head(console_input))
                q == console_keys.queue
    <2>1. console_pump = "reading" /\ console_input # <<>> /\ console_input' = Tail(console_input)
      BY <1>6, Zenon DEF Co!Pump
    <2>2. /\ console_input' = <<>> /\ Head(console_input) \in Keystrokes /\ Head(console_input) = console_input[1]
          /\ 1 \in DOMAIN console_input
      BY <1>0, <2>1
    <2>3. k \in Pressed
      BY <2>2 DEF Pressed
    <2>4. k = Co!Digit => q = <<>> /\ console_reader = "secret"
      <3>1. k = Co!Digit => console_input[1] = Co!Digit
        BY <2>2, ReadChars
      <3>2. QED
        BY <2>1, <2>2, <3>1 DEF ConsoleInv, WaitingOK
    <2>. HIDE DEF k
    <2>5. \/ console_pump' = "over" /\ console_keys' = [console_keys EXCEPT !.closed = TRUE]
          \/ console_pump' = console_pump /\ console_keys' = console_keys
          \/ console_pump' = console_pump /\ Co!Hand(k)
      BY <1>6, Zenon DEF Co!Pump, k
    <2>6. CASE console_pump' = "over" /\ console_keys' = [console_keys EXCEPT !.closed = TRUE]
      <3>1. console_keys' \in [queue : Seq(Pressed), closed : BOOLEAN] /\ console_keys'.queue = q
        BY <1>0, <2>6
      <3>2. WaitingOK'
        BY <1>1, <2>2, <2>6, <3>1 DEF ConsoleInv, WaitingOK
      <3>3. QED
        BY <1>0, <1>3, <2>2, <2>6, <3>1, <3>2
    <2>7. CASE console_pump' = console_pump /\ console_keys' = console_keys
      <3>1. WaitingOK'
        BY <1>1, <2>2, <2>7 DEF ConsoleInv, WaitingOK
      <3>2. QED
        BY <1>0, <1>3, <2>1, <2>2, <2>7, <3>1
    <2>8. CASE console_pump' = console_pump /\ Co!Hand(k)
      <3>. DEFINE n == IF Len(q) < Backlog THEN Append(q, k) ELSE q
      <3>1. console_keys' = [console_keys EXCEPT !.queue = n]
        BY <2>8, Zenon DEF Co!Hand
      <3>2. /\ \A i \in DOMAIN q : q[i] = Co!Digit => i = 1 /\ console_reader = "secret"
            /\ console_keys.closed = TRUE => console_pump = "over"
        BY DEF ConsoleInv, WaitingOK
      <3>3. q \in Seq(Pressed) /\ Len(q) <= Backlog
        BY <1>0
      <3>. HIDE DEF q
      <3>4. /\ n \in Seq(Pressed) /\ Len(n) <= Backlog
            /\ \A i \in DOMAIN n : n[i] = Co!Digit => i = 1 /\ console_reader = "secret"
        <4>1. CASE Len(q) < Backlog
          <5>1. n = Append(q, k) /\ Len(q) \in Nat /\ DOMAIN q = 1 .. Len(q)
            BY <3>3, <4>1
          <5>2. /\ Append(q, k) \in Seq(Pressed) /\ Len(Append(q, k)) = Len(q) + 1
                /\ DOMAIN Append(q, k) = 1 .. Len(q) + 1
                /\ \A i \in 1 .. Len(q) : Append(q, k)[i] = q[i]
                /\ Append(q, k)[Len(q) + 1] = k
            BY <2>3, <3>3
          <5>. HIDE DEF n
          <5>3. n \in Seq(Pressed) /\ Len(n) <= Backlog
            BY <1>0, <4>1, <5>1, <5>2
          <5>4. ASSUME NEW i \in DOMAIN n, n[i] = Co!Digit PROVE i = 1 /\ console_reader = "secret"
            <6>1. CASE i \in 1 .. Len(q)
              BY <3>2, <5>1, <5>2, <5>4, <6>1
            <6>2. CASE i = Len(q) + 1
              <7>1. q = <<>> /\ console_reader = "secret"
                BY <2>4, <5>1, <5>2, <5>4, <6>2
              <7>2. Len(q) = 0
                BY <7>1
              <7>3. QED
                BY <6>2, <7>1, <7>2
            <6>3. QED
              BY <5>1, <5>2, <6>1, <6>2
          <5>5. QED
            BY <5>3, <5>4
        <4>2. CASE ~(Len(q) < Backlog)
          BY <3>2, <3>3, <4>2
        <4>3. QED
          BY <4>1, <4>2
      <3>. HIDE DEF n
      <3>5. /\ console_keys' \in [queue : Seq(Pressed), closed : BOOLEAN] /\ console_keys'.queue = n
            /\ console_keys'.closed = console_keys.closed
        BY <1>0, <3>1, <3>4
      <3>6. WaitingOK'
        BY <1>1, <2>1, <2>2, <2>8, <3>2, <3>4, <3>5 DEF WaitingOK
      <3>7. Len(console_keys'.queue) <= Backlog
        BY <3>4, <3>5
      <3>8. console_pump' \in {"reading", "over"} /\ (console_pump' = "reading" => console_pump = "reading")
        BY <2>1, <2>8
      <3>9. console_input' \in Seq(Keystrokes) /\ Len(console_input') <= 1
        BY <2>2
      <3>10. QED
        BY <1>3, <3>5, <3>6, <3>7, <3>8, <3>9, Zenon
    <2>9. QED
      BY <2>5, <2>6, <2>7, <2>8
  <1>7. QED
    BY <1>4, <1>5, <1>6

LEMMA ReaderStep ==
  ASSUME ConsoleInv, Co!ApplyKey \/ Co!Submit \/ Co!SubmitSecret \/ Co!EOF PROVE ConsoleInv'
  <1>0. /\ console_line \in Lines(Co!Chars) /\ Fits(console_line)
        /\ console_reader \in {"line", "secret"}
        /\ console_keys.queue # <<>> /\ console_keys' = [console_keys EXCEPT !.queue = Tail(@)]
        /\ console_input' = console_input /\ console_pump' = console_pump
    <2>1. console_line \in Lines(Co!Chars) /\ Fits(console_line)
      BY DEF ConsoleInv, ConsoleTyped
    <2>2. /\ console_reader \in {"line", "secret"}
          /\ console_keys.queue # <<>> /\ console_keys' = [console_keys EXCEPT !.queue = Tail(@)]
          /\ console_input' = console_input /\ console_pump' = console_pump
      BY Zenon DEF Co!ApplyKey, Co!Submit, Co!SubmitSecret, Co!EOF, Co!Reading
    <2>3. QED
      BY <2>1, <2>2
  <1>1. /\ console_keys' \in [queue : Seq(Pressed), closed : BOOLEAN]
        /\ Len(console_keys'.queue) <= Backlog /\ console_keys'.closed = console_keys.closed
        /\ \A i \in DOMAIN console_keys'.queue : console_keys'.queue[i] # Co!Digit
        /\ Head(console_keys.queue) = Co!Digit => console_reader = "secret"
        /\ \A i \in DOMAIN console_input : console_input[i] = Co!Digit => console_pump = "over"
    BY <1>0, HeadIsTaken
  <1>2. WaitingOK'
    <2>1. console_keys.closed = TRUE => console_pump = "over"
      BY DEF ConsoleInv, WaitingOK
    <2>2. console_keys'.closed = TRUE => console_pump' = "over"
      BY <1>0, <1>1, <2>1
    <2>3. \A i \in DOMAIN console_keys'.queue : console_keys'.queue[i] = Co!Digit =>
            i = 1 /\ console_reader' = "secret"
      BY <1>1, Zenon
    <2>4. \A i \in DOMAIN console_input' : console_input'[i] = Co!Digit => console_pump' = "over"
      BY <1>0, <1>1, Zenon
    <2>5. QED
      BY <2>2, <2>3, <2>4 DEF WaitingOK
  <1>3. ASSUME console_line' \in Lines(Co!Chars), Fits(console_line'),
               console_row' = [text |-> console_line'.buf, masked |-> console_line'.masked],
               console_reader' \in {"line", "secret", "running", "unmask", "gone", "over"},
               console_log' \in Seq(Plain), MaskedOK', OpenOK'
        PROVE  ConsoleInv'
    <2>1. /\ console_input' \in Seq(Keystrokes) /\ Len(console_input') <= 1
          /\ console_pump' \in {"reading", "over"}
      BY <1>0, Zenon DEF ConsoleInv, ConsoleTyped
    <2>2. ConsoleTyped'
      BY <1>1, <1>3, <2>1, Zenon DEF ConsoleTyped
    <2>3. QED
      BY <1>2, <1>3, <2>2, Zenon DEF ConsoleInv
  <1>4. console_log \in Seq(Plain)
    BY DEF ConsoleInv, ConsoleTyped
  <1>5. /\ console_reader = "line" => console_line.masked = FALSE /\ console_line \in Lines(Plain)
        /\ console_reader = "secret" => console_line.masked = TRUE
    BY DEF ConsoleInv, MaskedOK, Masking, OpenOK
  <1>6. CASE Co!ApplyKey
    <2>. DEFINE k == Head(console_keys.queue)
    <2>1. /\ console_line' = Co!Apply(console_line, k)
          /\ console_row' = [text |-> console_line'.buf, masked |-> console_line'.masked]
          /\ console_reader' = console_reader /\ console_log' = console_log
      BY <1>6, Zenon DEF Co!ApplyKey, Co!DrawPrompt
    <2>2. Plain \subseteq Co!Chars
      BY DEF Plain
    <2>. HIDE DEF k
    <2>3. console_line' \in Lines(Co!Chars) /\ Fits(console_line') /\ console_line'.masked = console_line.masked
      <3>1. Walked(console_line, Co!Apply(console_line, k))
            /\ Co!Apply(console_line, k) \in Lines(Co!Chars) /\ Fits(Co!Apply(console_line, k))
        BY <1>0, <2>2, ApplyIs
      <3>2. QED
        BY <2>1, <3>1, Zenon DEF Walked
    <2>4. console_reader = "line" => console_line' \in Lines(Plain)
      <3>1. SUFFICES ASSUME console_reader = "line" PROVE Co!Apply(console_line, k) \in Lines(Plain)
        BY <2>1
      <3>2. k # Co!Digit /\ console_line \in Lines(Plain)
        BY <1>1, <1>5, <3>1 DEF k
      <3>3. k \in Co!Chars => k \in Plain
        BY <3>2 DEF Plain
      <3>4. QED
        BY <1>0, <3>2, <3>3, ApplyIs
    <2>5. MaskedOK'
      BY <1>0, <1>5, <2>1, <2>3 DEF MaskedOK, Masking
    <2>6. OpenOK'
      BY <1>0, <2>1, <2>4 DEF OpenOK
    <2>7. QED
      BY <1>0, <1>3, <1>4, <2>1, <2>3, <2>5, <2>6
  <1>7. CASE Co!Submit \/ Co!SubmitSecret
    <2>1. /\ console_line' = Co!Take(console_line)
          /\ console_row' = [text |-> console_line'.buf, masked |-> console_line'.masked]
      BY <1>7, Zenon DEF Co!Submit, Co!SubmitSecret, Co!DrawPrompt
    <2>2. \/ /\ console_reader = "line" /\ console_reader' \in {"line", "running"}
             /\ console_log' \in {console_log, console_line.buf}
          \/ console_reader = "secret" /\ console_reader' = "unmask" /\ console_log' = console_log
      BY <1>7, Zenon DEF Co!Submit, Co!SubmitSecret
    <2>3. console_line.masked = FALSE => console_line.buf \in Seq(Plain)
      BY <1>0, <1>5 DEF Lines
    <2>4. console_line' \in Lines(Plain) /\ Fits(console_line') /\ console_line'.masked = console_line.masked
      BY <1>0, <2>1, <2>3, TakeIs
    <2>5. console_line' \in Lines(Co!Chars)
      BY <2>4, PlainLines
    <2>6. console_log' \in Seq(Plain)
      BY <1>4, <1>5, <2>2, <2>3
    <2>7. MaskedOK'
      BY <1>5, <2>2, <2>4 DEF MaskedOK, Masking
    <2>8. OpenOK'
      BY <2>2, <2>4 DEF OpenOK
    <2>9. console_reader' \in {"line", "secret", "running", "unmask", "gone", "over"}
      BY <2>2
    <2>10. QED
      BY <1>3, <2>1, <2>4, <2>5, <2>6, <2>7, <2>8, <2>9
  <1>8. CASE Co!EOF
    <2>1. /\ console_line.buf = <<>> /\ UNCHANGED <<console_line, console_row, console_log>>
          /\ console_reader' = IF console_reader = "secret" THEN "gone" ELSE "over"
      BY <1>8, Zenon DEF Co!EOF, Co!EndOfFile
    <2>2. MaskedOK'
      <3>1. CASE console_reader = "line"
        <4>1. console_line'.masked = FALSE /\ console_reader' = "over"
          BY <1>5, <2>1, <3>1
        <4>2. QED
          BY <4>1 DEF MaskedOK, Masking
      <3>2. CASE console_reader = "secret"
        <4>1. console_line'.masked = TRUE /\ console_reader' = "gone"
          BY <1>5, <2>1, <3>2
        <4>2. QED
          BY <4>1 DEF MaskedOK, Masking
      <3>3. QED
        BY <1>0, <3>1, <3>2
    <2>3. OpenOK'
      <3>1. console_reader' \in {"gone", "over"}
        BY <2>1
      <3>2. console_line'.buf = <<>>
        BY <2>1, Zenon
      <3>3. console_line'.buf \in Seq(Plain)
        BY <3>2
      <3>4. QED
        BY <3>1, <3>3 DEF OpenOK
    <2>4. console_row = [text |-> console_line.buf, masked |-> console_line.masked]
      BY DEF ConsoleInv, ConsoleTyped
    <2>5. QED
      BY <1>0, <1>3, <1>4, <2>1, <2>2, <2>3, <2>4
  <1>9. QED
    BY <1>6, <1>7, <1>8

LEMMA PromptStep ==
  ASSUME ConsoleInv, Co!Closed \/ Co!Unmask \/ Co!AskSecret \/ Co!Return PROVE ConsoleInv'
  <1>0. /\ console_line \in Lines(Co!Chars) /\ Fits(console_line)
        /\ console_row = [text |-> console_line.buf, masked |-> console_line.masked]
        /\ UNCHANGED <<console_input, console_pump, console_keys, console_log>>
    <2>1. /\ console_line \in Lines(Co!Chars) /\ Fits(console_line)
          /\ console_row = [text |-> console_line.buf, masked |-> console_line.masked]
      BY DEF ConsoleInv, ConsoleTyped
    <2>2. UNCHANGED <<console_input, console_pump, console_keys, console_log>>
      BY Zenon DEF Co!Closed, Co!Unmask, Co!AskSecret, Co!Return
    <2>3. QED
      BY <2>1, <2>2
  <1>1. WaitingOK'
    <2>1. console_reader = "secret" => Co!Closed
      BY DEF Co!Closed, Co!Unmask, Co!AskSecret, Co!Return
    <2>2. Co!Closed => console_keys.queue = <<>> /\ console_pump = "over"
      <3>1. Co!Closed => console_keys.queue = <<>> /\ console_keys.closed
        BY Zenon DEF Co!Closed
      <3>2. console_keys.closed \in BOOLEAN
        BY DEF ConsoleInv, ConsoleTyped
      <3>3. Co!Closed => console_keys.closed = TRUE
        BY <3>1, <3>2, Zenon
      <3>4. QED
        BY <3>1, <3>3, Zenon DEF ConsoleInv, WaitingOK
    <2>3. CASE Co!Closed
      <3>1. console_keys'.queue = <<>> /\ console_pump' = "over"
        BY <1>0, <2>2, <2>3
      <3>2. \A i \in DOMAIN console_keys'.queue : FALSE
        BY <3>1
      <3>3. QED
        BY <1>0, <3>1, <3>2 DEF WaitingOK
    <2>4. CASE ~Co!Closed
      BY <1>0, <2>1, <2>4 DEF ConsoleInv, WaitingOK
    <2>5. QED
      BY <2>3, <2>4
  <1>2. ASSUME console_line' \in Lines(Co!Chars), Fits(console_line'),
               console_row' = [text |-> console_line'.buf, masked |-> console_line'.masked],
               console_reader' \in {"line", "secret", "running", "unmask", "gone", "over"},
               MaskedOK', OpenOK'
        PROVE  ConsoleInv'
    <2>1. /\ console_input' \in Seq(Keystrokes) /\ Len(console_input') <= 1
          /\ console_pump' \in {"reading", "over"} /\ Len(console_keys'.queue) <= Backlog
          /\ console_keys' \in [queue : Seq(Pressed), closed : BOOLEAN] /\ console_log' \in Seq(Plain)
      BY <1>0, Zenon DEF ConsoleInv, ConsoleTyped
    <2>2. ConsoleTyped'
      BY <1>2, <2>1, Zenon DEF ConsoleTyped
    <2>3. QED
      BY <1>1, <1>2, <2>2, Zenon DEF ConsoleInv
  <1>3. /\ console_reader \in {"line", "running"} => console_line.masked = FALSE
        /\ console_reader \in {"secret", "unmask", "gone"} => console_line.masked = TRUE
        /\ console_reader \in {"line", "running", "unmask"} => console_line \in Lines(Plain)
        /\ console_reader = "gone" /\ console_pump = "reading" => console_line.buf \in Seq(Plain)
    BY DEF ConsoleInv, MaskedOK, Masking, OpenOK
  <1>4. CASE Co!Closed
    <2>1. /\ console_reader \in {"line", "secret"} /\ UNCHANGED <<console_line, console_row>>
          /\ console_reader' = IF console_reader = "secret" THEN "gone" ELSE "over"
      BY <1>4, Zenon DEF Co!Closed, Co!Reading
    <2>2. console_pump = "over"
      <3>1. console_keys.closed /\ console_keys.closed \in BOOLEAN
        BY <1>4, Zenon DEF Co!Closed, ConsoleInv, ConsoleTyped
      <3>2. console_keys.closed = TRUE
        BY <3>1, Zenon
      <3>3. QED
        BY <3>2, Zenon DEF ConsoleInv, WaitingOK
    <2>3. MaskedOK'
      BY <1>3, <2>1 DEF MaskedOK, Masking
    <2>4. OpenOK'
      BY <1>0, <2>1, <2>2 DEF OpenOK
    <2>5. QED
      BY <1>0, <1>2, <2>1, <2>3, <2>4
  <1>5. CASE Co!Unmask
    <2>1. /\ console_line' = [console_line EXCEPT !.masked = FALSE]
          /\ console_row' = [text |-> console_line'.buf, masked |-> console_line'.masked]
          /\ console_reader \in {"unmask", "gone"}
          /\ console_reader' = IF console_reader = "unmask" THEN "running" ELSE "over"
      BY <1>5, Zenon DEF Co!Unmask, Co!DrawPrompt
    <2>2. /\ console_line' \in Lines(Co!Chars) /\ Fits(console_line') /\ console_line'.buf = console_line.buf
          /\ console_line'.masked = FALSE
      BY <1>0, <2>1, MaskedLine
    <2>3. console_reader = "unmask" => console_line' \in Lines(Plain)
      BY <1>0, <1>3, <2>1, MaskedLine
    <2>4. MaskedOK'
      BY <2>1, <2>2 DEF MaskedOK, Masking
    <2>5. OpenOK'
      BY <1>0, <1>3, <2>1, <2>2, <2>3 DEF OpenOK
    <2>6. QED
      BY <1>2, <2>1, <2>2, <2>4, <2>5
  <1>6. CASE Co!AskSecret
    <2>1. /\ console_line' = [console_line EXCEPT !.masked = TRUE]
          /\ console_row' = [text |-> console_line'.buf, masked |-> console_line'.masked]
          /\ console_reader' = "secret"
      BY <1>6, Zenon DEF Co!AskSecret, Co!DrawPrompt
    <2>2. console_line' \in Lines(Co!Chars) /\ Fits(console_line') /\ console_line'.masked = TRUE
      BY <1>0, <2>1, MaskedLine
    <2>3. MaskedOK' /\ OpenOK'
      BY <2>1, <2>2 DEF MaskedOK, Masking, OpenOK
    <2>4. QED
      BY <1>2, <2>1, <2>2, <2>3
  <1>7. CASE Co!Return
    <2>1. console_reader = "running" /\ console_reader' = "line" /\ UNCHANGED <<console_line, console_row>>
      BY <1>7, Zenon DEF Co!Return
    <2>2. MaskedOK' /\ OpenOK'
      BY <1>3, <2>1 DEF MaskedOK, Masking, OpenOK
    <2>3. QED
      BY <1>0, <1>2, <2>1, <2>2
  <1>8. QED
    BY <1>4, <1>5, <1>6, <1>7

\* The inductive invariant of the console.
THEOREM ConsoleInvariant == Co!Spec => []ConsoleInv
  <1>0. Co!ConstantsOK
    BY LoopsConstants
  <1>1. ConsoleInv /\ [Co!Next]_Co!vars => ConsoleInv'
    <2>1. SUFFICES ASSUME ConsoleInv, [Co!Next]_Co!vars PROVE ConsoleInv'
      OBVIOUS
    <2>2. CASE Co!Next
      BY <2>1, <2>2, KeyboardStep, ReaderStep, PromptStep DEF Co!Next
    <2>3. CASE UNCHANGED Co!vars
      BY <2>1, <2>3 DEF ConsoleInv, ConsoleTyped, MaskedOK, OpenOK, WaitingOK, Co!vars
    <2>4. QED
      BY <2>1, <2>2, <2>3
  <1>2. QED
    BY <1>0, <1>1, ConsoleInit, PTL DEF Co!Spec

\* As long as there is a keyboard, no digit of the PIN is in the clear on the screen, in
\* the log, or among the lines the up arrow brings back.  (readSecret, take, read.)
THEOREM PinIsHidden == Co!Spec => []Co!PinStaysHidden
  <1>1. ConsoleInv => Co!PinStaysHidden
    <2>1. SUFFICES ASSUME ConsoleInv PROVE Co!PinStaysHidden
      OBVIOUS
    <2>2. ~Co!Has(console_log, Co!Digit)
      BY <2>1, NoDigit DEF ConsoleInv, ConsoleTyped
    <2>3. ASSUME NEW i \in DOMAIN console_line.history PROVE ~Co!Has(console_line.history[i], Co!Digit)
      <3>1. console_line.history \in Seq(Seq(Plain))
        BY <2>1 DEF ConsoleInv, ConsoleTyped, Lines
      <3>2. console_line.history[i] \in Seq(Plain)
        BY <3>1, ElementOfSeq
      <3>3. QED
        BY <3>2, NoDigit
    <2>4. Co!Has(console_row.text, Co!Digit) => console_row.masked \/ console_pump = "over"
      <3>1. console_row.text = console_line.buf /\ console_row.masked = console_line.masked
        BY <2>1 DEF ConsoleInv, ConsoleTyped
      <3>2. CASE console_line.masked = TRUE
        BY <3>1, <3>2, Zenon
      <3>3. CASE console_line.masked # TRUE
        <4>1. console_reader \in {"line", "running", "over"}
          BY <2>1, <3>3 DEF ConsoleInv, ConsoleTyped, MaskedOK, Masking
        <4>2. console_pump = "reading" => console_line.buf \in Seq(Plain)
          BY <2>1, <4>1 DEF ConsoleInv, OpenOK, Lines
        <4>3. console_pump \in {"reading", "over"}
          BY <2>1 DEF ConsoleInv, ConsoleTyped
        <4>4. QED
          BY <3>1, <4>2, <4>3, NoDigit
      <3>4. QED
        BY <3>2, <3>3
    <2>5. QED
      BY <2>2, <2>3, <2>4 DEF Co!PinStaysHidden
  <1>2. QED
    BY <1>1, ConsoleInvariant, PTL

\* A walk back and forward again ends with the line it began with, and what was entered
\* stays as it was.  (walk, take.)
THEOREM DraftsComeBack == Co!Spec => Co!DraftComesBack
  <1>. DEFINE Keeps ==
         /\ \A i \in DOMAIN console_line.history : console_line'.history[i] = console_line.history[i]
         /\ Co!ApplyKey => /\ Co!WalkedBack /\ ~Co!WalkedBack' => console_line'.draft = console_line.buf
                           /\ ~Co!WalkedBack /\ ~Co!WalkedBack' => console_line'.draft = console_line.draft
                           /\ ~Co!WalkedBack /\ Co!WalkedBack' => console_line'.buf = console_line.draft
  <1>1. ConsoleInv /\ [Co!Next]_Co!vars => [Keeps]_Co!vars
    <2>1. SUFFICES ASSUME ConsoleInv, Co!Next PROVE Keeps
      OBVIOUS
    <2>2. console_line \in Lines(Co!Chars) /\ Fits(console_line)
      BY <2>1 DEF ConsoleInv, ConsoleTyped
    <2>3. CASE Co!ApplyKey
      <3>1. console_line' = Co!Apply(console_line, Head(console_keys.queue))
        BY <2>3, Zenon DEF Co!ApplyKey
      <3>2. Plain \subseteq Co!Chars
        BY DEF Plain
      <3>3. Walked(console_line, console_line')
        BY <2>2, <3>1, <3>2, ApplyIs
      <3>4. QED
        BY <3>3, Zenon DEF Walked, Co!WalkedBack
    <2>4. CASE Co!Submit \/ Co!SubmitSecret
      <3>1. console_line' = Co!Take(console_line) /\ console_reader \in {"line", "secret"}
            /\ (Co!Submit => console_reader = "line") /\ (Co!SubmitSecret => console_reader = "secret")
        BY <2>4, Zenon DEF Co!Submit, Co!SubmitSecret
      <3>2. console_line.masked = FALSE => console_line.buf \in Seq(Plain)
        BY <2>1, <3>1 DEF ConsoleInv, MaskedOK, Masking, OpenOK, Lines
      <3>3. \A i \in DOMAIN console_line.history : console_line'.history[i] = console_line.history[i]
        BY <2>2, <3>1, <3>2, TakeIs
      <3>4. ~Co!ApplyKey
        <4>1. Head(console_keys.queue) = "enter"
          BY <2>4, Zenon DEF Co!Submit, Co!SubmitSecret
        <4>2. QED
          BY <4>1, Zenon DEF Co!ApplyKey
      <3>5. QED
        BY <3>3, <3>4, Zenon
    <2>5. CASE ~Co!ApplyKey /\ ~Co!Submit /\ ~Co!SubmitSecret
      <3>1. console_line' = console_line \/ \E b \in BOOLEAN : console_line' = [console_line EXCEPT !.masked = b]
        <4>1. CASE Co!Press \/ Co!Pump \/ Co!PumpFails \/ Co!EOF \/ Co!Closed \/ Co!Return
          BY <4>1, Zenon DEF Co!Press, Co!Pump, Co!PumpFails, Co!EOF, Co!Closed, Co!Return
        <4>2. CASE Co!Unmask
          BY <4>2, Zenon DEF Co!Unmask
        <4>3. CASE Co!AskSecret
          BY <4>3, Zenon DEF Co!AskSecret
        <4>4. \/ Co!Press \/ Co!Pump \/ Co!PumpFails \/ Co!EOF \/ Co!Closed \/ Co!Return
              \/ Co!Unmask \/ Co!AskSecret
          BY <2>1, <2>5, Zenon DEF Co!Next
        <4>5. QED
          BY <4>1, <4>2, <4>3, <4>4, Zenon
      <3>2. CASE console_line' = console_line
        BY <2>5, <3>2, Zenon
      <3>3. CASE console_line' # console_line
        <4>1. PICK b \in BOOLEAN : console_line' = [console_line EXCEPT !.masked = b]
          BY <3>1, <3>3, Zenon
        <4>2. console_line'.history = console_line.history
          BY <2>2, <4>1, MaskedLine
        <4>3. QED
          BY <2>5, <4>2, Zenon
      <3>4. QED
        BY <3>2, <3>3
    <2>6. QED
      BY <2>3, <2>4, <2>5
  <1>2. QED
    BY <1>1, ConsoleInvariant, PTL DEF Co!Spec, Co!DraftComesBack

-----------------------------------------------------------------------------
(***************************************************************************)
(* The parts in one behaviour of the loops.                                *)
(***************************************************************************)
\* A behaviour is one of each of the parts, which starts as the part does and takes its
\* steps or none.
LEMMA PartsOfTheLoops ==
  AllSpec => Spec /\ Se!Spec /\ Si!Spec /\ Vo!Spec /\ Pl!Spec /\ Co!Spec /\ Li!Spec
  <1>1. AllInit => Init /\ Se!Init /\ Si!Init /\ Vo!Init /\ Pl!Init /\ Co!Init /\ Li!Init
    BY DEF AllInit
  <1>2. [AllNext]_all => [Next]_vars
    BY DEF AllNext, all
  <1>3. [AllNext]_all => [Se!Next]_Se!vars
    BY DEF AllNext, all, sensorsVars, Se!vars, Se!runs, Se!probe
  <1>4. [AllNext]_all => [Si!Next]_Si!vars
    BY DEF AllNext, all, sirenVars, Si!vars, Si!callers, Si!escalation
  <1>5. [AllNext]_all => [Vo!Next]_Vo!vars
    BY DEF AllNext, all, outputsVars, Vo!vars
  <1>6. [AllNext]_all => [Pl!Next]_Pl!vars
    BY DEF AllNext, all, playbackVars, Pl!vars
  <1>7. [AllNext]_all => [Li!Next]_Li!vars
    BY DEF AllNext, all, lidVars, Li!vars
  <1>8. [AllNext]_all => [Co!Next]_Co!vars
    BY DEF AllNext, all, consoleVars, Co!vars
  <1>9. QED
    BY <1>1, <1>2, <1>3, <1>4, <1>5, <1>6, <1>7, <1>8, PTL
       DEF AllSpec, Spec, Se!Spec, Si!Spec, Vo!Spec, Pl!Spec, Co!Spec, Li!Spec

\* However often the sensor is started, stopped, switched off and on, at most one of its
\* runs is not on its way out, and it is the one the manager can cancel.  (StartAll,
\* Disable, StopAll.)
THEOREM SoleWatcherHolds == AllSpec => []SoleWatcher
  <1>1. Se!SoleWatcher => SoleWatcher
    BY DEF SoleWatcher
  <1>2. QED
    BY <1>1, PartsOfTheLoops, OneRunIsWatching, PTL

\* A driver that reports its readiness is never shown as working without having had live
\* readings, whatever the runs before it still write.  (readySensor, record.)
THEOREM CoverageIsEarnedHolds == AllSpec => []CoverageIsEarned
  <1>1. Se!CoverageIsEarned => CoverageIsEarned
    BY DEF CoverageIsEarned
  <1>2. QED
    BY <1>1, PartsOfTheLoops, CoverageHasARun, PTL

\* What Stop puts back is the volume the owner chose, with one caller and a backend that
\* restores; and the backends' sets and restores leave on the one device they have touched
\* the level that was there.  (alarm.go: rememberVolume, Stop; volume_*.go.)
THEOREM VolumeIsTheOwnersHolds == ASSUME OneCaller PROVE AllSpec => []VolumeIsTheOwners
  <1>1. ConstantsOK /\ Vo!ConstantsOK
    BY LoopsConstants
  <1>2. AllSpec => []OwnersVolume
    BY <1>1, PartsOfTheLoops, OwnersVolumeHolds, PTL
  <1>3. AllSpec => []Vo!OwnersLevelBack
    BY <1>1, PartsOfTheLoops, OwnersLevelIsBack, PTL
  <1>4. OwnersVolume /\ Vo!OwnersLevelBack => VolumeIsTheOwners
    BY DEF VolumeIsTheOwners
  <1>5. QED
    BY <1>2, <1>3, <1>4, PTL

\* A siren that was stopped is silent and stays so, whichever of two callers stops it and
\* starts it again, unless the volume backend has panicked in a Stop.  (Alarm.Stop.)
THEOREM SirenObeysHolds == AllSpec => []SirenObeys
  <1>1. Si!ConstantsOK
    BY LoopsConstants
  <1>2. Si!OneOpenChannel /\ Si!QuietWhenStopped => SirenObeys
    BY DEF SirenObeys
  <1>3. QED
    BY <1>1, <1>2, PartsOfTheLoops, Si!QuietWhenStoppedHolds, PTL

\* The siren is heard in the order it was generated, whatever the device loses and
\* however its buffers come back, and the watch on the lid raises an alarm for every
\* closing it is told of.  (PlaySiren; LidSensor.Start.)
THEOREM NothingIsMisheardHolds == AllSpec => NothingIsMisheard
  BY PartsOfTheLoops, SoundIsHeardInOrder, ClosingsAreHeard DEF NothingIsMisheard

\* The PIN is on no screen and in no log as long as there is a keyboard, and no walk
\* through what was entered loses the line that was being typed.  (readSecret, take, walk.)
THEOREM ConsoleKeepsHolds == AllSpec => ConsoleKeeps
  BY PartsOfTheLoops, PinIsHidden, DraftsComeBack, PTL DEF ConsoleKeeps

\* What the levels are is OutputsInv's; a mute stays one.
LEMMA MutesAreTyped ==
  ASSUME Vo!ConstantsOK PROVE Vo!Spec => [](outputs_muted \in [Devices -> BOOLEAN])
  <1>. DEFINE Typed == outputs_muted \in [Devices -> BOOLEAN]
  <1>1. Vo!Init => Typed
    BY DEF Vo!Init
  <1>2. OutputsInv /\ Typed /\ [Vo!Next]_Vo!vars => Typed'
    <2>1. SUFFICES ASSUME OutputsInv, Typed, [Vo!Next]_Vo!vars PROVE Typed'
      OBVIOUS
    <2>2. outputs_default \in Devices
      BY <2>1 DEF OutputsInv, OutputsTyped
    <2>3. \/ outputs_muted' = outputs_muted
          \/ outputs_muted' = [outputs_muted EXCEPT ![outputs_default] = FALSE]
          \/ outputs_muted' = [outputs_muted EXCEPT ![outputs_default] = ~@]
      BY <2>1, Zenon DEF Vo!Next, Vo!MaxVolume, Vo!SetVolume, Vo!Raise, Vo!RaiseFails, Vo!Start,
                         Vo!RestoreVolume, Vo!Meddle, Vo!vars
    <2>4. QED
      BY <2>1, <2>2, <2>3
  <1>3. QED
    BY <1>1, <1>2, OutputsInvariant, PTL DEF Vo!Spec

\* Every part's variables have the values they are declared to have, its queues and
\* counters their bounds among them.
THEOREM TypesOKHolds == AllSpec => []TypesOK
  <1>1. Pl!ConstantsOK /\ Si!ConstantsOK /\ ConstantsOK /\ Vo!ConstantsOK /\ Li!ConstantsOK
    BY LoopsConstants
  <1>2. AllSpec => []TypeOK
    BY <1>1, PartsOfTheLoops, TypeCorrect, PTL
  <1>3. AllSpec => []Si!TypeOK
    BY <1>1, PartsOfTheLoops, Si!TypeCorrect, PTL
  <1>4. SensorsInv => Se!TypeOK
    BY DEF SensorsInv
  <1>5. OutputsInv /\ outputs_muted \in [Devices -> BOOLEAN] => Vo!TypeOK
    <2>1. SUFFICES ASSUME OutputsInv, outputs_muted \in [Devices -> BOOLEAN] PROVE Vo!TypeOK
      OBVIOUS
    <2>2. \A d \in Devices : outputs_level[d] \in 0 .. Steps[d] /\ outputs_muted[d] \in BOOLEAN
      BY <1>1, <2>1 DEF OutputsInv, OutputsTyped, Vo!ConstantsOK
    <2>3. outputs_saved # None => outputs_saved.at \in 0 .. outputs_saved.of
      BY <2>1 DEF OutputsInv, OutputsTyped, Fractions
    <2>4. QED
      BY <2>1, <2>2, <2>3 DEF OutputsInv, OutputsTyped, Vo!TypeOK
  <1>6. PlayInv => Pl!TypeOK
    <2>1. SUFFICES ASSUME PlayInv PROVE Pl!TypeOK
      OBVIOUS
    <2>2. playback_free \in 0 .. Buffers
      <3>1. playback_free \in Nat /\ Len(playback_queue) \in Nat
        BY <2>1 DEF PlayInv, PlayTyped
      <3>2. playback_os # "audioQueue" => playback_free = 0
        BY <2>1 DEF PlayInv, WritingOK
      <3>3. playback_os = "audioQueue" => Len(playback_queue) + playback_free <= Buffers
        BY <2>1, <3>1, PlayConstants DEF PlayInv, RotationOK
      <3>4. QED
        BY <3>1, <3>2, <3>3, PlayConstants
    <2>3. playback_heard \in 0 .. MaxChunks * Frames
      <3>1. /\ Generated \in Nat /\ AllFrames \in Nat /\ Generated <= AllFrames
            /\ playback_gen.pc = "write" => Generated + Frames <= AllFrames
        BY <2>1, Amounts DEF PlayInv
      <3>2. playback_gen.at \in Nat /\ playback_gen.at <= Frames /\ playback_heard \in Nat
        BY <2>1, PlayConstants DEF PlayInv, PlayTyped, Generator
      <3>3. playback_heard <= Generated \/ playback_heard <= Written
        BY <2>1 DEF PlayInv, FramesOK, BuffersOK
      <3>4. Written \in Nat /\ Written <= AllFrames
        BY <3>1, <3>2, PlayConstants DEF Written
      <3>5. playback_heard <= AllFrames
        BY <3>1, <3>2, <3>3, <3>4
      <3>6. QED
        BY <3>1, <3>2, <3>5 DEF AllFrames
    <2>4. /\ playback_gen.pc \in PlayPlaces
          /\ playback_gen.chunk \in 0 .. MaxChunks /\ playback_gen.next \in Pl!Slots /\ playback_gen.slot \in Pl!Slots
          /\ playback_gen.at \in 0 .. Frames /\ playback_gen.left \in 0 .. Recoveries
      BY <2>1 DEF PlayInv, PlayTyped, Generator
    <2>5. QED
      BY <2>2, <2>3, <2>4, Zenon DEF Pl!TypeOK, PlayPlaces
  <1>7. ConsoleInv => Co!TypeOK
    BY DEF ConsoleInv, ConsoleTyped, Lines, Fits, Co!TypeOK
  <1>8. LidInv => Li!TypeOK
    BY DEF LidInv, LidTyped
  <1>9. Vo!Spec => []OutputsInv /\ [](outputs_muted \in [Devices -> BOOLEAN])
    BY <1>1, OutputsInvariant, MutesAreTyped, PTL
  <1>10. QED
    BY <1>2, <1>3, <1>4, <1>5, <1>6, <1>7, <1>8, <1>9, PartsOfTheLoops, SensorsInvariant,
       PlayInvariant, ConsoleInvariant, LidInvariant, PTL DEF TypesOK
=============================================================================
