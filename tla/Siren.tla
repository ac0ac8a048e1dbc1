-------------------------------- MODULE Siren --------------------------------
(***************************************************************************)
(* The siren on the laptop (internal/alarm/alarm.go): Start, Stop, the     *)
(* goroutines they start and wait for, and the system volume they raise    *)
(* and put back.                                                           *)
(*                                                                         *)
(* Start and Stop are called from whichever goroutine raised or dismissed  *)
(* the alarm, so both may be running more than once.  Each Start makes a   *)
(* stop channel; a run is named by its number and its channel is closed    *)
(* when the number is in "closed".  The volume backends are outside the    *)
(* lock, and reach a driver that may fail or panic.                        *)
(*                                                                         *)
(* Left out: what the siren sounds like and how it is played.              *)
(***************************************************************************)
EXTENDS Naturals, Sequences

CONSTANTS
  Callers,   \* goroutines that call Start and Stop
  MaxRuns,   \* bound on the number of times the alarm is started
  Chains,    \* escalation chains configured; <<>> is escalation off
  Faults,    \* which volume calls may fail: "raise", "restore"
  Own,       \* volumes the owner may have set
  None

Actions == {"notify_phone_only", "medium_volume", "full_volume"}
Levels == [action : Actions, delayed : BOOLEAN]

\* What the constants have to be.
ConstantsOK == MaxRuns \in Nat /\ Chains \subseteq Seq(Levels) /\ None \notin Own \cup {"medium", "max"}

Runs == 1 .. MaxRuns
Volumes == Own \cup {"medium", "max"}

VARIABLES
  chain,    \* Alarm.alarmCfg, fixed when the program starts
  playing,  \* Alarm.playing
  run,      \* the number of the last run started; its channel is Alarm.stopCh
  closed,   \* runs whose stop channel is closed
  loops,    \* the count of Alarm.loops
  saved,    \* Alarm.savedVolume while volumeSaved, else None
  volume,   \* the system's volume
  owner,    \* history: the volume the owner last chose
  pc,       \* where each caller is in Start or Stop
  mine,     \* the run a caller's Start created
  carry,    \* the volume a caller has read
  esc,      \* where each run's escalation loop is
  level,    \* how many levels it has been through
  reading,  \* the volume it has read
  sirens,   \* how many siren loops each run has
  unwaited  \* history: a Stop has panicked before its wait since the last one began

callers == <<pc, mine, carry>>
escalation == <<esc, level, reading>>
vars == <<chain, playing, run, closed, loops, saved, volume, owner, callers,
          escalation, sirens, unwaited>>

TypeOK ==
  /\ chain \in Chains /\ playing \in BOOLEAN /\ unwaited \in BOOLEAN
  /\ run \in 0 .. MaxRuns /\ closed \subseteq 1 .. run
  /\ loops \in Nat /\ sirens \in [Runs -> Nat]
  /\ saved \in Volumes \cup {None} /\ volume \in Volumes /\ owner \in Own
  /\ pc \in [Callers -> {"idle", "spawn", "raise", "remember",
                         "restore", "wait", "waiting", "woken"}]
  /\ mine \in [Callers -> 0 .. MaxRuns]
  /\ carry \in [Callers -> Volumes \cup {None}]
  /\ esc \in [Runs -> {"none", "wait", "remember", "spawn", "ended"}]
  /\ level \in [Runs -> 0 .. Len(chain)]
  /\ reading \in [Runs -> Volumes \cup {None}]

Init ==
  /\ chain \in Chains
  /\ playing = FALSE /\ run = 0 /\ closed = {} /\ loops = 0 /\ saved = None
  /\ unwaited = FALSE
  /\ owner \in Own /\ volume = owner
  /\ pc = [c \in Callers |-> "idle"]
  /\ mine = [c \in Callers |-> 0]
  /\ carry = [c \in Callers |-> None]
  /\ esc = [r \in Runs |-> "none"]
  /\ level = [r \in Runs |-> 0]
  /\ reading = [r \in Runs |-> None]
  /\ sirens = [r \in Runs |-> 0]

Goto(c, from, to) == pc[c] = from /\ pc' = [pc EXCEPT ![c] = to]

\* loops.Done: the last one out wakes whoever is waiting in Stop.
Done ==
  /\ loops' = loops - 1
  /\ pc' = [c \in Callers |->
              IF pc[c] = "waiting" /\ loops = 1 THEN "woken" ELSE pc[c]]
  /\ UNCHANGED <<mine, carry>>

-----------------------------------------------------------------------------
(***************************************************************************)
(* Start.  A second Start while the alarm plays does nothing.              *)
(***************************************************************************)
\* Mutant: a Start that does not ask whether the alarm is playing.
StartAgain(c) ==
  /\ Goto(c, "idle", "spawn")
  /\ run < MaxRuns
  /\ playing' = TRUE
  /\ run' = run + 1
  /\ mine' = [mine EXCEPT ![c] = run + 1]
  /\ UNCHANGED <<chain, unwaited, closed, loops, saved, volume, owner, carry, escalation,
                 sirens>>

Start(c) ==
  /\ Goto(c, "idle", "spawn")
  /\ ~playing /\ run < MaxRuns
  /\ playing' = TRUE
  /\ run' = run + 1
  /\ mine' = [mine EXCEPT ![c] = run + 1]
  /\ UNCHANGED <<chain, unwaited, closed, loops, saved, volume, owner, carry, escalation,
                 sirens>>

\* spawn starts nothing once the alarm has stopped; it does not look at which
\* run is playing.
Spawn(c) ==
  /\ Goto(c, "spawn", IF chain = <<>> THEN "raise" ELSE "idle")
  /\ IF playing
     THEN /\ loops' = loops + 1
          /\ IF chain = <<>>
             THEN sirens' = [sirens EXCEPT ![mine[c]] = @ + 1] /\ UNCHANGED esc
             ELSE esc' = [esc EXCEPT ![mine[c]] = "wait"] /\ UNCHANGED sirens
     ELSE UNCHANGED <<loops, sirens, esc>>
  /\ mine' = [mine EXCEPT ![c] = 0]
  /\ UNCHANGED <<chain, unwaited, playing, run, closed, saved, volume, owner, carry,
                 level, reading>>

\* maxVolume, with the siren already going: a failure costs only the volume.
RaiseVolume(c) ==
  /\ \/ /\ Goto(c, "raise", "remember")
        /\ volume' = "max"
        /\ carry' = [carry EXCEPT ![c] = volume]
     \/ /\ "raise" \in Faults
        /\ Goto(c, "raise", "idle")
        /\ UNCHANGED <<volume, carry>>
  /\ UNCHANGED <<chain, unwaited, playing, run, closed, loops, saved, owner, mine,
                 escalation, sirens>>

RememberVolume(c) ==
  /\ Goto(c, "remember", "idle")
  /\ saved' = carry[c]
  /\ carry' = [carry EXCEPT ![c] = None]
  /\ UNCHANGED <<chain, unwaited, playing, run, closed, loops, volume, owner, mine,
                 escalation, sirens>>

(***************************************************************************)
(* Stop: the flag, the channel and the saved volume under the lock; then   *)
(* the volume, then the wait for every loop.                               *)
(***************************************************************************)
\* Mutant: what was read once is put back every time.
StopKeepsReading(c) ==
  /\ Goto(c, "idle", IF saved = None THEN "wait" ELSE "restore")
  /\ playing
  /\ playing' = FALSE /\ unwaited' = FALSE
  /\ closed' = closed \cup {run}
  /\ carry' = [carry EXCEPT ![c] = saved]
  /\ UNCHANGED <<chain, run, loops, saved, volume, owner, mine, escalation,
                 sirens>>

Stop(c) ==
  /\ Goto(c, "idle", IF saved = None THEN "wait" ELSE "restore")
  /\ playing
  /\ playing' = FALSE /\ unwaited' = FALSE
  /\ closed' = closed \cup {run}
  /\ carry' = [carry EXCEPT ![c] = saved]
  /\ saved' = None
  /\ UNCHANGED <<chain, run, loops, volume, owner, mine, escalation, sirens>>

\* The backend restores, or fails, which is logged; one that panics takes Stop with it,
\* past the wait, and the goroutine that dismissed the alarm recovers.
RestoreVolume(c) ==
  /\ \/ Goto(c, "restore", "wait") /\ UNCHANGED unwaited
     \/ "restore" \in Faults /\ Goto(c, "restore", "idle") /\ unwaited' = TRUE
  /\ volume' = carry[c] \/ ("restore" \in Faults /\ UNCHANGED volume)
  /\ carry' = [carry EXCEPT ![c] = None]
  /\ UNCHANGED <<chain, playing, run, closed, loops, saved, owner, mine,
                 escalation, sirens>>

\* Mutant: Stop asks the loops to finish and does not wait for them.
AskedToStop(c) ==
  /\ Goto(c, "wait", "idle")
  /\ UNCHANGED <<chain, unwaited, playing, run, closed, loops, saved, volume, owner, mine,
                 carry, escalation, sirens>>

\* loops.Wait: a waiter is woken by the count reaching zero, and panics if it
\* is no longer zero when it runs; fireAlarmDismiss recovers that.
Wait(c) ==
  /\ \/ Goto(c, "wait", IF loops = 0 THEN "idle" ELSE "waiting")
     \/ Goto(c, "woken", "idle")
  /\ UNCHANGED <<chain, unwaited, playing, run, closed, loops, saved, volume, owner, mine,
                 carry, escalation, sirens>>

-----------------------------------------------------------------------------
(***************************************************************************)
(* The escalation loop of run r.                                           *)
(***************************************************************************)
Action(r) == chain[level[r] + 1].action

\* The loop returns, or a backend's panic ends it: the goroutine recovers.
EndEscalation(r) ==
  /\ esc' = [esc EXCEPT ![r] = "ended"]
  /\ Done
  /\ UNCHANGED <<chain, unwaited, playing, run, closed, saved, volume, owner, level,
                 reading, sirens>>

NextLevel(r) ==
  /\ esc' = [esc EXCEPT ![r] = "wait"]
  /\ level' = [level EXCEPT ![r] = @ + 1]

\* waitForLevel sees the channel closed during a delay, or the alarm stopped
\* after it, or there is no level left.
GiveUp(r) ==
  /\ esc[r] = "wait"
  /\ \/ level[r] = Len(chain)
     \/ level[r] < Len(chain) /\ chain[level[r] + 1].delayed /\ r \in closed
     \/ ~playing
  /\ EndEscalation(r)

Notify(r) ==
  /\ esc[r] = "wait" /\ level[r] < Len(chain) /\ playing
  /\ Action(r) = "notify_phone_only"
  /\ NextLevel(r)
  /\ UNCHANGED <<chain, unwaited, playing, run, closed, loops, saved, volume, owner,
                 callers, reading, sirens>>

\* setVolume or maxVolume: done, refused with an error, or panicking.
Escalate(r) ==
  /\ esc[r] = "wait" /\ level[r] < Len(chain) /\ playing
  /\ Action(r) # "notify_phone_only"
  /\ \/ /\ volume' = IF Action(r) = "medium_volume" THEN "medium" ELSE "max"
        /\ reading' = [reading EXCEPT ![r] = volume]
        /\ esc' = [esc EXCEPT ![r] = "remember"]
        /\ UNCHANGED <<chain, unwaited, playing, run, closed, loops, saved, owner,
                       callers, level, sirens>>
     \/ /\ "raise" \in Faults
        /\ IF Action(r) = "medium_volume"
           THEN esc' = [esc EXCEPT ![r] = "spawn"] /\ UNCHANGED level
           ELSE NextLevel(r)
        /\ UNCHANGED <<chain, unwaited, playing, run, closed, loops, saved, volume, owner,
                       callers, reading, sirens>>
     \/ "raise" \in Faults /\ EndEscalation(r)

AfterRemembering(r) ==
  IF Action(r) = "medium_volume"
  THEN esc' = [esc EXCEPT ![r] = "spawn"] /\ UNCHANGED level
  ELSE NextLevel(r)

\* Mutant: every level records what it read.
RememberEvery(r) ==
  /\ esc[r] = "remember"
  /\ saved' = reading[r]
  /\ reading' = [reading EXCEPT ![r] = None]
  /\ AfterRemembering(r)
  /\ UNCHANGED <<chain, unwaited, playing, run, closed, loops, volume, owner, callers,
                 sirens>>

\* rememberVolume: only the first reading is kept.
RememberFirst(r) ==
  /\ esc[r] = "remember"
  /\ saved' = IF saved = None THEN reading[r] ELSE saved
  /\ reading' = [reading EXCEPT ![r] = None]
  /\ AfterRemembering(r)
  /\ UNCHANGED <<chain, unwaited, playing, run, closed, loops, volume, owner, callers,
                 sirens>>

\* Only the medium level starts a siren.
SpawnSiren(r) ==
  /\ esc[r] = "spawn"
  /\ IF playing
     THEN loops' = loops + 1 /\ sirens' = [sirens EXCEPT ![r] = @ + 1]
     ELSE UNCHANGED <<loops, sirens>>
  /\ NextLevel(r)
  /\ UNCHANGED <<chain, unwaited, playing, run, closed, saved, volume, owner, callers,
                 reading>>

EscalationStep(r) ==
  GiveUp(r) \/ Notify(r) \/ Escalate(r) \/ RememberFirst(r) \/ SpawnSiren(r)

\* Mutant: the loop watches the alarm's channel instead of its own run's.
WatchesTheField(r) ==
  /\ sirens[r] > 0 /\ run \in closed
  /\ sirens' = [sirens EXCEPT ![r] = @ - 1]
  /\ Done
  /\ UNCHANGED <<chain, unwaited, playing, run, closed, saved, volume, owner, escalation>>

\* A siren loop sees its channel closed, at the end of a tone.
SirenEnds(r) ==
  /\ sirens[r] > 0 /\ r \in closed
  /\ sirens' = [sirens EXCEPT ![r] = @ - 1]
  /\ Done
  /\ UNCHANGED <<chain, unwaited, playing, run, closed, saved, volume, owner, escalation>>

\* The owner changes the volume while the alarm is silent.
OwnerSets(v) ==
  /\ ~playing /\ loops = 0 /\ \A c \in Callers : pc[c] = "idle"
  /\ volume = owner /\ v # owner
  /\ volume' = v /\ owner' = v
  /\ UNCHANGED <<chain, unwaited, playing, run, closed, loops, saved, callers,
                 escalation, sirens>>

CallerStep(c) ==
  Spawn(c) \/ RaiseVolume(c) \/ RememberVolume(c) \/ RestoreVolume(c) \/ Wait(c)

Next ==
  \/ \E c \in Callers : Start(c) \/ Stop(c) \/ CallerStep(c)
  \/ \E r \in Runs : EscalationStep(r) \/ SirenEnds(r)
  \/ \E v \in Own : OwnerSets(v)

Spec == Init /\ [][Next]_vars

\* Goroutines are scheduled, delays end and tones are short; nobody has to
\* start or stop the alarm.
FairSpec ==
  /\ Spec
  /\ \A c \in Callers : WF_vars(CallerStep(c))
  /\ \A r \in Runs : WF_vars(EscalationStep(r)) /\ WF_vars(SirenEnds(r))

-----------------------------------------------------------------------------
Resting == \A c \in Callers : pc[c] = "idle"

\* Every channel is closed but the one of the run that is playing: no close is
\* made twice, and no run is left that nothing can stop.  (Start, Stop.)
OneOpenChannel == \A r \in 1 .. run : r \in closed <=> ~(playing /\ r = run)

\* When the alarm is off and every Stop has returned, nothing is making noise or
\* about to: that is the difference between "stopped" and "asked to stop".
\* (Stop, loops.)  Except where the volume backend has panicked in a Stop.
QuietWhenStopped == (~playing /\ Resting /\ ~unwaited) => loops = 0

\* No loop sounds past the end of its own run, however soon the next run
\* starts.  (sirenLoop, waitForLevel.)
LoopsEndWithTheirRun ==
  \A r \in Runs :
    (r \in closed) ~> (sirens[r] = 0 /\ esc[r] \in {"none", "ended"})

\* With one caller and no escalation, Stop puts back the volume the owner chose
\* last.  (startFullSiren, Stop.)
OwnersVolumeBack ==
  (chain = <<>> /\ ~playing /\ Resting /\ loops = 0) => volume = owner

\* Through the whole chain of the first run, and through every run without a
\* chain, what Stop would put back is the owner's volume and not one of the
\* alarm's own.  (rememberVolume.)
OwnersReadingKept ==
  (playing /\ saved # None /\ (run = 1 \/ chain = <<>>)) => saved = owner

\* Together: an alarm costs the owner the volume for as long as it sounds and no
\* longer.
OwnersVolume == OwnersVolumeBack /\ OwnersReadingKept

(***************************************************************************)
(* What the source says, and what the code does not keep.                  *)
(***************************************************************************)

\* "Stop stops the alarm and restores the previous volume level."
VolumeComesBack == (~playing /\ Resting /\ loops = 0) => volume = owner

\* A sounding alarm that has been through its chain is heard: a backend that
\* fails costs the restore, not the escalation.
AlarmIsHeard == (playing /\ Resting /\ esc[run] = "ended") => sirens[run] > 0

\* The count never grows between the wake of a waiting Stop and its return.
CountingIsSafe == \A c \in Callers : pc[c] = "woken" => loops = 0

\* Stop's wait is bounded by one tone.
StopReturns == \A c \in Callers : (pc[c] = "waiting") ~> (pc[c] # "waiting")
=============================================================================
