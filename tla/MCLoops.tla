------------------------------- MODULE MCLoops --------------------------------
\* The goroutines that loop until they are told to stop: a sensor's runs, the
\* siren and what plays it, the keyboard of the console and the watch on the lid.  They
\* share nothing, so a behaviour is one of them.
EXTENDS Siren

CONSTANTS
  Parts,   \* those TLC is to run, one to a behaviour
  SensorRuns, Kinds,                             \* Sensors
  Devices, Steps, Medium, MaxOwner, MaxFaults,   \* Volume
  Frames, Buffers, Recoveries, MaxChunks,        \* Playback
  Keystrokes, Backlog, MaxTyped, MaxFailures,    \* Console
  Room, MaxMoves                                 \* Lid

DefaultChain == <<[action |-> "notify_phone_only", delayed |-> FALSE],
                  [action |-> "medium_volume", delayed |-> TRUE],
                  [action |-> "full_volume", delayed |-> TRUE]>>

\* Without the level that makes no noise, one level waiting and one not.
ShortChain == <<[action |-> "medium_volume", delayed |-> TRUE],
                [action |-> "full_volume", delayed |-> FALSE]>>

TheChains == {<<>>, DefaultChain}

\* How many steps the volume of a device has.
FourSteps == [d \in Devices |-> 4]

Keyboard == {"letter", "space", "digit", "CR", "DEL", "^C", "^D", "ESC[A", "ESC[B", "^B", "^W"}

VARIABLES
  part,   \* the one this behaviour is of
  sensors_driver, sensors_enabled, sensors_current, sensors_started,
  sensors_cancelled, sensors_failure, sensors_pc, sensors_known, sensors_probing,
  siren_chain, siren_playing, siren_run, siren_closed, siren_loops, siren_saved,
  siren_volume, siren_owner, siren_pc, siren_mine, siren_carry, siren_esc,
  siren_level, siren_reading, siren_sirens, siren_unwaited,
  outputs_os, outputs_default, outputs_level, outputs_muted, outputs_todo,
  outputs_saved, outputs_owner, outputs_clean, outputs_touched, outputs_acts,
  outputs_faults,
  playback_os, playback_gen, playback_content, playback_hdr, playback_free,
  playback_queue, playback_heard, playback_stop,
  console_input, console_pump, console_keys, console_line, console_reader,
  console_row, console_log, console_count,
  lid_open, lid_pc, lid_reading, lid_events, lid_last, lid_subscribed, lid_moves,
  lid_closings, lid_alarms, lid_lost

Se == INSTANCE Sensors WITH
    MaxRuns <- SensorRuns, driver <- sensors_driver, enabled <- sensors_enabled,
    current <- sensors_current, started <- sensors_started,
    cancelled <- sensors_cancelled, failure <- sensors_failure, pc <- sensors_pc,
    known <- sensors_known, probing <- sensors_probing

Si == INSTANCE Siren_proofs WITH
    Callers <- {1, 2}, MaxRuns <- 2, Chains <- {<<>>, ShortChain},
    Faults <- {"raise", "restore"}, Own <- {"low"}, chain <- siren_chain,
    playing <- siren_playing, run <- siren_run, closed <- siren_closed,
    loops <- siren_loops, saved <- siren_saved, volume <- siren_volume,
    owner <- siren_owner, pc <- siren_pc, mine <- siren_mine, carry <- siren_carry,
    esc <- siren_esc, level <- siren_level, reading <- siren_reading,
    sirens <- siren_sirens, unwaited <- siren_unwaited

Vo == INSTANCE Volume WITH
    os <- outputs_os, default <- outputs_default, level <- outputs_level,
    muted <- outputs_muted, todo <- outputs_todo, saved <- outputs_saved,
    owner <- outputs_owner, clean <- outputs_clean, touched <- outputs_touched,
    acts <- outputs_acts, faults <- outputs_faults

Pl == INSTANCE Playback WITH
    os <- playback_os, gen <- playback_gen, content <- playback_content,
    hdr <- playback_hdr, free <- playback_free, queue <- playback_queue,
    heard <- playback_heard, stop <- playback_stop

Co == INSTANCE Console WITH
    input <- console_input, pump <- console_pump, keys <- console_keys,
    line <- console_line, reader <- console_reader, row <- console_row,
    log <- console_log, count <- console_count

Li == INSTANCE Lid WITH
    open <- lid_open, pc <- lid_pc, reading <- lid_reading, events <- lid_events,
    last <- lid_last, subscribed <- lid_subscribed, moves <- lid_moves,
    closings <- lid_closings, alarms <- lid_alarms, lost <- lid_lost

sensorsVars ==
  <<sensors_driver, sensors_enabled, sensors_current, sensors_started,
    sensors_cancelled, sensors_failure, sensors_pc, sensors_known, sensors_probing>>
sirenVars ==
  <<siren_chain, siren_playing, siren_run, siren_closed, siren_loops, siren_saved,
    siren_volume, siren_owner, siren_pc, siren_mine, siren_carry, siren_esc,
    siren_level, siren_reading, siren_sirens, siren_unwaited>>
outputsVars ==
  <<outputs_os, outputs_default, outputs_level, outputs_muted, outputs_todo,
    outputs_saved, outputs_owner, outputs_clean, outputs_touched, outputs_acts,
    outputs_faults>>
playbackVars ==
  <<playback_os, playback_gen, playback_content, playback_hdr, playback_free,
    playback_queue, playback_heard, playback_stop>>
consoleVars ==
  <<console_input, console_pump, console_keys, console_line, console_reader,
    console_row, console_log, console_count>>
lidVars ==
  <<lid_open, lid_pc, lid_reading, lid_events, lid_last, lid_subscribed, lid_moves,
    lid_closings, lid_alarms, lid_lost>>

all ==
  <<part, vars, sensorsVars, sirenVars, outputsVars, playbackVars, consoleVars,
    lidVars>>

\* The parts that do not run are in one of their initial states and stay there.
AllInit ==
  /\ part \in Parts
  /\ Init
  /\ part = "volume"
     \/ /\ chain = <<>>
        /\ owner = CHOOSE v \in Own : TRUE
  /\ Se!Init
  /\ part = "sensors" \/ sensors_driver = CHOOSE k \in Kinds : TRUE
  /\ Si!Init
  /\ part = "siren" \/ siren_chain = <<>>
  /\ Vo!Init
  /\ part = "outputs"
     \/ /\ outputs_os = "linux" /\ outputs_default = CHOOSE d \in Devices : TRUE
        /\ \A d \in DOMAIN outputs_muted : outputs_muted[d]
  /\ Pl!Init
  /\ part = "playback" \/ playback_os = "alsa"
  /\ Co!Init
  /\ Li!Init
  /\ part = "lid" \/ lid_open

AllNext ==
  /\ UNCHANGED part
  /\ IF part = "volume" THEN Next ELSE UNCHANGED vars
  /\ IF part = "sensors" THEN Se!Next ELSE UNCHANGED sensorsVars
  /\ IF part = "siren" THEN Si!Next ELSE UNCHANGED sirenVars
  /\ IF part = "outputs" THEN Vo!Next ELSE UNCHANGED outputsVars
  /\ IF part = "playback" THEN Pl!Next ELSE UNCHANGED playbackVars
  /\ IF part = "console" THEN Co!Next ELSE UNCHANGED consoleVars
  /\ IF part = "lid" THEN Li!Next ELSE UNCHANGED lidVars

AllSpec == AllInit /\ [][AllNext]_all

\* What each part assumes of its goroutines: see FairSpec of its module.
AllFairSpec ==
  /\ AllSpec
  /\ \A r \in Se!Runs : WF_sensorsVars(part = "sensors" /\ Se!Supervise(r) /\ UNCHANGED sensors_driver)
  /\ WF_sensorsVars(part = "sensors" /\ Se!ProbeEnds /\ UNCHANGED sensors_driver)
  /\ \A c \in {1, 2} : WF_sirenVars(part = "siren" /\ Si!CallerStep(c))
  /\ \A r \in {1, 2} : /\ WF_sirenVars(part = "siren" /\ Si!EscalationStep(r))
                       /\ WF_sirenVars(part = "siren" /\ Si!SirenEnds(r))
  /\ WF_playbackVars(part = "playback" /\ Pl!Generator)
  /\ WF_consoleVars(part = "console" /\ Co!Pump)
  /\ WF_lidVars(part = "lid" /\ Li!Subscribe)
  /\ WF_lidVars(part = "lid" /\ Li!Baseline)
  /\ SF_lidVars(part = "lid" /\ Li!TakeEvent)
  /\ SF_lidVars(part = "lid" /\ Li!Tick)
  /\ SF_lidVars(part = "lid" /\ Li!ReadAnswers)

-----------------------------------------------------------------------------
\* The state of every part is one its program can be in.
TypesOK ==
  /\ part = "volume" => TypeOK
  /\ part = "sensors" => Se!TypeOK
  /\ part = "siren" => Si!TypeOK
  /\ part = "outputs" => Vo!TypeOK
  /\ part = "playback" => Pl!TypeOK
  /\ part = "console" => Co!TypeOK
  /\ part = "lid" => Li!TypeOK

\* The theorems ask this of the constants of the parts.
ASSUME LoopsConstants ==
  /\ ConstantsOK /\ Si!ConstantsOK /\ Se!ConstantsOK /\ Vo!ConstantsOK
  /\ Pl!ConstantsOK /\ Co!ConstantsOK /\ Li!ConstantsOK

\* A run that was not cancelled is the one the manager has, and what the phones are told
\* of a sensor has a run to show for it.  (StartAll, Disable, record.)
SoleWatcher == Se!SoleWatcher
CoverageIsEarned == Se!CoverageIsEarned

\* A siren that was stopped is silent and stays so, whoever stops it and starts it
\* again, unless the volume backend panicked in a Stop.  (Alarm.Stop.)
SirenObeys == Si!OneOpenChannel /\ Si!QuietWhenStopped

\* The owner finds the volume where they left it: what Stop puts back is theirs
\* (alarm.go), and each system's backend sets the level it has read (volume_*.go).
VolumeIsTheOwners == OwnersVolume /\ Vo!OwnersLevelBack

\* What passes between two threads arrives as it was sent: the siren is heard in its
\* order (PlaySiren, and the devices of internal/audio), and no closing of the lid is
\* missed between two readings (LidSensor.Start).
NothingIsMisheard == Pl!HeardInOrder /\ Li!EveryClosingIsHeard

\* The console shows what it may and loses nothing.  (readSecret, walk.)
ConsoleKeeps == []Co!PinStaysHidden /\ Co!DraftComesBack

\* The loops go on and end as they should: a sensor's runs neither give up of themselves
\* nor go on when they were told not to (SuperviseRetry, Disable, StopAll); the loops of
\* a siren and the sound of it end once it is stopped (escalate, PlaySiren); the keyboard
\* is never deaf to an interrupt (pump); where the lid is comes to be known, whatever
\* notifications are lost (LidSensor.Start).
LoopsGoOn ==
  /\ part = "sensors" => Se!StillWatching /\ Se!StopsWhenAsked
  /\ part = "siren" => Si!LoopsEndWithTheirRun
  /\ part = "playback" => Pl!StopIsHeard
  /\ part = "console" => Co!InterruptQuits
  /\ part = "lid" => Li!KnowsTheLid
=============================================================================
