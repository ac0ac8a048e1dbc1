# LeaveSafe, in TLA+

LeaveSafe watches a laptop that has been left alone. A daemon on the laptop reads
sensors (charger, lid, USB, input, screen, network, power, motion), raises an alarm
when one of them reports, and is armed, answered and configured from phones over
WebSocket connections, or from its own console. This directory holds the models of
that daemon, the configurations that check them with TLC, and the proofs TLAPS checks.

Contents: [the system](#the-system) · [modules](#modules) · [runs](#runs) ·
[bounds](#bounds) · [fairness](#fairness) · [refinements](#refinements) ·
[proofs](#proofs) ·
[where the code and its documents disagree](#where-the-code-and-its-documents-disagree) ·
[not modelled](#not-modelled) · [plan](#plan)

## The system

One process, many goroutines, shared state under several locks, and a few small files.
Nearly everything that can go wrong does so *between* two critical sections: the code
holds a lock for the decision and carries the consequences out after it has let go,
because the consequences are slow (a tone that has to end, a key derivation, a write to
disk, a message to every phone).

| Component | State it keeps | Operations | What is hard about it | What makes it correct |
|---|---|---|---|---|
| **Hub, the watch** (`internal/ws/hub.go`) | `armed`, `activeAlarm`, `suppressedSensors`, `autoArmed` | Arm, Disarm, dismiss, pause, disable for good, configure, test; the dispatcher's claim of an alarm; auto-arm | every operation is five to eight separate sections; several phones, the dispatcher and the pauses' goroutines interleave | an alarm is raised once and answered once; an answer acts on its own alarm; an armed machine watches; the tracker follows the flag, and the file as soon as it can be written |
| **Siren** (`internal/alarm`) | `playing`, `stopCh`, the loops' WaitGroup, the remembered volume | Start, Stop, escalation | Stop waits for loops another goroutine may be starting; the volume is changed outside the lock | no loop outlives its run; the owner's volume comes back |
| **Volume backends** (`volume_linux/windows/darwin.go`) | the default device, its level and mute | read, raise, restore | the device changes under the alarm; a reading fails | what was read is what goes back |
| **Sound** (`internal/audio`) | buffers, headers, what the device took | PlaySiren on ALSA, waveOut, Audio Queue | short writes, recoveries, a device that is unplugged | the tone is heard in order; Stop is heard |
| **Auth manager** (`internal/auth`) | records by address, sessions by token, the key | Authenticate, CheckPin, Regenerate, RemoveSession, sweeps | a bounded table under attack from many addresses, two clocks | guesses are rationed; a lockout is for one's own guesses and the last thing to be forgotten |
| **Hub, connections** (`hub.go`, `pending.go`, `client.go`) | `clients`, unpaired slots, each client's token | accept, pair, pair again, leave, heartbeat, follow-up of a departure | a slot and a session each have several owners at different times | no slot lost or given back twice; no session with nobody; nobody outstays a session |
| **Handshake, sealed sessions** (`handshake.go`, `session.go`, `client.go`) | nonces, the session of each end, two counters per connection | hello, auth, refuse, accept and seal, seal, open; broadcasts beside them | broadcasts and a rotation between the steps of a pairing; the switch from clear to sealed | a message is taken once, in order, from the other end; both ends mean each other |
| **Sensor manager** (`internal/monitor/manager.go`, `availability.go`, `internal/safe`) | `enabled`, `cancels`, `failures`, probe cache | Enable, Disable, StartEnabled, StopAll, the supervised run | a cancelled run lives on until its driver notices | one live run per sensor; "working" is only said of one that is; runs end when asked and otherwise come back |
| **Detectors** (`internal/monitor`) | the last reading, a count of ticks, the motion detector, the lid's notifications | poll, deviceWatch, activityWatch, motion loop, lid loop | readings that fail, loops restarted in the middle of a watch, notifications lost or early | an alert for each event, once, and none for what is none |
| **Rotating files, event history** (`internal/rotate`, `internal/eventlog`) | live file, generations, open handle | Write, rotate, Close, Open; ReadLast | five system calls per rotation, crash anywhere, a reader without the lock | the files are the end of the history, in order |
| **Log sink** (`internal/logsink`) | a queue of lines, a count of those dropped | Write, drain, Close | the queue is full while it is being closed | what is missing is known to be missing |
| **Settings** (`hub.go`, `internal/config`) | the config in memory and on disk, and the copies the hub and the manager act on | update_config, configure, reset_config, PIN disarm with hash upgrade; Validate, Load, Save | one message changes four places one after the other; `omitempty` | the places agree, the file as soon as it can be written; a guarded PIN is changed by whoever has shown it; a restart keeps what was chosen |
| **Start, stop, crash** (`cmd/leavesafe/startup.go`, `internal/state`, `internal/endpoint`, `auth/keyfile.go`) | `state.json`, the endpoint file, the key file | startApp, shutdown, restore, report | killed anywhere, any number of times | an interrupted watch is resumed or reported; port and key are kept |
| **Replacing a file** (five writers) | temporary file, the file | create, write, sync, close, rename | two saves at once, a failing step, a crash, no power | the file is old or new |
| **Location tracker** (`internal/location`) | anchor, last fix, the phone's fix, the loop's context | Start, Stop, refresh, AnchorHere | a lookup in flight over a Stop | what is shown is usable and true; moved means moved |
| **Push** (`internal/push`, `web/src/lib/pushalerts.ts`) | the signing key, subscriptions and their file | Subscribe, Notify, drop | a late "gone" against a new subscription; one slow service | a phone that subscribed last is told |
| **Update check** (`internal/update`) | the ledger | Run, the console's check | two writers, one file, no lock, restarts | a release is announced, and not again; the server is not hammered |
| **Pairing codes** (`internal/paircode`, `internal/server`, `main.go`) | key, port, addresses, what is on screen | Encode, Decode, URLs, rekeyQR, SetAddresses | the machine changes networks, the key is rotated while shown | a code typed or scanned says what it was made of |
| **Console** (`input.go`, `main.go`, `layout.go`, `terminal.go`, `resize.go`, `suspend_unix.go`) | the line, its history, the screen's regions, the terminal's mode | pump, applyKey, readSecret, paint, log line, resize, suspend, shutdown | several goroutines draw on one terminal | the PIN is not drawn, typing is undisturbed, the terminal is given back |

How they interact: a sensor's driver sends an *alert* down one channel; the hub's
dispatcher reads it, applies the auto-arm rule, and if the machine is armed and no alarm
is active *claims* one, starts the siren (a callback into `internal/alarm`) and writes to
every phone and push subscription. A phone's read loop runs its message to the end before
reading the next, so each connection is one actor; the console is one more. Arming writes
the state file, then tells the sensor manager, then the tracker. Every operation logs to
the event history and through the log sink. Settings messages go to the config, then to
the file, the hub's copies and the manager.

## Modules

Each specification keeps the code's names: an action is a lock section, a system call or
a wait, named after the function it is in; `pc` (or `step`, `at`) says where a goroutine
is. Definitions whose comment begins with "Mutant" (a dropped guard, a step in the wrong
place) are used by no specification: they are the plausible bugs each property has been
seen to catch.

| Module | Models | State, and the code it is |
|---|---|---|
| `AlarmLedger` | abstract: an alarm is raised, handed to one answer, answered | `alarm` is the alarm that sounds, `permit` the alarms handed out for an answer; no locks, no goroutines |
| `Watch` | the hub's watch, one action per section of `Arm`, `Disarm`, `clearAlarm`, `dismissAlarm`, `pauseAlarmSensor`, `unpauseSensor`, `disableAlarmSensor`, `handleConfigure`, `RunAlertDispatcher`, `dispatchAlert`, `claimAlarm`, `TriggerSensorTest` | `armed` = `Hub.armed`, `stored` = the state file, `unsaved` whether its last save failed (`Persist`: there may be no store, and a failure is only logged), `alarm` = `Hub.activeAlarm`, `enabled`/`running` = the manager's maps, `siren`, `tracking`, `quiet` = the grace period, `queue` = the alert channel |
| `Siren` | `Alarm.Start`, `Stop`, `startFullSiren`, the loops, the escalation | `playing`, runs and their closed channels, the WaitGroup's count, the volume and what is remembered of it; `unwaited`, whether a backend that panicked in a Stop has taken its wait with it |
| `Volume` | the three volume backends under the calls `Siren` makes | devices with a level and a mute each, the default one, what was `saved`, and what the `owner` had |
| `Playback` | `PlaySiren`'s generator and the three audio devices | headers and buffers, the frames in them, what was `heard`, the stop channel |
| `Lockout` | `Authenticate`, `CheckPin`, `record`, `evictLocked`, `Regenerate` | a clock, `table` = `Manager.byAddr`, and the history of guesses |
| `Connections` | `HandleConnection`, `handleAuth`, `removeClient`, `sessionStillLive`, `dropExpiredSessions`, `RunHeartbeat`, `pendingConns` | `total`, `byAddr`, `clients`, `sessions`, each client's `token` |
| `SealedChannel` | abstract: what one end hears is what the other said, in order, once | `said` and `heard` per conversation and end |
| `Handshake` | `greet`, `handleAuth` step by step, `acceptAndSeal`, `session.seal` and `open`, broadcasts, `Regenerate`; the phone's half as the clients of the repository have it | the generation of the key, a `session` and two counters per end, the two directions of the `wire`, everything ever on the `air` (a repetition comes from there), `job` = handleAuth's locals |
| `Sensors` | `Manager` and `SuperviseRetry` over one driver | `enabled`, `cancels`, `failures`, the runs, the probe |
| `Detectors` | `poll`, `stateWatch`, the device and profile watches, `activityWatch` | `last`, the count of active readings, everything `seen` and everything `raised` |
| `Motion` | `MotionSensor.Start`, its session and detector | the accelerometer's numbered readings, the run of each watch, the detector they share |
| `Lid` | the macOS lid: notifications beside readings | the queue of notifications, `last`, closings and alarms |
| `Rotate` | `rotate.Writer` and what the system calls leave on disk | the files as sequences of records, `handle`, `size` |
| `EventLog` | `readLast` beside a `Rotate` writer | the reader's place, the generations it has found |
| `Sink` | `logsink` | `queue`, `dropped`, the line that is `held`, what came `out` |
| `Settings` | `applyConfigUpdate`, `handleResetConfig`, `handleConfigure`, `DisarmWithPin`, `upgradePinHash` | `cfg`, `disk`, `guard`, `watching`, and what each handler carries out of the lock; a save may fail (`Write`), which is logged and otherwise passed over, and `unsaved` remembers whether the last one did |
| `ConfigFile` | `Validate`, `Load`, `Save`, `applyServerSettings`, `applyGeolocateURL`, what a start hands out | the file's fields (or their absence), `cfg`, and the values the program is `running` with. A message is the config the phone was shown with one change and perhaps a key (`Message`); the key is stored whether or not the endpoint beside it is taken |
| `Restart` | `startApp`, `RestoreArmed`, `reportInterruptedMonitoring`, the port, the key file, `shutdown`, a crash between any two steps | what is on disk (`state`, `endpoint`, `keyFile`), the `step` of the start or stop, what this `run` believes, what the `owner` was told |
| `WholeFile` | abstract: a file is always one of the values that were saved | `file`, the saves under way |
| `Replace` | the five writers, system call by system call | each saver's `pc`, its temporary file, the `file` and what the disk has of it |
| `Tracker` | `Tracker.Start`, `Stop`, `run`, `refresh`, `AnchorHere`, `Best`, `Moved` | the `runs` with their contexts, anchor and fix, the phone's fix, where the `machine` is |
| `Push` | `LoadOrCreateVAPID`, the store, `PushAlert`'s round, the page's subscription | `disk`, the `laptop`'s copy, the `browser`'s subscription and what it has `offered`, the rounds |
| `Updates` | `Watcher.Run`, the ledger, the console's check | the `world` (clock, releases), `w` = the watcher's goroutine, `asked` = the console's, with the channel it read before its query, the ledger in memory and on disk |
| `PairCode`, `Pairing` | `paircode.Encode` and `Decode`; the codes on screen, the port, the addresses | the network and key there are, those on the status bar, those typed and handed out |
| `Console` | `pump`, `applyKey`, `readLine`, `readSecret`, the history | the keys waiting, the line, its reader, the row drawn |
| `Layout`, `Window` | `computeLayout` and its placements; a window that is dragged | rows and columns |
| `Screen` | `statusBar`'s draws, `reportLog`, resize, Ctrl+Z, the ends of the program | the terminal (its screen, margins, cursor, mode), the bar, who is in the middle of what |
| `MCWatch`, `MCSettings` | the constants of `Watch` and `Settings` | |
| `MCNet`, `MCLoops`, `MCFiles`, `MCRules` | one run for several modules, see below: one of them extended (`Connections`, `Siren`, `Replace`, `Lockout`), the others instances | `part`, and each module's variables, an instance's with its part before them (`push_disk`, `tracker_run`, `outputs_level`) |
| `Watch_proofs`, `Handshake_proofs`, `Siren_proofs`, `Settings_proofs` | theorems about the module they are named after | |
| `Net_proofs`, `Loops_proofs`, `Files_proofs`, `Rules_proofs` | theorems about the parts of the `MC` module they extend, and from them about its runs: `Connections` and `Handshake`; `Siren`, `Volume`, `Playback`, `Sensors`, `Lid` and `Console`; `Replace`, `Rotate` and `EventLog`, `Restart`, `Updates`, `Push`, `Sink` and `ConfigFile`; `Lockout`, `Tracker`, `Motion`, `Detectors`, `Screen`, `Window` and `Pairing` | |

`Watch` treats the siren as one flag and a sensor as running or not; `Siren` and `Sensors`
are those two in full, `Volume` and `Playback` what `Siren`'s two calls do, `Detectors`,
`Motion` and `Lid` what makes a run of `Sensors` report. `EventLog` extends `Rotate`: its
steps are the writer's steps and the reader's. `Pairing` extends `PairCode`, `Window` and
`Screen` extend `Layout`.

## Runs

Twelve runs. Four of them take several modules each: in `MCNet`, `MCLoops`, `MCFiles` and
`MCRules` a behaviour is of one `part`, chosen at the start, and the variables of the
other parts stay in an initial state. The parts of one run share no state in the code
either (or only what the models already give to their environment), so interleaving them
would multiply states and show nothing; what does share state (the phones of `Watch`, the
reader and writer of `EventLog`, the broadcasts of `Handshake`) interleaves inside its
part. A property of such a run is a conjunction of the parts' own, named where it is
stated; `Parts = {"push"}` in a copy of the configuration runs one part alone.

| Run | Question | Result |
|---|---|---|
| `watch_answers` | Two phones arm, switch off sensors and answer the same alarms while the dispatcher raises them and the screen lock arms: is each alarm answered once (`AlarmIsOneEvent`), and is a sensor switched off only by an answer to its own alarm (`SwitchOffIsAnAnswer`)? | holds |
| `watch_one_user` | One person, every operation, pauses ending when they like: does a settled armed machine watch with every enabled sensor (`WatchIsCovered`), does the tracker follow the flag, and the file too unless its last save failed (`RecordAgrees`), does a dismissal silence the siren (`DismissalSilences`), does a paused sensor come back (`PauseEnds`)? | holds |
| `net` | *Sockets* that connect, pair, pair again, die and are thrown out: are the slots counted (`SlotsAreCounted`), the sessions held by somebody (`SessionsAreHeld`), the dead not counted as phones (`GoneIsGone`), the expired thrown out in the end (`ExpiredClientsLeave`)? *Pairing* and *talking*, over a wire that loses and repeats, with broadcasts and a rotation: do both ends mean each other (`BothMeantIt`), is the acceptance the last frame in the clear and do the ends switch at one place (`AcceptanceIsLast`), is what they then have a `SealedChannel` (`SealedConversation`), is who asks answered (`Answered`)? | holds |
| `loops` | *Sensors*: one live run (`SoleWatcher`), "working" only when it is (`CoverageIsEarned`)? *Siren*: one open stop channel, silence after every Stop that waited (`SirenObeys`)? *Volume* and *outputs*: the owner's volume given back, on each system (`VolumeIsTheOwners`)? *Playback* and *lid*: a sound heard in order, every closing heard (`NothingIsMisheard`)? *Console*: a PIN not drawn, a draft given back (`ConsoleKeeps`)? And in the end: a sensor restarted after a fault and ended when asked, loops that end with their run, a Stop that is heard, an interrupt read behind a full queue, the lid known (`LoopsGoOn`)? | holds |
| `files` | *History*: are the files the end of the history, bounded, losing only the oldest, and read whole by an undisturbed reader (`HistoryIsKept`)? *Restart*: is an interrupted watch resumed or reported, port and key kept, the counter resumed (`RestartRemembers`)? *Updates*: said, newer, gentle, not twice (`ReleasesAreSaid`)? *Push*: the live subscription kept, one failure not everybody's (`PhonesAreTold`)? *Sink*: every line accounted for, in order, gaps said (`LogIsHonest`)? *Config*: what was chosen is found again, no key inherited by a new endpoint (`ConfigIsKept`)? *Replace*: old or new and nothing left behind (`FilesAreWhole`)? | holds |
| `rules` | *Lockout*: every window's budget of guesses (`GuessBudget`), a bounded table, a lockout earned and the last to be forgotten (`LockoutHolds`)? *Tracker*: runs with the watch, shows what is usable and true (`LocationIsTrue`)? *Detectors*, *motion*: an alert for each event and none for what is none (`AlertsAreEvents`)? *Screen*, *window*: one drawing, typing undisturbed, a terminal handed back, parts that stay apart in every size of window (`ScreenIsWhole`)? *Pairing*: a code says what it was made of, the addresses a phone is handed answer (`CodesPair`)? | holds |
| `settings_places` | Two phones, five messages, the program stopped anywhere: do config, guard and sensors agree after a message that was handled alone, and the file too unless its last save failed, and is a guarded PIN changed only by whoever showed it (`SettingsHold`)? | holds |
| `watch_disarmed_silent` | Does a disarmed machine stay silent (`DisarmedIsSilent`)? | violated |
| `rotate_stays_open` | Does the log keep its file when a rotation fails (`LogStaysOpen`)? | violated |
| `settings_upgrade` | Does upgrading a hash keep the PIN (`UpgradeKeepsThePin`)? | violated |
| `handshake_rotation` | Does a rotation in the middle of a pairing merely fail it (`RotationIsRefusal`)? | violated |
| `config_no_expiry` | Is "no expiry" still that after a restart (`NoExpiryIsKept`)? | violated |

Every property of a passing run has at least one mutant of the code that breaks it in that
very run (`PROJECT.json`, `mutants`), and a property that is a conjunction has one for
each of its parts, so none of them holds by the shape of a model.

Run one with `tlc -config Watch_answers.cfg MCWatch.tla`. The largest, `files`, takes
about three minutes on two cores.

## Bounds

* `Watch`: two phones and one or two sensors, so that an answer can meet another answer or
  another alarm; `Cap` = the length of the alert channel. One timer: a second pause waits.
  The liveness run has one phone and one sensor, because what is asked there is about one
  person's answers against the dispatcher and the pauses.
* `Connections`: two sockets from one address, one slot per address, two sessions and two
  tokens: a phone that pairs again while another waits uses all of them.
* `Handshake`: two instances. *Pairing* has two connections (so that a frame of the first
  may be repeated on the second), two pairings and one message each way; *talking* one
  connection with two pairings (the second on a sealed connection) and two messages. One
  rotation, lost or repeated frame in either.
* `Sensors`: three runs, so that a cancelled run can meet the one after it and the third
  the record both left.
* `Siren`: two callers and two runs: the second is the first that can meet the loops of
  the run before it. The part *volume* has three runs and one caller; the third meets a
  volume remembered twice. A chain of two or three levels has every kind of action in it.
* `Volume`: two devices of four steps and a medium of half of it, so that a fraction falls
  between two steps; one act of the owner, one failure.
* `Playback`: five chunks through three buffers of three frames: each buffer comes round
  again, partly filled. `Recoveries` is ALSA's budget.
* `Console`: two keys of room and four typed, out of eleven that are all the kinds
  `applyKey` tells apart; one failing terminal.
* `Lid`: room for two notifications and five moves: more than fit, and one that undoes
  another.
* `Rotate`, `EventLog`: records of one and three units against a limit of two (one fits,
  one never does), three files, four records, one fault. A torn write is allowed.
* `Restart`: three runs of the program, two ports, one arming, one crash or failing step.
* `Updates`: a beta and a full release of one number, a schedule of two ticks and a retry
  of one, two starts, one question at the console, one failed check or clock set back.
* `Push`: two phones, two subscriptions each, two signing keys, one round, one fault, and
  a budget of one failing phone. Phones are interchangeable, and so are savers below: no
  definition tells one from another, and the run asks nothing of what happens in the end.
* `Sink`: a queue of two and six lines. `Replace`: two savers, each of the five writers,
  one fault; power fails under the writers that sync (see below for the one that does not).
* `ConfigFile`: one edit of the file by hand and one change by a phone, out of values at,
  above and below the limits of each kind of field, an endpoint of either kind with and
  without a key, and any save failing.
* `Lockout`: two attempts, a period of two ticks, three addresses against two records;
  the clock runs long enough for a lockout to begin, end and begin again.
* `Tracker`: two places, three sources of which one is vague, two armings, a clock of two
  ticks past which a fix is stale, one panic.
* `Detectors`: two things plugged in or out, thresholds of one to three, four readings
  that are kept in full, nine seconds of input. `Motion`: three places (near and far of
  one another), four readings, two watches, three runs.
* `Screen`: three windows, one of each placement, two codes, three events.
  `Window`: every width from 50 to 94 and height from 9 to 58, with and without a code.
* `Pairing`: four networks, the ports 1 and 65535, keys with a leading zero, with eights
  and nines; three events.
* `Settings`: two phones, two PINs, one sensor, any save failing. A first start has the
  sensor on and no PIN hash or one of the older scheme; an update does one thing: switches
  the PIN, brings a new one, or switches the sensor off. (One that does two takes the same
  steps; the theorem is about any.) `overlapped` records whether two messages
  were ever handled at once since the last start.

Where a bound cuts a behaviour off (runs started, records written, tokens issued, ticks of
the clock) it stands in the guard of the action, and `CHECK_DEADLOCK FALSE` says that the
model may stop there; a system at rest may also simply be left alone.

## Fairness

Only where a liveness property needs it, and only what the scheduler and the timers give:

* `Watch`: every goroutine that has begun something gets on with it, the dispatcher keeps
  reading, a pause's sleep ends. Nobody has to ask for anything and no sensor has to report.
* `Siren`: callers, escalation and loops run; tones and delays end. Nobody has to start or
  stop the alarm.
* `Playback`: the generator's goroutine runs. No device has to take or return anything.
* `Connections`: a connection's goroutine runs, the deadline of an unpaired socket comes,
  the heartbeat ticks. No peer has to write or leave.
* `Handshake`: a connection's goroutine, a broadcast that was begun, and the phone's
  reading of what arrives. Nothing has to be sent, and `Answered` is about behaviours in
  which the wire lost nothing.
* `Sensors`: the supervised goroutine runs and the back-off ends; a driver returns once
  its context is cancelled, which is what every driver's loop selects on.
* `Console`: the pump, which reads the keyboard. No command has to end.
* `Lid`: the loop's steps; strongly for its `select`, since Go chooses at random among the
  cases that are ready, so a notification that waits is taken however often the ticker
  fires as well.

All the rest is weak fairness of one goroutine's step: Go's scheduler is fair to runnable
goroutines, and no lock in these paths is held while waiting for another. The fairness of
a part holds while that part is the one that runs.

## Refinements

| Abstract | Implemented by | Checked | Proved |
|---|---|---|---|
| `AlarmLedger`: an alarm is one event, handed to one answer | `Watch` (`AlarmIsOneEvent`): the alarm is `Hub.activeAlarm`, a permit is what `clearAlarm` returned to a goroutine that has not spent it | `watch_answers` | yes, for every phone and sensor |
| `SealedChannel`: heard is said, in order, once | `Handshake` (`SealedConversation`): what was said is every sealed frame that was ever on the air, by conversation and counter; what was heard is what `open` let through | `net` | yes, for any number of connections, pairings, frames and faults |
| `WholeFile`: always one of the saved values, changed at most once per save | `Replace` (`ReplacesWhole`): the file is what its name leads to; a save is under way from its first step to its rename or its failure | `files` | yes, for any savers, values and temporary names |

## Proofs

Every safety property of a passing run is stated by a theorem here, but for the digits of
`CodesPair`, and holds for all values of the constants, from the assumptions named with
them: `Watch`, `Settings`, `Lockout` and `Connections` state theirs with `ASSUME`; the other
modules have an operator `ConstantsOK`, which their theorems assume and which `MCNet`,
`MCLoops`, `MCFiles` and `MCRules` assert of the values they give, so TLC evaluates it in the
runs. The assumptions say what a reader would take for granted: limits and thresholds are
numbers, sets of sockets and addresses are finite, a null value is none of the values. The
bounds (`MaxTime`, `MaxRuns`, the tokens) are constants too, as large as one likes.

A property of a composed run is a conjunction of the parts' own. Its theorem is about the
run's specification `AllSpec` and comes in two steps: the theorems about each part
(`Tr!Spec => []Tr!LocationIsTrue`), and a lemma that a behaviour of the run is one of each of
them (`PartsOfTheRules` and its like), whose step or stutter is the part's. The constants of
the parts proved about in `MCLoops`, `MCFiles` and `MCRules` are constants of those modules,
given values in the `.cfg`, so these theorems hold for any of them as well. The two exchanges
of `MCNet` are instances of `Handshake_proofs` with the numbers they run with; the theorems
of `Handshake_proofs` itself are for any.

Some theorems ask for more, because what they state is only so for one actor: `OneOwner`,
`OneCaller` and `OneUser`, explained where they are used. Each is what the run that checks
the property has: `watch_one_user` has one phone and no automatic arming, `MCLoops`' part
*volume* one caller and no failing restore, `MCRules`' tracker one phone.

**`Watch_proofs`**, for any phones, timers and sensors and any queue length.

* `WatchInvariant`: the inductive invariant. `TypeOK` is not inductive: a goroutine
  that switches a sensor off, or on again after a pause, does so with a name it took from
  an alarm many steps earlier. The invariant therefore adds which kind of goroutine can be
  at which place (`Roles`), that whoever deals with a sensor holds the name of one
  (`Holding`), and, for each alarm that was cleared, that what its answer holds is that
  alarm's sensor. `TypeCorrect` follows.
* `AlarmIsOneEventHolds`: `Watch` implements `AlarmLedger`. The initial states map to
  initial states and every action maps to a ledger step or a stutter; the hard cases are
  the two that claim (the dispatcher's and the test's) and `ClearAlarm`, where the ledger
  hands the alarm to one answer.
* `SwitchOffHolds`: a sensor leaves `enabled` only by an answer to its own alarm or by a
  `configure` message.
* `WatchIsCoveredHolds`, `RecordAgreesHolds`, under `OneOwner` (one phone, no automatic
  arming). Both are false for two phones, see the table below. `OwnerInv` says what is true
  *during* a call, which the properties leave open: past the save the file agrees with the
  flag or the save has failed, past the tracker's call the tracker agrees with it, and from
  the start of the sensors on every enabled one is running. What keeps it is that nobody
  else's call is in between. That a save that succeeds makes good the ones that failed is
  part of it: `unsaved` speaks of the last save only. `ArmedIsRecorded`, without that
  exception, is false (see the table).

The proofs go action by action: three lemmas for the three ways a goroutine moves
(`MoveControl`, `FinishControl`, `BeginControl`), one for each step that changes who holds
what, and then one step per action.

**`Handshake_proofs`**, for any number of connections, pairings, messages and faults of the
wire. The invariant comes in layers, each proved from those under it.

* `Typed`: the counters stay in range and every frame is one somebody wrote.
* `Meant` (`BothMeantItHolds`): every plea and every grant that was ever in the air names
  the connection and the nonces it was made for, and only the end that knew the key made
  it; so what `handleAuth` carries from step to step, and either session, was meant by the
  other end on this connection, whatever is repeated from an earlier one.
* `Spoken` (`ConversationIsSealed`, the refinement of `SealedChannel`): each sealed frame
  in the air under an end's present key has a counter below that end's, no two of one end
  share key and counter, and what was heard has rising counters. `open` therefore lets
  through what was said, in order, once.
* `Tuned` (`AcceptanceIsLastHolds`): along the wire, which frames are in the clear or under
  which key, at each stage of a pairing: nothing asked, asked, judged, refused, accepting.
  `InStep` (no end meets a frame it cannot open) is about wires that keep their frames, so
  `Tuned` is claimed until the first fault.

**`Net_proofs`**, for any finite set of sockets, any addresses and limits. The
two counts of unpaired slots equal the numbers of sockets that hold one (`Counted`), which
survives a release only because the place a socket is at says whether it still holds
anything (`Own`). `SessionsAreHeld` needs, besides, that the token a socket is about to
lose is no longer a live session's. `SlotsAreCounted`, `SessionsAreHeld` and `GoneIsGone`
follow from `CInv`. With the theorems of `Handshake_proofs` about either exchange it then
states what the run `net` checks: `TypesOK`, `BothMeantIt`, `AcceptanceIsLast` and
`SealedConversation`.

**`Siren_proofs`**, for any callers, chains and volumes. `SirenInv` says that the WaitGroup's
count is the size of the set of the loops that run (`CountOK`), that whoever is about to
start a loop starts the first of a run of their own (`SpawnOK`), and that while the alarm is
off with loops running some Stop has yet to wait for them (`WaitOK`), unless the volume
backend panicked in a Stop, whose wait was then never reached (`unwaited`); so every Stop
having returned, no loop is left (`QuietWhenStoppedHolds`). `OwnersVolumeHolds`, under `OneCaller`: with
two goroutines starting and stopping, or a restore that fails, the owner's volume may be
lost (`VolumeComesBack` below). With one, the volume is the owner's, or it is what is
remembered, at every point of a start, an escalation and a stop.

**`Settings_proofs`**, for any phones, PINs and sensors. What a handler has in hand depends on
where it is (`Carries`); and as long as one message was handled at a time, whatever guard and
sensors lack of the config is what that one handler still has to carry there, and the file
lacks what it has still to save or what the last save failed to write (`Lacks`,
`OneAtATime`). When no handler is on its way nothing is lacking but that, which is that the
places agree: a save that fails keeps neither guard nor sensors from following, and the next
one that succeeds writes the whole config. That a guarding PIN is changed only by whoever has shown it is a property of
steps and needs no more than `Carries`: it holds with any number of messages at once, but for
the upgrade of a hash that has met another message (`UpgradeKeepsThePin` below) and for a
restart, which goes back to what is on file.

**`Loops_proofs`**:

* *Volume*: `OwnersLevelIsBack` on devices of any number of steps: as long as one device is
  all that was touched, what is remembered is its owner's level as a fraction, and that
  fraction of the same number of steps is that level, or with Linux's rounding down one
  less (`Share`, `WhereItLands`).
* *Sensors*, for any number of starts and any driver. That the one run not cancelled is the
  current one carries `SoleWatcher`; `CoverageIsEarned` needs that only a run that has begun
  can report readings (`Begun`), since such a report clears the failure of whichever run is
  current.
* *Playback*, for any number and size of buffers and any device. `PlayInv`: what waits to be
  heard is in order and lies between what was heard and what was generated (`FramesOK` of
  ALSA's frames, `BuffersOK` of the buffers of the others); a header `waveOut` still has to
  play is not marked as done, so it is not filled again (`FlagsOK`); and Audio Queue's
  buffers come back in the order they went out (`RotationOK`), so the next in turn is a free
  one. `waveOut`'s turns are `WritingOK`.
* *Lid*, for any length of the queue. While no notification was lost, those that wait
  alternate and end where the lid is (`InTurn`, `Known`), and the alarms there have been,
  with those the waiting ones will raise, are as many as the closings (`Accounted`). Both
  are `NothingIsMisheardHolds`.
* *Console*, for any lines, keys and commands. The line is masked exactly while a secret is
  being asked for (`MaskedOK`), there is no digit of the PIN in what may be read
  (`OpenOK`), and a digit that waits is the next keystroke of the prompt (`WaitingOK`).
  `ConsoleKeepsHolds`; what a draft is after a walk through the history is an action property
  that the type of the walk's position carries.
* `TypesOKHolds`: the types of all the parts, most of which the invariants above contain.

**`Files_proofs`**:

* *Replace*, for any savers, values and names of temporary files, and each of the
  five writers. `RInv`: no two savers write to one temporary file, nor do two save at once
  where a lock forbids it (`Apart`), what a saver is about to rename is whole and, for the
  writers that sync, on disk (`ContentsOK`), and a temporary file is some saver's or one a
  crash left (`Owned`). From it the refinement of `WholeFile` (`ReplacesWholeHolds`),
  `NothingIsLeftHolds` and the two together. `ConstantsOK` includes `PowerFails \subseteq
  Synced`: for the subscriptions the statement is false (`SurvivesPowerLoss`).
* *Rotate* and *EventLog*, for any number of generations, any limit, lengths and number of
  faults. `RotInv`: what a rotation is about to move a file to is free, and the log is closed
  meanwhile (`Vacated`); a record that is about to be written fits (`Fits`); and the files
  are pieces cut one after another out of the end of what was written, an absent one where
  two cuts coincide (`Continues`). Each rename moves a piece across an empty one
  (`PieceMoves`), each write prolongs the first, and a removal shortens only the last, from
  which `OnlyTheOldestGoes` follows as well. For the reader, `prior[j]` is what the `j` oldest
  generations hold; what it will answer is the last of the generations it has still to go
  through followed by what it holds already, until a rotation overtakes it. `Picked` and
  `FlattenSeq` are recursive functions over the length of a sequence: what they preserve is
  proved by the least number for which it fails (`Upward`).
* *Restart*, for any number of runs, ports and failures. Until a start has reported the watch
  before it, its copy of the state file is the file (`ReadIsKept`); an arming or disarming
  that is half-way is the last there was (`HalfWayOK`); a watch that was recorded is on record
  (`OnRecord`), a word that is owed is on file (`OwedIsOnFile`), and port and key are those
  in their files (`PortOnFile`, `KeyOnFile`). `RestartRemembersHolds`.
* *Updates*, for any releases, intervals and clocks set back. What the watcher and the console
  hold in hand to write down as seen has been told (`WatcherOK`, `AskerOK`), and the ledger
  knows of the last query by whatever the wall clock said (`ClockOK`, `ScheduleOK`).
  `ReleasesAreSaidHolds`.
* *ConfigFile*, for any edits of the file and any messages. Every value the program runs on is
  one it can act on, what is in the file is of its kind, and a config that counts as saved is
  what the file was written from or read from it (`OnFile`). `ConfigIsKeptHolds`; what it says
  of keys is about messages that change the endpoint (`KeyStaysWithItsEndpoint`, about all of
  them, is false).
* *Push*: a browser's numbers only grow, and an endpoint that is gone stays away
  (`NewestStays`, `GoneStaysAway`), so a late "gone" cannot be about a live subscription;
  every round's phones are told, excused or still to be told. `PhonesAreToldHolds` for any
  phones, rounds, keys and faults.
* *Sink*: `LogIsHonestHolds` for a queue of any depth. Order is an invariant on what is
  written, held and queued together; that the gaps add up is `Accounted`: there is a
  running total of the output whose last value, with what is on its way, is the number of
  lines offered. The property states that total as the recursive function `UpTo`; that the
  two are the same is an induction over the length of the output, done with the least
  counterexample (`TotalIsUnique`, from the well-foundedness of `<` on the naturals), since
  the library's induction theorems are out of reach.
* `FilesTypesHold`: the types of all the parts. Most are in the invariants above; the sink's
  counts are within their bound because together they are no more than the lines offered.

**`Rules_proofs`**:

* *Lockout*, for any finite set of addresses, any policy, size of the table and
  clock. `LInv` is `TypeOK`, `TableIsBounded`, `LockedForItsOwn` and `Charged`: every failure
  in a record is a wrong guess in the history, without which the guess that locks an address
  could have been charged to the wrong one. The lemmas say what `record` may leave of the
  table: a known address is only seen again, a new one is fresh, and everybody else is kept as
  they were or evicted (`RecordedShape`, `RecordedBounded`, `RecordedKeeps`), and an
  unfinished lockout goes only when nothing else can (`EvictedLock`, `RecordedDrops`), which
  is also what the action property `LockoutIsLastToGo` comes from. `LockoutHoldsInEveryRun`
  puts the three together, as the run `rules` checks them. `GuessBudgetHolds` needs one more
  invariant, `BudgetInv`: an address without a record has no guesses left in the window
  (`Bygone`), one with a record has no more than its failures say, the others being past or
  past by the end of its lockout (`Spent`), and so any `MaxAttempts + 1` guesses in a row span
  a period (`Spaced`).
  `GuessesAreLimited` says both of a behaviour of the run.
* *Tracker*: a fix is no further from the truth than it says (`HonestFixes`), and a run
  whose context was cancelled stores one more answer at most (`RunOK`). `PositionIsHonest`
  for any number of phones; `PositionWithTheWatch`, under `OneUser`, adds that the tracker
  runs exactly while the watch is on, which two phones can break as they break
  `WatchIsCovered`.
* *Motion*: one live run a watch and one detector over all its runs, although a run of an
  earlier watch may still be on its way (`OneALoop`, `OneADetector`); whoever said motion
  marked it (`SaidIsMarked`); the readings in a detector's count are different ones
  (`CountsReadings`). `MotionAlertsAreReal` follows.
* *Detectors*: every reading but the first has a last one before it that could be taken, and
  `last` is that (`HasItsPrevious`); the counts of active and of quiet readings are the
  lengths of the runs at the end of what was seen (`CountsAreRuns`); a reading that raised an
  alert stays latched until as many quiet ones have followed as `Left` says
  (`AlertedIsLatched`). `DetectorsAlertOnEvents` for any things, threshold and `Left`.
* *Screen*, for any layout that may be wanted. There is no grid on the terminal but the
  layout's own, and the place that is stored for the cursor is never where somebody types
  (`Shows`); the cursor is in its place whenever the dashboard is not about to be painted
  again (`CursorOK`); the program knows whether it has the terminal (`TakenOK`); and once the
  program is ending, unless Ctrl+Z was being answered, it has given the terminal back and
  nobody takes it again (`EndingOK`). `TerminalKept`.
* *Window*, for any window, code and grid. A layout's type is inductive at once; that its parts
  stay apart, and that a window which grows keeps its code, are facts about the arithmetic of
  the three placements (`SideBySideIsPlaced`, `StackedIsPlaced`, `WithoutCodeIsPlaced`), which
  each end in `Placed`.
* *Pairing*, for any networks, ports and keys. The bar's codes are one for each address and all
  of the key and the port there are (`BarOK`, `QrCarriesTheKey`), and what a phone is handed is
  worked out of the network there is, every address of which the laptop answers
  (`PairingHolds`). The addresses are those of all interfaces, flattened, so the lemma under
  it is again one about a recursive function over the length of a list (`FlatIs`).
* `RulesTypesHold`: the types of all the parts. The invariants of motion and the detectors
  are joined by `MotionInRange` (readings that have counted are among those taken, so there
  are no more of them than readings) and `DetectorsInRange`.

Two things about the prover shaped the text. A nested `@` in an `EXCEPT` is not read the way
TLC reads it, so updates of a record inside a function name the field they start from. And
Booleans are kept behind operators of their own (`Busy`, `Latched`) where a step also needs
arithmetic.

Left to TLC:

* all liveness (`DismissalSilences`, `PauseEnds`, `LoopsGoOn`, `Answered`,
  `ExpiredClientsLeave`): the prover has neither fairness nor `ENABLED`;
* of `CodesPair` the part `TypedIsShown`, that a code which is typed says what the code on
  screen was made of: it is about the digits and bits of every key, an induction over data
  that the provers here cannot do. TLC evaluates `Encode` and `Decode` for keys that begin
  with zeros, that are all nines and that are neither, on every address and port of the run,
  typed with the letters people mistake. The other two parts of `CodesPair` are
  `PairingHolds`;
* what the numbers of the real program come to: a theorem for any limit says nothing of
  whether 5 attempts or 10 MB are well chosen.

No module uses a `RECURSIVE` operator: recursion is by functions, which the proofs can
unfold.

## Where the code and its documents disagree

Five of these are runs. The others are statements the modules define and no passing run
checks, because the code does not keep them: name one as an INVARIANT (or PROPERTY, where
it is temporal) in a configuration of its module, or of the `MC` module in the last
column with `Parts` cut down to that part, and TLC finds the behaviour in seconds.

| Statement | Module | What happens | With |
|---|---|---|---|
| `DisarmedIsSilent` (run) | `Watch` | `dispatchAlert` looks at `armed`, and claims in a later section that does not: a disarm in between is followed by the siren on a disarmed machine. | `Watch_disarmed_silent.cfg` |
| `LogStaysOpen` (run) | `Rotate` | `rotateLocked` closes the file first; if a later step fails, nothing opens it again, and every write fails until the program is restarted, although the comment promises to keep appending. | `Rotate_stays_open.cfg` |
| `UpgradeKeepsThePin` (run) | `Settings` | The upgrade of a hash writes the PIN it was given over a PIN another phone has set since. | `Settings_upgrade.cfg` |
| `RotationIsRefusal` (run) | `Handshake` | The key is read once, as the comment says, but its salt is read again after the proof was judged: a rotation in between yields an acceptance the phone cannot verify, and it takes the laptop for an impostor. | `Handshake_rotation.cfg` |
| `NoExpiryIsKept` (run) | `ConfigFile` | `session_ttl_minutes` of zero, "no expiry", is left out of the file by `omitempty`; the next start reads the default of a day. | `Config_no_expiry.cfg` |
| `ArmedIsRecorded` | `Watch` | `persistArmed` "records the armed state for the next run to read", but a save that fails is only logged (hub.go:434-436): the file says the opposite of the flag until the next arming or disarming. | `MCWatch` |
| `AlarmIsAudible` | `Watch` | An alarm claimed between the clearing of the last one and its siren's stop ends up active and silent. | `MCWatch` |
| `HeldQuiet` | `Watch` | The grace period of the input sensor begins after the siren was stopped, and the dismissing hand raises the alarm again. | `MCWatch` |
| `StaysOff` | `Watch` | A pause that ends brings back a sensor that was meanwhile switched off for good. | `MCWatch` |
| `StoppedWhenDisarmed` | `Watch` | A pause that ends during a disarm leaves the sensors running on a disarmed machine. | `MCWatch` |
| `WatchIsCovered` | `Watch` | Two phones arming and disarming at once leave the machine armed with no sensor started. | `MCWatch`, two users who arm |
| `NoChangeWhileArmed` | `Watch` | A `configure` that saw the machine disarmed lands after another phone armed it (SECURITY.md: sensor changes are refused while armed). | `MCWatch` |
| `LockIsSeen` | `Watch` | Disarming stops the screen sensor too: auto-arm on lock works once. | `MCWatch` |
| `SettingsAreSaved` | `Settings` | "Configuration updated from client" is logged, and phones are shown the new settings, whether or not `config.Save` failed (hub.go:947, 1551, 1639, 1867): the next start comes back with the old ones. | `MCSettings` |
| `VolumeComesBack` | `Siren` | A Stop between the escalation's look at `playing` and its change of the volume leaves it raised; so does a dismissal that overtakes the Start it answers. | `MCLoops`, *volume*, *siren* |
| `AlarmIsHeard` | `Siren` | A panic in the backend during an escalation ends it before it has started a siren. | `MCLoops`, *siren* |
| `CountingIsSafe` | `Siren` | A Start between the wake of a waiting Stop and its return reuses the WaitGroup, which panics. | `MCLoops`, *siren* |
| `StopReturns` | `Siren` | A Stop whose wait meets the next alarm goes on waiting until that one is dismissed as well. | `MCLoops`, *siren* |
| `EveryDeviceIsGivenBack` | `Volume` | The default device changes during an alarm: one device keeps the raised level, or gets another's. | `MCLoops`, *outputs* |
| `FullIsHeard` | `Volume` | macOS raises the level of a muted output and leaves it muted. | `MCLoops`, *outputs* |
| `OnlyTheExpired` | `Connections` | The heartbeat throws out a phone that has just paired again. | `MCNet`, *sockets* |
| `AbsenceIsWhole` | `Connections` | A phone that left, came back and left again is reported by its first departure's timer. | `MCNet`, *sockets* |
| `FaultIsTold` | `Sensors` | A panicking driver leaves no failure on record; a cancelled run wipes the failure of the run after it. | `MCLoops`, *sensors* |
| `OffIsNoFault` | `Sensors` | A driver that fails as it is switched off is recorded as failed after it was. | `MCLoops`, *sensors* |
| `AnswerArrives` | `Sensors` | A probe that panics is awaited for ever. | `MCLoops`, *sensors* |
| `UnreadableIsNotMoving` | `Detectors` | To the network sensor a reading that cannot be taken is one that differs, and an alarm. | `MCRules`, *detectors* |
| `GraceIsIgnored` | `Detectors` | The first reading after the grace period is compared with a baseline from before it, so the hand that armed the machine counts once: enough, with a threshold of one. | `MCRules`, *detectors* |
| `RestIsHistory` | `Rotate` | A record appended after a torn one shares its line and cannot be read back. | `MCFiles`, *history* |
| `InOrder` | `EventLog` | A rotation between reading the live file and listing the generations shows the same events twice. | `MCFiles`, *history* |
| `NoticeIsAtTheGap` | `Sink` | "N lines were dropped" is written before lines that are older than the dropped ones. | `MCFiles`, *sink* |
| `StopWithdraws` | `Restart` | Of two ways of stopping one ends the process while the other still has the endpoint file to withdraw. | `MCFiles`, *restart* |
| `ArmedIsTracked` | `Restart` | The armed flag is restored before the tracker is installed: a watch that survives a restart has no location until it is armed again. | `MCFiles`, *restart* |
| `SurvivesPowerLoss` | `Replace` | The subscriptions are renamed into place without having been synced: losing power may leave half a file. | `MCFiles`, *replace*, with "subscriptions" among `PowerFails` |
| `EveryPhoneIsAttempted` | `Push` | All phones share one budget of time; when slow ones have used it up, the rest are not attempted. | `MCFiles`, *push* |
| `SubscribesAgain` | `Push` | After the signing key was lost, the page offers the subscription it has, which is bound to the old one. | `MCFiles`, *push* |
| `RetriesSooner` | `Updates` | The shorter wait after a failed check is followed by the schedule's. | `MCFiles`, *updates* |
| `OffMeansOff` | `Updates` | Whether to check is read before a wait of hours and used after it. | `MCFiles`, *updates* |
| `StableHearsNoBetas` | `Updates` | A beta remembered by the ledger is announced at the next start although the channel has been changed. | `MCFiles`, *updates* |
| `KeyStaysWithItsEndpoint` | `ConfigFile` | "Changing the endpoint means supplying the key that goes with it", but the key of a message is stored also when the endpoint it came with is refused, or empty (hub.go:1791-1794): it ends up beside the endpoint that was there, and goes to it with the next lookup. | `MCFiles`, *config* |
| `PendingIsSaid` | `ConfigFile` | Of the settings that wait for the next start only the port and the location are said to. | `MCFiles`, *config* |
| `CodeCarriesTheKey` | `Pairing` | The code to type is made of the key before the rotation. | `MCRules`, *pairing* |
| `ShownAddressesAnswer` | `Pairing` | The addresses on screen are those of the network the program was started on. | `MCRules`, *pairing* |
| `PinNeverShown` | `Console` | When the terminal goes away in the middle of a PIN, the row is drawn again with its digits. | `MCLoops`, *console* |
| `TerminalGivenBack`, `DrawsOnItsOwnScreen` | `Screen` | A Ctrl+Z that is half-way when the program shuts down takes the terminal again, or draws on the shell's screen. | `MCRules`, *screen* |
| `KeysAreHarmless` | `Screen` | Keystrokes that were queued are applied to an input line that is gone: a nil dereference. | `MCRules`, *screen* |
| `AddressesAreListed` | `Window` | The grid is cut in windows in which it would fit without the banner and the commands. | `MCRules`, *window* |
| `NothingReachesIntoTheLog` | `Window` | In small windows a part that is drawn once lies in rows that scroll. | `MCRules`, *window* |

Met while reading and not modelled: README.md speaks of a disconnect alarm when every
phone drops off while armed, and the code only logs it (`reportNoPhoneConnected`); a phone
at the session limit cannot pair again, because its own old session is still counted.

## Not modelled

* Platform drivers: reading the charger, the lid, USB, idle time, the accelerometer,
  scanning networks. I/O; what a reading may come to (a value, none, an error, a panic, no
  answer) is chosen by the modules that use it.
* The HTTP server's filters (headers, origin, host): decisions without state. The
  message budgets of `ratelimit.go`: they only refuse, and what a refused message does is
  what a lost one does.
* Service registration, command-line parsing, the first-run dialogue: sequences of system
  calls or questions that nothing else runs beside.
* The QR code's drawing, localization, texts, colours and logs; paths.
* Cryptography: proofs, keys and sealed frames are terms; hashing and comparing are exact.
* The phone's page beyond its half of the handshake and its push subscription.
* Loops that are supervised and do one thing per tick (`superviseLoops`) beyond those with
  a module of their own.
* A `config.json` that cannot be parsed, which a start sets aside.
* Go's data races as such. Where two goroutines touch a field without a lock
  (`client.token`, the shared sensor map) the model interleaves whole reads and writes.

## Plan

Modelled and checked: everything in the table of modules. Proved: the safety properties of
every run, with the exception named under [proofs](#proofs). What would be next, each with
the question it would be for:

1. `Watch` composed with `Siren` in place of its flag: what an answer that waits in `Stop`
   keeps from happening meanwhile.
2. The filters of the HTTP server and the message budgets, once they keep more state than a
   count: at present a refused message is a lost one.
3. The phone's page as a component of its own, with its reconnects and its copy of the state.
