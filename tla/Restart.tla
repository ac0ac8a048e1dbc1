------------------------------- MODULE Restart -------------------------------
(***************************************************************************)
(* One run of the program after another: what is on disk, what a start     *)
(* makes of it, and what a stop or a crash leaves behind.                   *)
(*                                                                         *)
(* cmd/leavesafe/startup.go (startApp, shutdown, close), entry.go,         *)
(* main.go (reportInterruptedMonitoring), internal/state, internal/endpoint*)
(* and internal/auth/keyfile.go.  A file that is replaced by renaming is   *)
(* written in one step, which a crash comes before or after; the key file  *)
(* is truncated first and filled afterwards.  Any write may fail, and a    *)
(* crash comes between any two steps.                                      *)
(*                                                                         *)
(* An arming, its moment, a key and a port are numbers.  Sensors and       *)
(* answers to alarms are in Watch, what a tracker does once started is in  *)
(* Tracker.                                                                *)
(***************************************************************************)
EXTENDS Integers, FiniteSets

CONSTANTS
  Ports,      \* the ports of the machine
  MaxRuns,    \* starts of the program
  MaxArms,    \* times the owner arms
  MaxFaults   \* writes that fail

\* What the theorems about this module ask of its constants.
ConstantsOK == Ports # {} /\ 0 \notin Ports /\ {MaxRuns, MaxArms, MaxFaults} \subseteq Nat

VARIABLES
  cfg,       \* what the configuration and the command line say
  state,     \* state.json: an empty State when missing, or one that cannot be read
  endpoint,  \* endpoint.json: the port in it, or 0
  keyFile,   \* pairing.key: the key in it, 0 when missing or not a key
  step,      \* where the running program is
  run,       \* what it has in memory
  owner,     \* the owner: armings, and the arm or disarm that is half-way
  history    \* starts, failed writes, and what earlier runs are remembered by

vars == <<cfg, state, endpoint, keyFile, step, run, owner, history>>

Nobody == 0   \* no port, no moment, no key
Empty == [armed |-> FALSE, since |-> 0, port |-> Nobody, readable |-> TRUE]
Unreadable == [Empty EXCEPT !.readable = FALSE]

\* Store.load, as the writers below use it: what cannot be read is empty.
Loaded == IF state.readable THEN state ELSE Empty

Fresh == [prev |-> Empty, readable |-> TRUE, key |-> 0, port |-> Nobody, taken |-> {},
          published |-> FALSE, armed |-> FALSE, since |-> 0, recorded |-> TRUE,
          tracker |-> FALSE, tracking |-> FALSE]

Init ==
  /\ cfg \in [headless : BOOLEAN, restore : BOOLEAN, location : BOOLEAN,
              port : {Nobody, CHOOSE p \in Ports : TRUE}]
  /\ state \in {Empty, Unreadable}
  /\ endpoint = Nobody /\ keyFile = 0
  /\ step = "down" /\ run = Fresh
  /\ owner = [arms |-> 0, half |-> "none"]
  /\ history = [runs |-> 0, faults |-> 0, keys |-> 0, owed |-> 0, port |-> Nobody,
                served |-> 0, orderly |-> FALSE]

\* A write takes effect, or fails and is logged.
Fails == history.faults < MaxFaults /\ history' = [history EXCEPT !.faults = @ + 1]

Down(how) ==
  /\ step' = "down" /\ run' = Fresh /\ owner' = [owner EXCEPT !.half = "none"]
  /\ history' = [history EXCEPT !.orderly = how,
       !.owed = IF run.armed /\ run.recorded THEN run.since ELSE @]
  /\ UNCHANGED <<cfg, state, endpoint, keyFile>>

-----------------------------------------------------------------------------
(***************************************************************************)
(* startApp.                                                               *)
(***************************************************************************)
Begin ==
  /\ step = "down" /\ history.runs < MaxRuns
  /\ step' = "key"
  /\ history' = [history EXCEPT !.runs = @ + 1, !.orderly = FALSE]
  /\ UNCHANGED <<cfg, state, endpoint, keyFile, run, owner>>

\* Mutant: a stored key is replaced at every start.
NewKeyEveryTime ==
  /\ step = "key" /\ cfg.headless /\ keyFile # 0
  /\ step' = "fill" /\ keyFile' = 0 /\ run' = [run EXCEPT !.key = history.keys + 1]
  /\ history' = [history EXCEPT !.keys = @ + 1]
  /\ UNCHANGED <<cfg, state, endpoint, owner>>

\* resolvePairingKey: a headless start lives on the stored key, any other mints one.
StoredKey ==
  /\ step = "key" /\ cfg.headless /\ keyFile # 0
  /\ step' = "load" /\ run' = [run EXCEPT !.key = keyFile]
  /\ UNCHANGED <<cfg, state, endpoint, keyFile, owner, history>>

FreshKey ==
  /\ step = "key" /\ ~cfg.headless
  /\ step' = "load" /\ run' = [run EXCEPT !.key = history.keys + 1]
  /\ history' = [history EXCEPT !.keys = @ + 1]
  /\ UNCHANGED <<cfg, state, endpoint, keyFile, owner>>

\* LoadOrCreateKeyFile without a usable key: the file is emptied, then filled.
EmptyKeyFile ==
  /\ step = "key" /\ cfg.headless /\ keyFile = 0
  /\ step' = "fill" /\ run' = [run EXCEPT !.key = history.keys + 1]
  /\ history' = [history EXCEPT !.keys = @ + 1]
  /\ UNCHANGED <<cfg, state, endpoint, keyFile, owner>>

FillKeyFile ==
  /\ step = "fill"
  /\ \/ step' = "load" /\ keyFile' = run.key /\ UNCHANGED <<run, owner, history>>
     \/ Fails /\ step' = "down" /\ run' = Fresh /\ UNCHANGED <<keyFile, owner>>
  /\ UNCHANGED <<cfg, state, endpoint>>

\* What the previous run left behind is read before anything can overwrite it.
Load ==
  /\ step = "load" /\ step' = "listen"
  /\ run' = [run EXCEPT !.prev = Loaded, !.readable = state.readable]
  /\ UNCHANGED <<cfg, state, endpoint, keyFile, owner, history>>

ListenPort == IF cfg.port # Nobody THEN cfg.port ELSE run.prev.port

\* Others hold some of the ports; a busy one is given up for a free one.
Listen ==
  /\ step = "listen"
  /\ \E taken \in SUBSET Ports :
       \/ /\ taken # Ports /\ step' = "publish"
          /\ \E p \in Ports \ taken :
               /\ ListenPort \in Ports \ taken => p = ListenPort
               /\ run' = [run EXCEPT !.port = p, !.taken = taken]
          /\ UNCHANGED owner
       \/ taken = Ports /\ step' = "down" /\ run' = Fresh /\ UNCHANGED owner
  /\ UNCHANGED <<cfg, state, endpoint, keyFile, history>>

\* The file is written beside its place and renamed over it, and removed by name.
Publish == endpoint' = run.port
Withdraw == endpoint' = Nobody

\* Withdrawn by close, which knows of it only once it has succeeded.
PublishEndpoint ==
  /\ step = "publish" /\ step' = "save_port"
  /\ \/ Publish /\ run' = [run EXCEPT !.published = TRUE] /\ UNCHANGED history
     \/ Fails /\ UNCHANGED <<endpoint, run>>
  /\ UNCHANGED <<cfg, state, keyFile, owner>>

\* Mutant: the port is saved over everything else in the file.
SavePortAlone ==
  /\ step = "save_port" /\ step' = "report"
  /\ state' = [Empty EXCEPT !.port = run.port]
  /\ history' = [history EXCEPT !.port = run.port]
  /\ UNCHANGED <<cfg, endpoint, keyFile, run, owner>>

SavePort ==
  /\ step = "save_port" /\ step' = "report"
  /\ \/ /\ state' = IF Loaded.port = run.port THEN state
                    ELSE [Loaded EXCEPT !.port = run.port]
        /\ history' = [history EXCEPT !.port = run.port]
     \/ /\ Loaded.port # run.port /\ Fails /\ UNCHANGED state
  /\ UNCHANGED <<cfg, endpoint, keyFile, run, owner>>

\* Mutant: the port is forgotten.
SavedAnew(armed, now) == [Empty EXCEPT !.armed = armed, !.since = now]

\* Store.Save keeps the port of whatever is there.
Saved(armed, now) == [Loaded EXCEPT !.armed = armed, !.since = now]

\* reportInterruptedMonitoring: the owner is told, and the watch resumed if the
\* configuration asks for it; the record is cleared only if it does not.
ReportsNothing ==
  /\ step = "report" /\ ~(run.readable /\ run.prev.armed)
  /\ step' = "tracker"
  /\ UNCHANGED <<cfg, state, endpoint, keyFile, run, owner, history>>

Reported == [history EXCEPT !.owed = 0]

ReportInterrupted ==
  /\ step = "report" /\ run.readable /\ run.prev.armed /\ ~cfg.restore
  /\ step' = "tracker"
  /\ \/ state' = Saved(FALSE, run.prev.since) /\ history' = Reported
     \/ /\ history.faults < MaxFaults /\ UNCHANGED state
        /\ history' = [Reported EXCEPT !.faults = @ + 1]
  /\ UNCHANGED <<cfg, endpoint, keyFile, run, owner>>

\* Mutant: the restored watch counts from the restart.
RestoreAnew ==
  /\ step = "report" /\ run.readable /\ run.prev.armed /\ cfg.restore
  /\ step' = "tracker"
  /\ run' = [run EXCEPT !.armed = TRUE, !.since = MaxArms + 1]
  /\ history' = Reported
  /\ UNCHANGED <<cfg, state, endpoint, keyFile, owner>>

\* RestoreArmed: the flag and its moment, whatever starts the tracker by now, and
\* nothing on disk.
RestoreArmed ==
  /\ step = "report" /\ run.readable /\ run.prev.armed /\ cfg.restore
  /\ step' = "tracker"
  /\ run' = [run EXCEPT !.armed = TRUE, !.since = run.prev.since, !.tracking = run.tracker]
  /\ history' = Reported
  /\ UNCHANGED <<cfg, state, endpoint, keyFile, owner>>

\* SetLocationTracker, and the loops; serving from here on.
SetLocationTracker ==
  /\ step = "tracker" /\ step' = "serving"
  /\ run' = [run EXCEPT !.tracker = cfg.location]
  /\ history' = [history EXCEPT !.served = run.key]
  /\ UNCHANGED <<cfg, state, endpoint, keyFile, owner>>

-----------------------------------------------------------------------------
(***************************************************************************)
(* The owner arms and disarms, until the process is gone: the sockets that *)
(* are open outlive the server's shutdown.                                 *)
(***************************************************************************)
Running == step \in {"serving", "stopping", "closing"}

Arm ==
  /\ Running /\ owner.half = "none" /\ owner.arms < MaxArms
  /\ owner' = [arms |-> owner.arms + 1, half |-> "arm"]
  /\ run' = [run EXCEPT !.armed = TRUE, !.since = owner.arms + 1, !.recorded = FALSE]
  /\ UNCHANGED <<cfg, state, endpoint, keyFile, step, history>>

Disarm ==
  /\ Running /\ owner.half = "none" /\ run.armed
  /\ owner' = [owner EXCEPT !.half = "disarm"]
  /\ run' = [run EXCEPT !.armed = FALSE, !.since = 0, !.recorded = FALSE]
  /\ UNCHANGED <<cfg, state, endpoint, keyFile, step, history>>

\* persistArmed, and the tracker after it.
Persist ==
  /\ Running /\ owner.half # "none"
  /\ owner' = [owner EXCEPT !.half = "none"]
  /\ LET arming == owner.half = "arm"
         told == [run EXCEPT !.tracking = arming /\ run.tracker]
     IN \/ /\ state' = Saved(arming, owner.arms) /\ run' = [told EXCEPT !.recorded = TRUE]
           /\ history' = [history EXCEPT !.owed = 0]
        \/ Fails /\ run' = told /\ UNCHANGED state
  /\ UNCHANGED <<cfg, endpoint, keyFile, step>>

-----------------------------------------------------------------------------
(***************************************************************************)
(* The end of a run.                                                       *)
(***************************************************************************)
\* A signal, or Ctrl+C at the console: shutdown begins, and the server's Serve
\* returns to main while shutdown is still at work.
Shutdown ==
  /\ step = "serving" /\ step' = "stopping"
  /\ UNCHANGED <<cfg, state, endpoint, keyFile, run, owner, history>>

\* main returns first: close runs the closers, and main ends the process.
Close ==
  /\ step = "stopping" /\ step' = "closing"
  /\ IF run.published THEN Withdraw ELSE UNCHANGED endpoint
  /\ UNCHANGED <<cfg, state, keyFile, run, owner, history>>

\* os.Exit from the goroutine that called shutdown, or main's return after close.
Exit == step \in {"stopping", "closing"} /\ Down(TRUE)

Crash == step # "down" /\ Down(FALSE)

-----------------------------------------------------------------------------
StartApp ==
  Begin \/ StoredKey \/ FreshKey \/ EmptyKeyFile \/ FillKeyFile \/ Load \/ Listen
  \/ PublishEndpoint \/ SavePort \/ ReportsNothing \/ ReportInterrupted \/ RestoreArmed
  \/ SetLocationTracker

Next == StartApp \/ Arm \/ Disarm \/ Persist \/ Shutdown \/ Close \/ Exit \/ Crash

Spec == Init /\ [][Next]_vars

-----------------------------------------------------------------------------
Steps == {"down", "key", "fill", "load", "listen", "publish", "save_port", "report",
          "tracker", "serving", "stopping", "closing"}

StateFiles == [armed : BOOLEAN, since : 0 .. MaxArms, port : Ports \cup {Nobody},
               readable : BOOLEAN]

TypeOK ==
  /\ state \in StateFiles
  /\ endpoint \in Ports \cup {Nobody}
  /\ keyFile \in 0 .. MaxRuns
  /\ step \in Steps
  /\ run \in [prev : StateFiles, readable : BOOLEAN, key : 0 .. MaxRuns,
              port : Ports \cup {Nobody}, taken : SUBSET Ports, published : BOOLEAN,
              armed : BOOLEAN, since : 0 .. MaxArms, recorded : BOOLEAN,
              tracker : BOOLEAN, tracking : BOOLEAN]
  /\ owner \in [arms : 0 .. MaxArms, half : {"none", "arm", "disarm"}]

\* A watch that was on record when its run ended, however it ended, is reported or
\* resumed by the first start that gets as far as serving: never passed over in
\* silence, also when starts in between crashed half-way.  (reportInterruptedMonitoring.)
NeverSilent == step = "serving" /\ owner.half = "none" /\ ~run.armed => history.owed = 0

\* What is resumed is the watch that was interrupted: over any number of restarts its
\* counter still runs from the moment the owner armed.  (RestoreArmed, SavePort.)
CounterResumes ==
  [][step = "report" /\ step' = "tracker" /\ run'.armed =>
       history.owed \in {0, run'.since} /\ run'.since = Loaded.since]_vars

\* A phone's address stays true: a run listens where the last one that could write it
\* down did, unless that port is taken or another one was asked for.  (listenPort, Save.)
PortIsKept ==
  step \in {"publish", "save_port"} =>
    LET asked == IF cfg.port # Nobody THEN cfg.port ELSE history.port IN
    asked # Nobody => run.port = asked \/ asked \in run.taken

\* A phone that was paired with a headless run stays paired over every restart: the
\* key such a run has served with is the key of every later one.  (LoadOrCreateKeyFile.)
KeySurvives ==
  cfg.headless /\ history.served # 0 /\ run.key # 0 => run.key = history.served

\* Together: what a run of the program owes to the runs before it.
RestartRemembers == [](NeverSilent /\ PortIsKept /\ KeySurvives) /\ CounterResumes

\* What internal/endpoint promises: the file goes when the program stops.
StopWithdraws == step = "down" /\ history.orderly /\ history.faults = 0 => endpoint = Nobody

\* What docs/configuration.md promises: the position is reported while armed.
ArmedIsTracked ==
  step = "serving" /\ owner.half = "none" /\ run.armed /\ cfg.location => run.tracking
=============================================================================
