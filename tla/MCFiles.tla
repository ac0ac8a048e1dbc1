------------------------------- MODULE MCFiles --------------------------------
\* What the program keeps: its event history and its log, the file its
\* settings are in, the state it restarts from, the releases and the phones it knows.  A
\* behaviour is one of them; Replace is the way any of the files is written.
EXTENDS Replace, TLC

CONSTANTS
  Parts,   \* those TLC is to run, one to a behaviour
  MaxBytes, MaxFiles, Lengths, MaxRecords, LogFaults, MayTear, Wanted,   \* EventLog
  Ports, MaxRuns, MaxArms, RestartFaults,                       \* Restart
  TopRelease, Interval, Floor, Retry, Jitter, MaxClock, MaxStarts, MaxAsked,
  MaxTrouble,                                                  \* Updates
  Phones, Budget, MaxNumber, MaxKeys, MaxRounds, PushFaults,   \* Push
  Depth, MaxLines,                                             \* Sink
  Edits, Changes, MaxMessages                                  \* ConfigFile

\* What may be published while the first release runs.
Published == [n : 2 .. TopRelease, pre : BOOLEAN]

\* What somebody may have typed into config.json, and what a phone may ask for: a value
\* at, above and below the limits of each kind of field.
Edited ==
  {<<"port", 0>>, <<"port", 70000>>, <<"heartbeat_seconds", 0>>,
   <<"heartbeat_seconds", 3601>>, <<"disconnect_grace_seconds", 0>>,
   <<"disconnect_grace_seconds", -1>>, <<"session_ttl_minutes", 0>>,
   <<"session_ttl_minutes", -5>>, <<"session_idle_minutes", 50000>>,
   <<"poll_seconds", 0>>, <<"poll_seconds", 5>>, <<"update_check_hours", 1>>,
   <<"update_check_hours", 500>>, <<"volume_percent", 0>>, <<"volume_percent", 400>>,
   <<"delay_seconds", -1>>, <<"update_channel", "nightly">>, <<"language", "xx">>,
   <<"geolocate_url", "http://a">>, <<"pin", "plain">>}

Changed ==
  {<<"port", 70000>>, <<"port", 8080>>, <<"max_sessions", 0>>,
   <<"max_sessions", 101>>, <<"max_auth_attempts", -1>>, <<"lockout_seconds", 3601>>,
   <<"heartbeat_seconds", 0>>, <<"disconnect_grace_seconds", 0>>,
   <<"input_threshold", 10001>>, <<"poll_seconds", 5>>, <<"poll_seconds", 0>>,
   <<"delay_seconds", 86401>>, <<"volume_percent", 101>>, <<"volume_percent", 0>>,
   <<"update_channel", "beta">>, <<"update_channel", "nightly">>,
   <<"geolocate_url", "https://b">>, <<"geolocate_url", "https://">>,
   <<"geolocate_url", "http://b">>, <<"geolocate_url", "">>}

\* No definition tells a phone from another, nor a saver; and nothing here is about the end.
Alike == Permutations(Phones) \cup Permutations(Savers)

VARIABLES
  part,   \* the one this behaviour is of
  history_disk, history_handle, history_size, history_pc, history_at,
  history_pending, history_kept, history_tried, history_faults, history_rpc,
  history_older, history_events, history_answer,
  restart_cfg, restart_state, restart_endpoint, restart_keyFile, restart_step,
  restart_run, restart_owner, restart_history,
  updates_world, updates_config, updates_ledger, updates_w, updates_asked,
  updates_said, updates_history,
  push_disk, push_laptop, push_browser, push_offered, push_rounds, push_history,
  sink_queue, sink_dropped, sink_offered, sink_adding, sink_held, sink_pc,
  sink_count, sink_closed, sink_out, sink_gone,
  config_file, config_cfg, config_running, config_told, config_isSaved,
  config_changes

Ev == INSTANCE EventLog WITH
    MaxFaults <- LogFaults, disk <- history_disk, handle <- history_handle,
    size <- history_size, pc <- history_pc, at <- history_at,
    pending <- history_pending, kept <- history_kept, tried <- history_tried,
    faults <- history_faults, rpc <- history_rpc, older <- history_older,
    events <- history_events, answer <- history_answer

Re == INSTANCE Restart WITH
    MaxFaults <- RestartFaults, cfg <- restart_cfg, state <- restart_state,
    endpoint <- restart_endpoint, keyFile <- restart_keyFile, step <- restart_step,
    run <- restart_run, owner <- restart_owner, history <- restart_history

Up == INSTANCE Updates WITH
    Releases <- Published, world <- updates_world, config <- updates_config,
    ledger <- updates_ledger, w <- updates_w, asked <- updates_asked,
    said <- updates_said, history <- updates_history

Pu == INSTANCE Push WITH
    MaxFaults <- PushFaults, disk <- push_disk, laptop <- push_laptop,
    browser <- push_browser, offered <- push_offered, rounds <- push_rounds,
    history <- push_history

Sk == INSTANCE Sink WITH
    queue <- sink_queue, dropped <- sink_dropped, offered <- sink_offered,
    adding <- sink_adding, held <- sink_held, pc <- sink_pc, count <- sink_count,
    closed <- sink_closed, out <- sink_out, gone <- sink_gone

Cf == INSTANCE ConfigFile WITH
    MaxChanges <- MaxMessages, file <- config_file, cfg <- config_cfg,
    running <- config_running, told <- config_told, isSaved <- config_isSaved,
    changes <- config_changes

historyVars ==
  <<history_disk, history_handle, history_size, history_pc, history_at,
    history_pending, history_kept, history_tried, history_faults, history_rpc,
    history_older, history_events, history_answer>>
restartVars ==
  <<restart_cfg, restart_state, restart_endpoint, restart_keyFile, restart_step,
    restart_run, restart_owner, restart_history>>
updatesVars ==
  <<updates_world, updates_config, updates_ledger, updates_w, updates_asked,
    updates_said, updates_history>>
pushVars ==
  <<push_disk, push_laptop, push_browser, push_offered, push_rounds, push_history>>
sinkVars ==
  <<sink_queue, sink_dropped, sink_offered, sink_adding, sink_held, sink_pc,
    sink_count, sink_closed, sink_out, sink_gone>>
configVars ==
  <<config_file, config_cfg, config_running, config_told, config_isSaved,
    config_changes>>

all ==
  <<part, vars, historyVars, restartVars, updatesVars, pushVars, sinkVars, configVars>>

\* The parts that do not run are in one of their initial states and stay there.
AllInit ==
  /\ part \in Parts
  /\ Init
  /\ part = "replace"
     \/ /\ writer = CHOOSE w \in Writers : TRUE
        /\ file.in = CHOOSE v \in Values : TRUE
  /\ Ev!LogInit
  /\ Re!Init
  /\ part = "restart"
     \/ /\ restart_state = Re!Empty /\ restart_cfg.port = Re!Nobody
        /\ ~restart_cfg.headless /\ ~restart_cfg.restore /\ ~restart_cfg.location
  /\ Up!Init /\ (updates_ledger = Up!Blank <=> updates_config.channel = "beta")
  /\ part = "updates"
     \/ /\ updates_config.channel = "beta"
        /\ updates_ledger = Up!Blank
  /\ Pu!Init
  /\ Sk!Init
  /\ Cf!Init
  /\ part = "config" \/ (config_file.pin = "plain" /\ config_file.geolocate_url = "")

AllNext ==
  /\ UNCHANGED part
  /\ IF part = "replace" THEN Next ELSE UNCHANGED vars
  /\ IF part = "history" THEN Ev!LogNext ELSE UNCHANGED historyVars
  /\ IF part = "restart" THEN Re!Next ELSE UNCHANGED restartVars
  /\ IF part = "updates" THEN Up!Next ELSE UNCHANGED updatesVars
  /\ IF part = "push" THEN Pu!Next ELSE UNCHANGED pushVars
  /\ IF part = "sink" THEN Sk!Next ELSE UNCHANGED sinkVars
  /\ IF part = "config" THEN Cf!Next ELSE UNCHANGED configVars

AllSpec == AllInit /\ [][AllNext]_all

-----------------------------------------------------------------------------
\* The state of every part is one its program can be in.
TypesOK ==
  /\ part = "replace" => TypeOK
  /\ part = "history" => Ev!ReaderOK
  /\ part = "restart" => Re!TypeOK
  /\ part = "updates" => Up!TypeOK
  /\ part = "push" => Pu!TypeOK
  /\ part = "sink" => Sk!TypeOK
  /\ part = "config" => Cf!TypeOK

\* The theorems ask this of the constants of Replace, Restart, Updates, Push,
\* Sink, ConfigFile and EventLog.
ASSUME FilesConstants ==
  ConstantsOK /\ Re!ConstantsOK /\ Up!ConstantsOK /\ Pu!ConstantsOK /\ Sk!ConstantsOK
  /\ Cf!ConstantsOK /\ Ev!ConstantsOK /\ Ev!SomeAreWanted

\* The history is what was written, without what its limits cost it, and what is read is
\* the end of it.  (rotate.go, eventlog.go.)
HistoryIsKept == Ev!HistoryIsKept

\* Over every restart and crash the program reports or resumes the watch that was
\* interrupted and keeps its port and its key.  (startup.go, state.go, keyfile.go.)
RestartRemembers == Re!RestartRemembers

\* A release is announced, rarely asked for, and not announced twice.  (watcher.go.)
ReleasesAreSaid == Up!ReleasesAreSaid

\* A phone that can be told of an alarm is.  (store.go, notifier.go.)
PhonesAreTold == part = "push" => Pu!PhonesAreTold

\* What is missing from the log is known to be missing.  (logsink.go.)
LogIsHonest == part = "sink" => Sk!LogIsHonest

\* The file keeps what was chosen, and a new endpoint does not inherit the key of the
\* one before.  (Config.Save and Load, applyGeolocateURL.)
ConfigIsKept == Cf!ConfigIsKept

\* What config.go says of a zero, and the file does not keep.
NoExpiryIsKept == Cf!NoExpiryIsKept
=============================================================================
