------------------------------- MODULE MCRules --------------------------------
\* What the program works out: who is locked out, where the machine is and whether it was
\* moved, what a reading means, what a pairing code says and what fits on the screen.  A
\* behaviour is one of them.
EXTENDS Lockout, Integers, Sequences

CONSTANTS
  Parts,   \* those TLC is to run, one to a behaviour
  Users, Accuracy, Places, Home, MaxClock, MaxAge, MaxArms, MaxAnchors, MaxPanics,   \* Tracker
  Spots, Near, Far, MaxAt, MaxWatches, MaxRuns,      \* Motion
  Things, Thresholds, Left, MaxSeen, MaxSeconds,     \* Detectors
  Windows, ScreenCodes, GridHeight, ScreenEvents,    \* Screen
  Widths, Heights, WindowCodes, Grids,               \* Window
  Networks, Ports, Keys, PairingEvents               \* Pairing

Radius == [phone |-> 0, wifi |-> 0, ip |-> 1]

\* Behind a router, with a bridge and a tunnel beside it, with one interface, with an
\* address of nothing but ones, and with none that is up.
Lan(addrs) == [kind |-> "lan", addrs |-> addrs]
Connected ==
  {<<Lan(<<<<192, 168, 1, 24>>>>), [kind |-> "virtual", addrs |-> <<<<172, 17, 0, 1>>>>],
     Lan(<<<<10, 0, 0, 7>>, <<0, 0, 0, 1>>>>)>>,
   <<Lan(<<<<192, 168, 1, 24>>>>)>>,
   <<Lan(<<<<255, 255, 255, 255>>>>)>>,
   <<[kind |-> "down", addrs |-> <<<<10, 0, 0, 8>>>>]>>}

SomeKeys == {<<1, 1, 1, 1, 2, 2, 2, 2, 3, 3, 3, 3, 4, 4, 4, 8>>,
             [i \in 1 .. 16 |-> 9],
             <<0, 0, 0, 0, 1, 1, 1, 1, 2, 2, 2, 2, 3, 3, 3, 3>>}

\* Windows that take the parts side by side, one above the other, and without the code; the
\* codes of two addresses, or none and one; and every size from one shape to the next.
SomeWindows == {<<120, 60>>, <<100, 30>>, <<60, 24>>}
SomeCodes == {<<53, 27>>, <<37, 19>>}
NoneOrOne == {<<0, 0>>, <<53, 27>>}
SomeWidths == 50 .. 94
SomeHeights == 9 .. 58

VARIABLES
  part,   \* the one this behaviour is of
  tracker_machine, tracker_watch, tracker_tracker, tracker_runs, tracker_phone,
  tracker_count,
  screen_tty, screen_window, screen_code, screen_taken, screen_bar, screen_settling,
  screen_suspend, screen_ending, screen_events,
  detectors_kind, detectors_threshold, detectors_pc, detectors_last,
  detectors_activity, detectors_seen, detectors_raised, detectors_hand,
  detectors_before,
  motion_now, motion_watch, motion_armed, motion_run, motion_sensor, motion_detector,
  motion_alerts, motion_firsts, motion_counted,
  pairing_network, pairing_port, pairing_remembered, pairing_key, pairing_bar,
  pairing_typed, pairing_given, pairing_events,
  window_room

Tr == INSTANCE Tracker WITH
    machine <- tracker_machine, watch <- tracker_watch, tracker <- tracker_tracker,
    runs <- tracker_runs, phone <- tracker_phone, count <- tracker_count

Sc == INSTANCE Screen WITH
    Codes <- ScreenCodes, MaxEvents <- ScreenEvents, tty <- screen_tty,
    window <- screen_window, code <- screen_code, taken <- screen_taken,
    bar <- screen_bar, settling <- screen_settling, suspend <- screen_suspend,
    ending <- screen_ending, events <- screen_events

De == INSTANCE Detectors WITH
    kind <- detectors_kind, threshold <- detectors_threshold, pc <- detectors_pc,
    last <- detectors_last, activity <- detectors_activity, seen <- detectors_seen,
    raised <- detectors_raised, hand <- detectors_hand, before <- detectors_before

Mo == INSTANCE Motion WITH
    Places <- Spots, now <- motion_now, watch <- motion_watch, armed <- motion_armed,
    run <- motion_run, sensor <- motion_sensor, detector <- motion_detector,
    alerts <- motion_alerts, firsts <- motion_firsts, counted <- motion_counted

Pa == INSTANCE Pairing WITH
    MaxEvents <- PairingEvents, network <- pairing_network, port <- pairing_port,
    remembered <- pairing_remembered, key <- pairing_key, bar <- pairing_bar,
    typed <- pairing_typed, given <- pairing_given, events <- pairing_events

Wi == INSTANCE Window WITH
    Codes <- WindowCodes, room <- window_room

trackerVars ==
  <<tracker_machine, tracker_watch, tracker_tracker, tracker_runs, tracker_phone,
    tracker_count>>
screenVars ==
  <<screen_tty, screen_window, screen_code, screen_taken, screen_bar,
    screen_settling, screen_suspend, screen_ending, screen_events>>
detectorsVars ==
  <<detectors_kind, detectors_threshold, detectors_pc, detectors_last,
    detectors_activity, detectors_seen, detectors_raised, detectors_hand,
    detectors_before>>
motionVars ==
  <<motion_now, motion_watch, motion_armed, motion_run, motion_sensor,
    motion_detector, motion_alerts, motion_firsts, motion_counted>>
pairingVars ==
  <<pairing_network, pairing_port, pairing_remembered, pairing_key, pairing_bar,
    pairing_typed, pairing_given, pairing_events>>
windowVars ==
  <<window_room>>

all ==
  <<part, vars, trackerVars, screenVars, detectorsVars, motionVars, pairingVars,
    windowVars>>

\* The parts that do not run are in one of their initial states and stay there.
AllInit ==
  /\ part \in Parts
  /\ Init
  /\ Tr!Init
  /\ part = "tracker" \/ tracker_tracker.providers = <<>>
  /\ Sc!Init
  /\ part = "screen"
     \/ /\ screen_window = CHOOSE w \in Windows : TRUE
        /\ screen_code = CHOOSE c \in ScreenCodes : TRUE
        /\ ~screen_bar.keys
  /\ De!Init
  /\ part = "detectors"
     \/ /\ detectors_kind = "edge"
        /\ detectors_threshold = CHOOSE t \in Thresholds : TRUE
  /\ Mo!Init
  /\ Pa!Init
  /\ part = "pairing"
     \/ /\ pairing_network = CHOOSE n \in Networks : TRUE
        /\ pairing_key = CHOOSE k \in Keys : TRUE
  /\ Wi!Init
  /\ part = "window" \/ window_room = CHOOSE r \in Wi!Rooms : Wi!Narrowest(r)

AllNext ==
  /\ UNCHANGED part
  /\ IF part = "lockout" THEN Next ELSE UNCHANGED vars
  /\ IF part = "tracker" THEN Tr!Next ELSE UNCHANGED trackerVars
  /\ IF part = "screen" THEN Sc!Next ELSE UNCHANGED screenVars
  /\ IF part = "detectors" THEN De!Next ELSE UNCHANGED detectorsVars
  /\ IF part = "motion" THEN Mo!Next ELSE UNCHANGED motionVars
  /\ IF part = "pairing" THEN Pa!Next ELSE UNCHANGED pairingVars
  /\ IF part = "window" THEN Wi!Next ELSE UNCHANGED windowVars

AllSpec == AllInit /\ [][AllNext]_all

-----------------------------------------------------------------------------
\* The state of every part is one its program can be in.
TypesOK ==
  /\ part = "lockout" => TypeOK
  /\ part = "tracker" => Tr!TypeOK
  /\ part = "screen" => Sc!TypeOK
  /\ part = "detectors" => De!TypeOK
  /\ part = "motion" => Mo!TypeOK
  /\ part = "pairing" => Pa!TypeOK
  /\ part = "window" => Wi!TypeOK

\* The theorems ask this of the constants of Tracker, Motion, Detectors, Screen, Window
\* and Pairing.
ASSUME RulesConstants ==
  Tr!ConstantsOK /\ Mo!ConstantsOK /\ De!ConstantsOK /\ Sc!ConstantsOK /\ Wi!ConstantsOK
  /\ Pa!ConstantsOK

\* The position is looked up with the watch, and is true.  (tracker.go.)
LocationIsTrue == part = "tracker" => Tr!LocationIsTrue

\* One drawing, undisturbed, its parts side by side, on a terminal that is handed back.
\* (terminal.go, layout.go.)
ScreenIsWhole ==
  /\ [](part = "screen" => Sc!TerminalIsKept) /\ Sc!HandedBackIsQuiet
  /\ [](part = "window" => Wi!PartsStayApart) /\ Wi!GrowingKeepsTheCode

\* An alert for every event, once, and none for what is none.  (internal/monitor.)
AlertsAreEvents ==
  /\ part = "detectors" => De!AlertsAreEvents
  /\ part = "motion" => Mo!MotionIsReal

\* What a phone reads off the screen, types or is handed, it can dial.  (pairCode,
\* rekeyQR, paircode.go, SetAddresses.)
CodesPair == Pa!CodesPair
=============================================================================
