------------------------------- MODULE Tracker -------------------------------
(***************************************************************************)
(* Where the machine is: the lookups that run while it is armed, the phone's*)
(* own position, and which of the two is shown.                             *)
(*                                                                         *)
(* internal/location (tracker.go, the two providers), internal/ws/location.go*)
(* and the hub's Arm and Disarm as far as they start and stop the tracker.  *)
(* Places are numbers on a line and an accuracy is a radius on it.  Every    *)
(* source is honest: what it names is no further from the truth than the     *)
(* radius it states.  Time is a number of ticks; the machine moves with them.*)
(***************************************************************************)
EXTENDS Integers, Sequences, FiniteSets

CONSTANTS
  Users,       \* who arms and disarms
  Accuracy,    \* the radius of each source
  Places, Home, MaxClock, MaxAge, MaxArms, MaxAnchors, MaxPanics

VARIABLES
  machine,     \* the clock, and where the machine is
  watch,       \* the armed flag, and per user the arm or disarm that is half-way
  tracker,     \* the providers, anchor, live, and the run that has not been cancelled
  runs,        \* per run of the loop: where it is, what it has left, its best fix
  phone,       \* positions the phone has taken and not yet delivered
  count        \* armings and panics so far, fixes each run stored after its end

vars == <<machine, watch, tracker, runs, phone, count>>

\* What the theorems about this module ask of its constants.
ConstantsOK ==
  /\ Accuracy \in [{"phone", "wifi", "ip"} -> Nat]
  /\ Places \subseteq Int /\ Home \in Places
  /\ MaxClock \in Nat \ {0} /\ MaxAge \in Nat /\ MaxArms \in Nat

clock == machine.clock
None == [from |-> "none", at |-> 0, acc |-> 0, ts |-> 0, true |-> 0]
NoRun == 0
Runs == 1 .. MaxArms

\* buildLocationTracker: the sources the settings ask for, in this order.
BuildLocationTracker(wifi, ip) ==
  (IF wifi THEN <<"wifi">> ELSE <<>>) \o (IF ip THEN <<"ip">> ELSE <<>>)

Init ==
  /\ machine = [clock |-> 1, place |-> Home]
  /\ watch = [armed |-> FALSE, half |-> [u \in Users |-> "none"]]
  /\ \E wifi, ip \in BOOLEAN :
       tracker = [providers |-> BuildLocationTracker(wifi, ip),
                  anchor |-> None, live |-> None, run |-> NoRun, running |-> FALSE]
  /\ runs = [r \in Runs |-> [at |-> "unused", todo |-> <<>>, best |-> None]]
  /\ phone = {}
  /\ count = [starts |-> 0, anchors |-> 0, panics |-> 0, late |-> [r \in Runs |-> 0]]

Apart(a, b) == IF a < b THEN b - a ELSE a - b

-----------------------------------------------------------------------------
(***************************************************************************)
(* Which fix describes where the machine is.                               *)
(***************************************************************************)
DistanceM(a, b) == Apart(a.at, b.at)

\* The anchor is exempt: it is a statement about the moment of arming, and its time is
\* not kept here.
FreshOrNil(fix) == IF fix.from \notin {"none", "phone"} /\ clock - fix.ts > MaxAge
                   THEN None ELSE fix

\* Mutant: the more accurate fix is shown, whatever the other one says.
SelectByAccuracy(anchor, live) ==
  LET a == FreshOrNil(anchor)  b == FreshOrNil(live) IN
  IF b = None \/ (a # None /\ a.acc <= b.acc)
    THEN [best |-> a, moved |-> a # None /\ b # None /\ DistanceM(a, b) > a.acc + b.acc]
    ELSE [best |-> b, moved |-> a # None /\ DistanceM(a, b) > a.acc + b.acc]

\* Mutant: moved when either circle excludes the other's center.
SelectByOneRadius(anchor, live) ==
  LET a == FreshOrNil(anchor)  b == FreshOrNil(live)
      moved == a # None /\ b # None /\ (DistanceM(a, b) > a.acc \/ DistanceM(a, b) > b.acc)
  IN [best |-> IF a = None \/ moved THEN b ELSE a, moved |-> moved]

\* Two fixes whose circles do not meet are about different places, and then the live
\* one is about the present; otherwise the more accurate one, the anchor on a tie.
SelectFix(anchor, live) ==
  LET a == FreshOrNil(anchor)  b == FreshOrNil(live)
      moved == a # None /\ b # None /\ DistanceM(a, b) > a.acc + b.acc
  IN [best |-> IF b # None /\ (a = None \/ moved \/ b.acc < a.acc) THEN b ELSE a,
      moved |-> moved]

Snapshot == SelectFix(tracker.anchor, tracker.live)

-----------------------------------------------------------------------------
(***************************************************************************)
(* What a source answers.                                                  *)
(***************************************************************************)
ValidCoordinates(p) == p \in Places

Fixes(source) ==
  {[from |-> source, at |-> p, acc |-> Accuracy[source], ts |-> clock, true |-> machine.place] :
     p \in {q \in Places : Apart(q, machine.place) <= Accuracy[source]}}

\* nmcli first, and iw when it failed or listed nothing; either may be missing.
ScanAccessPoints ==
  {IF "radios" \in {nmcli, iw} THEN "radios" ELSE "none" : nmcli, iw \in {"radios", "none"}}

\* parseGeolocateResponse: an error at any point, a fix, or one that is out of range.
Resolve(aps) ==
  {f \in Fixes("wifi") : aps = "radios" /\ ValidCoordinates(f.at)} \cup {None}

WiFi == UNION {Resolve(aps) : aps \in ScanAccessPoints}

\* parseIPLookup, to the same measure.
IP == {f \in Fixes("ip") : ValidCoordinates(f.at)} \cup {None}

Locate(source) == IF source = "wifi" THEN WiFi ELSE IP

-----------------------------------------------------------------------------
(***************************************************************************)
(* Arming and disarming, in the steps that matter to the tracker.          *)
(***************************************************************************)
Cancelled(r) == tracker.run # r

\* The loop starts with a refresh, and every poll is one.
Refresh(r) == runs' = [runs EXCEPT ![r] = [at |-> "next", todo |-> tracker.providers, best |-> None]]

Arm(u) ==
  /\ watch.half[u] = "none" /\ count.starts < MaxArms
  /\ watch' = [armed |-> TRUE, half |-> [watch.half EXCEPT ![u] = "arm"]]
  /\ count' = [count EXCEPT !.starts = @ + 1]
  /\ UNCHANGED <<machine, tracker, runs, phone>>

\* Start: a tracker that is running, or has nothing to ask, is left alone.
Start(u) ==
  /\ watch.half[u] = "arm"
  /\ watch' = [watch EXCEPT !.half[u] = "none"]
  /\ IF tracker.running \/ tracker.providers = <<>> THEN UNCHANGED <<tracker, runs>>
     ELSE \E r \in Runs :
            /\ runs[r].at = "unused" /\ \A q \in 1 .. r - 1 : runs[q].at # "unused"
            /\ tracker' = [tracker EXCEPT !.run = r, !.running = TRUE]
            /\ Refresh(r)
  /\ UNCHANGED <<machine, phone, count>>

Disarm(u) ==
  /\ watch.half[u] = "none" /\ watch.armed
  /\ watch' = [armed |-> FALSE, half |-> [watch.half EXCEPT ![u] = "disarm"]]
  /\ UNCHANGED <<machine, tracker, runs, phone, count>>

\* Mutant: the run is cancelled and still counts as running.
StopHalf(u) ==
  /\ watch.half[u] = "disarm"
  /\ watch' = [watch EXCEPT !.half[u] = "none"]
  /\ tracker' = [tracker EXCEPT !.run = NoRun]
  /\ UNCHANGED <<machine, runs, phone, count>>

\* Stop cancels the run and keeps the last fix.
Stop(u) ==
  /\ watch.half[u] = "disarm"
  /\ watch' = [watch EXCEPT !.half[u] = "none"]
  /\ tracker' = [tracker EXCEPT !.run = NoRun, !.running = FALSE]
  /\ UNCHANGED <<machine, runs, phone, count>>

-----------------------------------------------------------------------------
(***************************************************************************)
(* A run of the loop.                                                      *)
(***************************************************************************)
To(r, where) == runs' = [runs EXCEPT ![r].at = where]
Drop(r, where) == runs' = [runs EXCEPT ![r] = [at |-> where, todo |-> <<>>, best |-> None]]

\* Mutant: the context is not looked at between two providers.
AskOn(r) ==
  /\ runs[r].at = "next" /\ runs[r].todo # <<>>
  /\ To(r, "asking")
  /\ UNCHANGED <<machine, watch, tracker, phone, count>>

Ask(r) ==
  /\ runs[r].at = "next" /\ runs[r].todo # <<>> /\ ~Cancelled(r)
  /\ To(r, "asking")
  /\ UNCHANGED <<machine, watch, tracker, phone, count>>

\* Cancelled between two providers: what was found so far is dropped.
Abandon(r) ==
  /\ runs[r].at = "next" /\ runs[r].todo # <<>> /\ Cancelled(r)
  /\ Drop(r, "idle")
  /\ UNCHANGED <<machine, watch, tracker, phone, count>>

\* A lookup that is under way when the run is cancelled fails or answers.
Answer(r) ==
  /\ runs[r].at = "asking"
  /\ \E f \in Locate(Head(runs[r].todo)) :
       runs' = [runs EXCEPT ![r] =
         [at |-> "next", todo |-> Tail(@.todo),
          best |-> IF f # None /\ (@.best = None \/ f.acc < @.best.acc) THEN f ELSE @.best]]
  /\ UNCHANGED <<machine, watch, tracker, phone, count>>

\* The best of them is stored, cancelled or not, and the phones are told.
Store(r) ==
  /\ runs[r].at = "next" /\ runs[r].todo = <<>>
  /\ Drop(r, "idle")
  /\ IF runs[r].best = None THEN UNCHANGED <<tracker, count>>
     ELSE /\ tracker' = [tracker EXCEPT !.live = runs[r].best]
          /\ count' = [count EXCEPT !.late[r] = IF Cancelled(r) THEN @ + 1 ELSE @]
  /\ UNCHANGED <<machine, watch, phone>>

\* The select of the loop takes either, when the tick and the cancellation are there.
Poll(r) ==
  /\ runs[r].at = "idle"
  /\ Refresh(r)
  /\ UNCHANGED <<machine, watch, tracker, phone, count>>

Return(r) ==
  /\ runs[r].at = "idle" /\ Cancelled(r)
  /\ Drop(r, "over")
  /\ UNCHANGED <<machine, watch, tracker, phone, count>>

\* A provider panics; the loop is started again unless the run was cancelled meanwhile.
Panic(r) ==
  /\ runs[r].at = "asking" /\ count.panics < MaxPanics
  /\ count' = [count EXCEPT !.panics = @ + 1]
  /\ \/ ~Cancelled(r) /\ Refresh(r)
     \/ Cancelled(r) /\ Drop(r, "over")
  /\ UNCHANGED <<machine, watch, tracker, phone>>

-----------------------------------------------------------------------------
(***************************************************************************)
(* The phone and the machine.                                              *)
(***************************************************************************)
\* captureAnchor: the phone takes its position when it arms, or later, wherever its
\* owner is by then.
Capture ==
  /\ watch.armed /\ phone = {} /\ count.anchors < MaxAnchors
  /\ count' = [count EXCEPT !.anchors = @ + 1]
  /\ \E p \in Places :
       phone' = {[from |-> "phone", at |-> p, acc |-> Accuracy["phone"], ts |-> 0, true |-> p]}
  /\ UNCHANGED <<machine, watch, tracker, runs>>

\* It arrives, armed or not, and replaces the one before; what is out of range is ignored.
SetAnchor ==
  /\ \E f \in phone :
       tracker' = IF ValidCoordinates(f.at) THEN [tracker EXCEPT !.anchor = f] ELSE tracker
  /\ phone' = {}
  /\ UNCHANGED <<machine, watch, runs, count>>

Tick ==
  /\ clock < MaxClock
  /\ \E p \in Places : machine' = [clock |-> clock + 1, place |-> p]
  /\ UNCHANGED <<watch, tracker, runs, phone, count>>

Loop(r) == Ask(r) \/ Abandon(r) \/ Answer(r) \/ Store(r) \/ Poll(r) \/ Return(r) \/ Panic(r)

Next ==
  \/ \E u \in Users : Arm(u) \/ Start(u) \/ Disarm(u) \/ Stop(u)
  \/ \E r \in Runs : Loop(r)
  \/ Capture \/ SetAnchor \/ Tick

Spec == Init /\ [][Next]_vars

-----------------------------------------------------------------------------
FixOf == [from : {"none", "phone", "wifi", "ip"}, at : Places \cup {0}, acc : Nat,
          ts : 0 .. MaxClock, true : Places \cup {0}]

TypeOK ==
  /\ machine \in [clock : 1 .. MaxClock, place : Places]
  /\ watch \in [armed : BOOLEAN, half : [Users -> {"none", "arm", "disarm"}]]
  /\ tracker \in [providers : Seq({"wifi", "ip"}), anchor : FixOf, live : FixOf, run : Runs \cup {NoRun}, running : BOOLEAN]
  /\ \A r \in Runs : /\ runs[r].at \in {"unused", "next", "asking", "idle", "over"}
                     /\ runs[r].best \in FixOf
  /\ phone \subseteq FixOf

\* Nothing looks the machine up while it is disarmed, and something does while it is
\* armed: once every arm and disarm has come to its end, a run that nobody has
\* cancelled is there exactly then, and its loop is alive.  (Start, Stop, Supervise.)
RunsWithTheWatch ==
  (\A u \in Users : watch.half[u] = "none") =>
    /\ (tracker.run # NoRun) = (watch.armed /\ tracker.providers # <<>>)
    /\ tracker.run # NoRun => runs[tracker.run].at \notin {"unused", "over"}

\* A watch that is over speaks once more at most: the lookup that was under way when it
\* was stopped may store its fix, and no later one does, although the loop may be let
\* into another round by its ticker.  (loop, refresh.)
SpeaksOnceMore == \A r \in Runs : count.late[r] <= 1

\* What is shown is never contradicted by what was just measured: the circle on the
\* panel and that of a live fix that still counts have a point in common.  (selectFix.)
ShownAgrees ==
  LET live == FreshOrNil(tracker.live) IN
  live # None => DistanceM(Snapshot.best, live) <= Snapshot.best.acc + live.acc

\* The phone is told that the machine was carried off only when it really was somewhere
\* else than the phone had been: two honest sources never add up to a theft.  (selectFix.)
MovedIsReal == Snapshot.moved => tracker.live.true # tracker.anchor.true

\* Together: the position is looked up with the watch, and is true.
LocationIsTrue == RunsWithTheWatch /\ SpeaksOnceMore /\ ShownAgrees /\ MovedIsReal
=============================================================================
