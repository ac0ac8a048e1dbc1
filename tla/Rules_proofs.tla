----------------------------- MODULE Rules_proofs ------------------------------
(***************************************************************************)
(* Proofs about the location tracker, the motion detector, the other       *)
(* detectors, the terminal, the dashboard's layout, the pairing codes and  *)
(* the failure table, and with them about a run of the rules in which each *)
(* has any constants that ConstantsOK of its module allows.                *)
(***************************************************************************)
EXTENDS MCRules, FiniteSetTheorems, SequenceTheorems, WellFoundedInduction, TLAPS

\* What appending an element does to a sequence.
LEMMA Appended ==
  ASSUME NEW S, NEW s \in Seq(S), NEW e \in S
  PROVE  /\ Append(s, e) \in Seq(S) /\ Len(Append(s, e)) = Len(s) + 1
         /\ Append(s, e) # <<>> /\ DOMAIN Append(s, e) = 1 .. Len(s) + 1
         /\ \A i \in 1 .. Len(s) + 1 : Append(s, e)[i] = IF i <= Len(s) THEN s[i] ELSE e
  OBVIOUS

(***************************************************************************)
(* Tracker.                                                                *)
(***************************************************************************)
Sources == {"wifi", "ip"}
TrackerState == [providers : Seq(Sources), anchor : Tr!FixOf, live : Tr!FixOf,
                 run : Nat, running : BOOLEAN]
RunState == [at : {"unused", "next", "asking", "idle", "over"}, todo : Seq(Sources),
             best : Tr!FixOf]
WatchState == [armed : BOOLEAN, half : [Users -> {"none", "arm", "disarm"}]]

TrackerTyped ==
  /\ tracker_machine \in [clock : 1 .. MaxClock, place : Places]
  /\ tracker_watch \in WatchState
  /\ tracker_tracker \in TrackerState
  /\ tracker_runs \in [Tr!Runs -> RunState]
  /\ tracker_phone \subseteq Tr!FixOf
  /\ tracker_count \in [starts : Int, anchors : Int, panics : Int, late : [Tr!Runs -> Nat]]

\* A source names no place further from the truth than the radius it states; a phone
\* names the place it is at.
Honest(f) == Tr!Apart(f.at, f.true) <= f.acc

HonestFixes ==
  /\ tracker_tracker.anchor.at = tracker_tracker.anchor.true
  /\ \A f \in tracker_phone : f.at = f.true
  /\ Honest(tracker_tracker.live) /\ \A r \in Tr!Runs : Honest(tracker_runs[r].best)

\* A run that is current is alive and has stored nothing late; one that has can store
\* nothing more before it has asked again, which a cancelled run does not.
RunOK(r) ==
  LET n == tracker_runs[r] IN
  /\ n.at = "asking" => n.todo # <<>>
  /\ n.at # "unused" => tracker_tracker.providers # <<>>
  /\ n.at = "unused" \/ tracker_tracker.run = r => tracker_count.late[r] = 0
  /\ tracker_tracker.run = r => n.at \notin {"unused", "over"}
  /\ tracker_count.late[r] <= 1
  /\ tracker_count.late[r] = 1 =>
       n.at \in {"idle", "over"} \/ (n.at = "next" /\ n.todo # <<>>)

RunsAreOK ==
  /\ \A r \in Tr!Runs : RunOK(r)
  /\ tracker_tracker.run \in Tr!Runs \cup {Tr!NoRun}

TrackerInv == TrackerTyped /\ HonestFixes /\ RunsAreOK

\* The tracker runs with the watch, but for who is half-way.
WithTheWatch ==
  /\ tracker_tracker.running = (tracker_tracker.run # Tr!NoRun)
  /\ tracker_tracker.run # Tr!NoRun => tracker_tracker.providers # <<>>
  /\ \A u \in Users :
       /\ tracker_watch.half[u] = "arm" => tracker_watch.armed
       /\ tracker_watch.half[u] = "disarm" => ~tracker_watch.armed
       /\ tracker_watch.half[u] = "none" =>
            (tracker_tracker.run # Tr!NoRun) =
              (tracker_watch.armed /\ tracker_tracker.providers # <<>>)

LEMMA HeadAndTail ==
  ASSUME NEW S, NEW s \in Seq(S), s # <<>>
  PROVE  Head(s) \in S /\ Tail(s) \in Seq(S)
  OBVIOUS

LEMMA TrackerInit ==
  ASSUME Tr!ConstantsOK, Tr!Init
  PROVE  TrackerInv /\ WithTheWatch
  <1>. USE DEF Tr!ConstantsOK
  <1>1. Tr!None \in Tr!FixOf /\ Honest(Tr!None)
    BY DEF Tr!None, Tr!FixOf, Honest, Tr!Apart
  <1>2. PICK wifi \in BOOLEAN, ip \in BOOLEAN :
          tracker_tracker = [providers |-> Tr!BuildLocationTracker(wifi, ip),
                             anchor |-> Tr!None, live |-> Tr!None, run |-> Tr!NoRun,
                             running |-> FALSE]
    BY DEF Tr!Init
  <1>3. Tr!BuildLocationTracker(wifi, ip) \in Seq(Sources)
    <2>1. <<>> \in Seq(Sources) /\ <<"wifi">> \in Seq(Sources) /\ <<"ip">> \in Seq(Sources)
      BY DEF Sources
    <2>2. \A s, t \in Seq(Sources) : s \o t \in Seq(Sources)
      OBVIOUS
    <2>3. /\ (IF wifi THEN <<"wifi">> ELSE <<>>) \in Seq(Sources)
          /\ (IF ip THEN <<"ip">> ELSE <<>>) \in Seq(Sources)
      BY <2>1
    <2>4. QED
      BY <2>2, <2>3, Zenon DEF Tr!BuildLocationTracker
  <1>4. tracker_tracker \in TrackerState
    BY <1>1, <1>2, <1>3 DEF TrackerState, Tr!NoRun
  <1>5. tracker_machine \in [clock : 1 .. MaxClock, place : Places]
    BY DEF Tr!Init
  <1>6. tracker_watch \in WatchState
    BY DEF Tr!Init, WatchState
  <1>7. tracker_runs \in [Tr!Runs -> RunState] /\ tracker_phone \subseteq Tr!FixOf
    BY <1>1 DEF Tr!Init, RunState
  <1>8. tracker_count \in [starts : Int, anchors : Int, panics : Int, late : [Tr!Runs -> Nat]]
    BY DEF Tr!Init
  <1>9. HonestFixes
    BY <1>1, <1>2 DEF Tr!Init, HonestFixes, Tr!None
  <1>10. RunsAreOK
    BY <1>2 DEF Tr!Init, RunsAreOK, RunOK, Tr!NoRun, Tr!Runs
  <1>11. WithTheWatch
    BY <1>2 DEF Tr!Init, WithTheWatch, Tr!NoRun
  <1>12. QED
    BY <1>4, <1>5, <1>6, <1>7, <1>8, <1>9, <1>10, <1>11 DEF TrackerInv, TrackerTyped

\* Whatever a source answers is a fix, and honest.
LEMMA AnswersAreHonest ==
  ASSUME Tr!ConstantsOK, TrackerTyped, NEW source \in Sources, NEW f \in Tr!Locate(source)
  PROVE  f \in Tr!FixOf /\ Honest(f)
  <1>. USE DEF Tr!ConstantsOK
  <1>1. Tr!None \in Tr!FixOf /\ Honest(Tr!None)
    BY DEF Tr!None, Tr!FixOf, Honest, Tr!Apart
  <1>2. tracker_machine.clock \in 1 .. MaxClock /\ tracker_machine.place \in Places
    BY DEF TrackerTyped
  <1>3. ASSUME NEW s \in Sources, NEW g \in Tr!Fixes(s)
        PROVE  g \in Tr!FixOf /\ Honest(g)
    <2>1. PICK p \in Places :
            /\ Tr!Apart(p, tracker_machine.place) <= Accuracy[s]
            /\ g = [from |-> s, at |-> p, acc |-> Accuracy[s], ts |-> tracker_machine.clock,
                    true |-> tracker_machine.place]
      BY <1>3 DEF Tr!Fixes, Tr!clock
    <2>2. Accuracy[s] \in Nat
      BY DEF Sources
    <2>3. g \in Tr!FixOf
      BY <2>1, <2>2, <1>2 DEF Tr!FixOf, Sources
    <2>4. Honest(g)
      BY <2>1 DEF Honest
    <2>5. QED
      BY <2>3, <2>4
  <1>4. Tr!Locate(source) \subseteq Tr!Fixes(source) \cup {Tr!None}
    <2>1. Tr!WiFi \subseteq Tr!Fixes("wifi") \cup {Tr!None}
      BY DEF Tr!WiFi, Tr!Resolve
    <2>2. Tr!IP \subseteq Tr!Fixes("ip") \cup {Tr!None}
      BY DEF Tr!IP
    <2>3. QED
      BY <2>1, <2>2 DEF Tr!Locate, Sources
  <1>5. QED
    BY <1>1, <1>3, <1>4

-----------------------------------------------------------------------------
\* What a step leaves of the runs, run by run.
LEMMA RunWritten ==
  ASSUME tracker_runs \in [Tr!Runs -> RunState], NEW r \in Tr!Runs, NEW n \in RunState,
         tracker_runs' = [tracker_runs EXCEPT ![r] = n]
  PROVE  /\ tracker_runs' \in [Tr!Runs -> RunState] /\ tracker_runs'[r] = n
         /\ \A q \in Tr!Runs : q # r => tracker_runs'[q] = tracker_runs[q]
  OBVIOUS

LEMMA FreshRun ==
  ASSUME Tr!ConstantsOK, TrackerTyped
  PROVE  /\ [at |-> "next", todo |-> tracker_tracker.providers, best |-> Tr!None] \in RunState
         /\ \A where \in {"idle", "over"} :
              [at |-> where, todo |-> <<>>, best |-> Tr!None] \in RunState
         /\ Honest(Tr!None) /\ Tr!None \in Tr!FixOf
  <1>1. Tr!None \in Tr!FixOf /\ Honest(Tr!None)
    BY DEF Tr!None, Tr!FixOf, Honest, Tr!Apart, Tr!ConstantsOK
  <1>2. tracker_tracker.providers \in Seq(Sources)
    BY DEF TrackerTyped, TrackerState
  <1>3. QED
    BY <1>1, <1>2 DEF RunState

\* What each step of a run makes of it.
LEMMA LoopSteps ==
  ASSUME Tr!ConstantsOK, TrackerInv, NEW r \in Tr!Runs, Tr!Loop(r)
  PROVE  /\ tracker_runs' \in [Tr!Runs -> RunState]
         /\ \A q \in Tr!Runs : q # r => tracker_runs'[q] = tracker_runs[q]
         /\ Honest(tracker_runs'[r].best)
         /\ tracker_watch' = tracker_watch /\ tracker_machine' = tracker_machine
         /\ tracker_phone' = tracker_phone
         /\ \/ /\ tracker_tracker' = tracker_tracker
               /\ tracker_count'.late = tracker_count.late
            \/ /\ tracker_runs[r].at = "next" /\ tracker_runs[r].todo = <<>>
               /\ tracker_tracker' = [tracker_tracker EXCEPT !.live = tracker_runs[r].best]
               /\ tracker_count'.late = [tracker_count.late EXCEPT ![r] =
                                           IF Tr!Cancelled(r) THEN @ + 1 ELSE @]
               /\ tracker_runs'[r].at = "idle"
         /\ tracker_count' \in [starts : Int, anchors : Int, panics : Int, late : [Tr!Runs -> Nat]]
  <1>. DEFINE n == tracker_runs[r]
  <1>a. /\ tracker_runs \in [Tr!Runs -> RunState] /\ n \in RunState /\ Honest(n.best)
        /\ tracker_tracker \in TrackerState
        /\ tracker_count \in [starts : Int, anchors : Int, panics : Int, late : [Tr!Runs -> Nat]]
        /\ TrackerTyped /\ RunOK(r)
    BY DEF TrackerInv, TrackerTyped, HonestFixes, RunsAreOK
  <1>b. /\ \A where \in {"next", "asking", "idle", "over"} : [n EXCEPT !.at = where] \in RunState
        /\ \A where : [n EXCEPT !.at = where].best = n.best
    BY <1>a DEF RunState
  <1>1. CASE Tr!Ask(r)
    <2>. DEFINE m == [n EXCEPT !.at = "asking"]
    <2>1. tracker_runs' = [tracker_runs EXCEPT ![r] = m]
      BY <1>1 DEF Tr!Ask, Tr!To
    <2>2. m \in RunState /\ m.best = n.best
      BY <1>b
    <2>. HIDE DEF m
    <2>3. QED
      BY <1>1, <1>a, <2>1, <2>2, RunWritten DEF Tr!Ask
  <1>2. CASE Tr!Abandon(r)
    <2>1. tracker_runs' = [tracker_runs EXCEPT ![r] = [at |-> "idle", todo |-> <<>>, best |-> Tr!None]]
      BY <1>2 DEF Tr!Abandon, Tr!Drop
    <2>2. QED
      BY <1>2, <1>a, <2>1, FreshRun, RunWritten DEF Tr!Abandon
  <1>3. CASE Tr!Answer(r)
    <2>. DEFINE m(f) == [at |-> "next", todo |-> Tail(n.todo),
                         best |-> IF f # Tr!None /\ (n.best = Tr!None \/ f.acc < n.best.acc)
                                  THEN f ELSE n.best]
    <2>1. PICK f \in Tr!Locate(Head(n.todo)) : tracker_runs' = [tracker_runs EXCEPT ![r] = m(f)]
      BY <1>3 DEF Tr!Answer
    <2>2. n.todo # <<>> => m(f) \in RunState /\ Honest(m(f).best)
      <3>1. SUFFICES ASSUME n.todo # <<>>
                     PROVE  m(f) \in RunState /\ Honest(m(f).best)
        OBVIOUS
      <3>2. n.todo \in Seq(Sources) /\ n.best \in Tr!FixOf
        BY <1>a DEF RunState
      <3>3. Head(n.todo) \in Sources /\ Tail(n.todo) \in Seq(Sources)
        BY <3>1, <3>2, HeadAndTail
      <3>4. f \in Tr!FixOf /\ Honest(f)
        BY <1>a, <3>3, AnswersAreHonest
      <3>5. QED
        BY <1>a, <3>2, <3>3, <3>4 DEF RunState
    <2>. HIDE DEF m
    <2>3. QED
      BY <1>3, <1>a, <2>1, <2>2, RunWritten DEF Tr!Answer, RunOK
  <1>4. CASE Tr!Store(r)
    <2>1. tracker_runs' = [tracker_runs EXCEPT ![r] = [at |-> "idle", todo |-> <<>>, best |-> Tr!None]]
      BY <1>4 DEF Tr!Store, Tr!Drop
    <2>2. CASE n.best = Tr!None
      BY <1>4, <1>a, <2>1, <2>2, FreshRun, RunWritten DEF Tr!Store
    <2>3. CASE n.best # Tr!None
      <3>1. /\ tracker_tracker' = [tracker_tracker EXCEPT !.live = n.best]
            /\ tracker_count' = [tracker_count EXCEPT !.late[r] = IF Tr!Cancelled(r) THEN @ + 1 ELSE @]
        BY <1>4, <2>3 DEF Tr!Store
      <3>2. /\ tracker_count'.late = [tracker_count.late EXCEPT ![r] =
                                        IF Tr!Cancelled(r) THEN @ + 1 ELSE @]
            /\ tracker_count' \in [starts : Int, anchors : Int, panics : Int, late : [Tr!Runs -> Nat]]
        BY <3>1, <1>a
      <3>3. QED
        BY <1>4, <1>a, <2>1, <3>1, <3>2, FreshRun, RunWritten DEF Tr!Store
    <2>4. QED
      BY <2>2, <2>3
  <1>5. CASE Tr!Poll(r)
    <2>1. tracker_runs' = [tracker_runs EXCEPT ![r] =
                             [at |-> "next", todo |-> tracker_tracker.providers, best |-> Tr!None]]
      BY <1>5 DEF Tr!Poll, Tr!Refresh
    <2>2. QED
      BY <1>5, <1>a, <2>1, FreshRun, RunWritten DEF Tr!Poll
  <1>6. CASE Tr!Return(r)
    <2>1. tracker_runs' = [tracker_runs EXCEPT ![r] = [at |-> "over", todo |-> <<>>, best |-> Tr!None]]
      BY <1>6 DEF Tr!Return, Tr!Drop
    <2>2. QED
      BY <1>6, <1>a, <2>1, FreshRun, RunWritten DEF Tr!Return
  <1>7. CASE Tr!Panic(r)
    <2>1. \/ tracker_runs' = [tracker_runs EXCEPT ![r] =
                               [at |-> "next", todo |-> tracker_tracker.providers, best |-> Tr!None]]
          \/ tracker_runs' = [tracker_runs EXCEPT ![r] = [at |-> "over", todo |-> <<>>, best |-> Tr!None]]
      BY <1>7 DEF Tr!Panic, Tr!Refresh, Tr!Drop
    <2>2. /\ tracker_count'.late = tracker_count.late
          /\ tracker_count' \in [starts : Int, anchors : Int, panics : Int, late : [Tr!Runs -> Nat]]
      BY <1>7, <1>a DEF Tr!Panic
    <2>3. QED
      <3>1. \E m \in RunState : /\ tracker_runs' = [tracker_runs EXCEPT ![r] = m]
                                /\ m.best = Tr!None
        BY <2>1, <1>a, FreshRun
      <3>2. UNCHANGED <<tracker_watch, tracker_machine, tracker_phone, tracker_tracker>>
        BY <1>7 DEF Tr!Panic
      <3>3. QED
        BY <1>a, <2>2, <3>1, <3>2, FreshRun, RunWritten
  <1>8. QED
    BY <1>1, <1>2, <1>3, <1>4, <1>5, <1>6, <1>7 DEF Tr!Loop

LEMMA LiveWritten ==
  ASSUME tracker_tracker \in TrackerState, NEW f \in Tr!FixOf,
         tracker_tracker' = [tracker_tracker EXCEPT !.live = f]
  PROVE  /\ tracker_tracker' \in TrackerState /\ tracker_tracker'.live = f
         /\ tracker_tracker'.anchor = tracker_tracker.anchor
         /\ tracker_tracker'.run = tracker_tracker.run
         /\ tracker_tracker'.running = tracker_tracker.running
         /\ tracker_tracker'.providers = tracker_tracker.providers
  BY DEF TrackerState

LEMMA LoopRun ==
  ASSUME Tr!ConstantsOK, TrackerInv, NEW r \in Tr!Runs, Tr!Loop(r)
  PROVE  RunOK(r)'
  <1>. DEFINE n == tracker_runs[r]
              P == tracker_tracker.providers
  <1>a. /\ tracker_runs \in [Tr!Runs -> RunState] /\ n \in RunState /\ RunOK(r)
        /\ tracker_tracker \in TrackerState /\ tracker_count.late \in [Tr!Runs -> Nat]
        /\ P \in Seq(Sources)
    BY DEF TrackerInv, TrackerTyped, RunsAreOK, TrackerState
  <1>b. /\ tracker_tracker'.run = tracker_tracker.run
        /\ tracker_tracker'.providers = P
    <2>1. n.best \in Tr!FixOf
      BY <1>a DEF RunState
    <2>2. QED
      BY <1>a, <2>1, LoopSteps, LiveWritten
  <1>1. CASE Tr!Ask(r)
    <2>1. tracker_runs'[r].at = "asking" /\ tracker_runs'[r].todo = n.todo
      BY <1>1, <1>a DEF Tr!Ask, Tr!To, RunState
    <2>2. n.at = "next" /\ n.todo # <<>> /\ tracker_tracker.run = r /\ tracker_count' = tracker_count
      BY <1>1 DEF Tr!Ask, Tr!Cancelled
    <2>3. QED
      BY <1>a, <1>b, <2>1, <2>2 DEF RunOK
  <1>2. CASE Tr!Abandon(r)
    <2>1. tracker_runs'[r].at = "idle"
      BY <1>2, <1>a DEF Tr!Abandon, Tr!Drop
    <2>2. n.at = "next" /\ tracker_count' = tracker_count
      BY <1>2 DEF Tr!Abandon
    <2>3. QED
      BY <1>a, <1>b, <2>1, <2>2 DEF RunOK
  <1>3. CASE Tr!Answer(r)
    <2>1. tracker_runs'[r].at = "next"
      BY <1>3, <1>a DEF Tr!Answer
    <2>2. n.at = "asking" /\ tracker_count' = tracker_count
      BY <1>3 DEF Tr!Answer
    <2>3. tracker_count.late[r] = 0
      BY <1>a, <2>2 DEF RunOK
    <2>4. QED
      BY <1>a, <1>b, <2>1, <2>2, <2>3 DEF RunOK
  <1>4. CASE Tr!Store(r)
    <2>1. tracker_runs'[r].at = "idle"
      BY <1>4, <1>a DEF Tr!Store, Tr!Drop
    <2>2. n.at = "next" /\ n.todo = <<>>
      BY <1>4 DEF Tr!Store
    <2>3. tracker_count.late[r] = 0
      BY <1>a, <2>2 DEF RunOK
    <2>4. \/ tracker_count'.late[r] = 0
          \/ tracker_tracker.run # r /\ tracker_count'.late[r] = 1
      <3>1. \/ tracker_count'.late = tracker_count.late
            \/ tracker_count'.late = [tracker_count.late EXCEPT ![r] =
                                        IF Tr!Cancelled(r) THEN @ + 1 ELSE @]
        BY LoopSteps
      <3>2. CASE tracker_count'.late = tracker_count.late
        BY <2>3, <3>2
      <3>3. CASE tracker_count'.late = [tracker_count.late EXCEPT ![r] =
                                          IF Tr!Cancelled(r) THEN @ + 1 ELSE @]
        BY <1>a, <2>3, <3>3 DEF Tr!Cancelled
      <3>4. QED
        BY <3>1, <3>2, <3>3
    <2>5. QED
      BY <1>a, <1>b, <2>1, <2>2, <2>4 DEF RunOK
  <1>5. CASE Tr!Poll(r)
    <2>1. tracker_runs'[r].at = "next" /\ tracker_runs'[r].todo = P
      BY <1>5, <1>a DEF Tr!Poll, Tr!Refresh
    <2>2. n.at = "idle" /\ tracker_count' = tracker_count
      BY <1>5 DEF Tr!Poll
    <2>3. QED
      BY <1>a, <1>b, <2>1, <2>2 DEF RunOK
  <1>6. CASE Tr!Return(r)
    <2>1. tracker_runs'[r].at = "over"
      BY <1>6, <1>a DEF Tr!Return, Tr!Drop
    <2>2. n.at = "idle" /\ tracker_tracker.run # r /\ tracker_count' = tracker_count
      BY <1>6 DEF Tr!Return, Tr!Cancelled
    <2>3. QED
      BY <1>a, <1>b, <2>1, <2>2 DEF RunOK
  <1>7. CASE Tr!Panic(r)
    <2>1. \/ tracker_runs'[r].at = "next"
          \/ tracker_runs'[r].at = "over" /\ tracker_tracker.run # r
      BY <1>7, <1>a DEF Tr!Panic, Tr!Refresh, Tr!Drop, Tr!Cancelled
    <2>2. n.at = "asking"
      BY <1>7 DEF Tr!Panic
    <2>3. tracker_count.late[r] = 0
      BY <1>a, <2>2 DEF RunOK
    <2>4. tracker_count'.late = tracker_count.late
      BY <1>7, <2>2, LoopSteps
    <2>5. QED
      BY <1>a, <1>b, <2>1, <2>2, <2>3, <2>4 DEF RunOK
  <1>8. QED
    BY <1>1, <1>2, <1>3, <1>4, <1>5, <1>6, <1>7 DEF Tr!Loop

LEMMA LoopInv ==
  ASSUME Tr!ConstantsOK, TrackerInv, NEW r \in Tr!Runs, Tr!Loop(r)
  PROVE  TrackerInv'
  <1>a. Tr!Runs' = Tr!Runs /\ Tr!FixOf' = Tr!FixOf
    BY DEF Tr!Runs, Tr!FixOf
  <1>b. /\ TrackerTyped /\ HonestFixes /\ RunsAreOK /\ tracker_runs[r].best \in Tr!FixOf
        /\ Honest(tracker_runs[r].best) /\ tracker_tracker \in TrackerState
        /\ tracker_count.late \in [Tr!Runs -> Nat] /\ Honest(tracker_tracker.live)
    <2>1. tracker_runs[r] \in RunState
      BY DEF TrackerInv, TrackerTyped
    <2>2. tracker_runs[r].best \in Tr!FixOf
      BY <2>1 DEF RunState
    <2>3. QED
      BY <2>2 DEF TrackerInv, TrackerTyped, HonestFixes
  <1>c. \/ tracker_tracker' = tracker_tracker
        \/ tracker_tracker' = [tracker_tracker EXCEPT !.live = tracker_runs[r].best]
    BY LoopSteps
  <1>1. /\ tracker_tracker' \in TrackerState /\ Honest(tracker_tracker'.live)
        /\ tracker_tracker'.anchor = tracker_tracker.anchor
        /\ tracker_tracker'.run = tracker_tracker.run
        /\ tracker_tracker'.providers = tracker_tracker.providers
    BY <1>b, <1>c, LiveWritten
  <1>2. TrackerTyped'
    BY <1>a, <1>b, <1>1, LoopSteps DEF TrackerTyped, WatchState, RunState, TrackerState
  <1>3. HonestFixes'
    BY <1>a, <1>b, <1>1, LoopSteps DEF HonestFixes, Honest
  <1>4. ASSUME NEW q \in Tr!Runs, q # r
        PROVE  RunOK(q)'
    <2>1. tracker_runs'[q] = tracker_runs[q] /\ tracker_count'.late[q] = tracker_count.late[q]
      BY <1>b, <1>4, LoopSteps
    <2>2. RunOK(q)
      BY <1>b DEF RunsAreOK
    <2>3. QED
      BY <1>1, <2>1, <2>2 DEF RunOK
  <1>5. RunsAreOK'
    BY <1>a, <1>b, <1>1, <1>4, LoopRun DEF RunsAreOK, Tr!NoRun
  <1>6. QED
    BY <1>2, <1>3, <1>5 DEF TrackerInv

\* Nobody but a loop writes the runs, unless one is started.
LEMMA RunsLeftAlone ==
  ASSUME TrackerInv, UNCHANGED <<tracker_runs, tracker_count>>,
         tracker_tracker'.providers = tracker_tracker.providers,
         tracker_tracker'.run \in {tracker_tracker.run, Tr!NoRun}
  PROVE  RunsAreOK'
  <1>a. Tr!Runs' = Tr!Runs /\ Tr!NoRun' = Tr!NoRun /\ Tr!NoRun \notin Tr!Runs
    BY DEF Tr!Runs, Tr!NoRun
  <1>1. ASSUME NEW r \in Tr!Runs
        PROVE  RunOK(r)'
    <2>1. RunOK(r)
      BY DEF TrackerInv, RunsAreOK
    <2>2. tracker_tracker'.run = r => tracker_tracker.run = r
      BY <1>a
    <2>3. QED
      BY <2>1, <2>2 DEF RunOK
  <1>2. QED
    BY <1>a, <1>1 DEF RunsAreOK, TrackerInv

LEMMA WatchWritten ==
  ASSUME tracker_watch \in WatchState, NEW u \in Users, NEW half \in {"none", "arm", "disarm"}
  PROVE  /\ \A b \in BOOLEAN : [armed |-> b, half |-> [tracker_watch.half EXCEPT ![u] = half]]
                                 \in WatchState
         /\ [tracker_watch EXCEPT !.half[u] = half] \in WatchState
         /\ [tracker_watch EXCEPT !.half[u] = half].armed = tracker_watch.armed
         /\ [tracker_watch EXCEPT !.half[u] = half].half = [tracker_watch.half EXCEPT ![u] = half]
  BY DEF WatchState

LEMMA CountWritten ==
  ASSUME tracker_count \in [starts : Int, anchors : Int, panics : Int, late : [Tr!Runs -> Nat]]
  PROVE  /\ [tracker_count EXCEPT !.starts = @ + 1]
              \in [starts : Int, anchors : Int, panics : Int, late : [Tr!Runs -> Nat]]
         /\ [tracker_count EXCEPT !.anchors = @ + 1]
              \in [starts : Int, anchors : Int, panics : Int, late : [Tr!Runs -> Nat]]
         /\ [tracker_count EXCEPT !.starts = @ + 1].late = tracker_count.late
         /\ [tracker_count EXCEPT !.anchors = @ + 1].late = tracker_count.late
  OBVIOUS

\* RunOK only looks at how many a run has stored late.
LEMMA CountLeftAlone ==
  ASSUME TrackerInv, UNCHANGED <<tracker_runs, tracker_tracker>>,
         tracker_count'.late = tracker_count.late
  PROVE  RunsAreOK'
  BY DEF TrackerInv, RunsAreOK, RunOK, Tr!Runs, Tr!NoRun

LEMMA StartInv ==
  ASSUME Tr!ConstantsOK, TrackerInv, NEW u \in Users, Tr!Start(u)
  PROVE  TrackerInv'
  <1>a. /\ Tr!Runs' = Tr!Runs /\ Tr!FixOf' = Tr!FixOf /\ Tr!NoRun' = Tr!NoRun
        /\ Tr!NoRun \notin Tr!Runs
    BY DEF Tr!Runs, Tr!FixOf, Tr!NoRun
  <1>b. /\ TrackerTyped /\ HonestFixes /\ RunsAreOK /\ tracker_watch \in WatchState
        /\ tracker_tracker \in TrackerState /\ tracker_runs \in [Tr!Runs -> RunState]
    BY DEF TrackerInv, TrackerTyped
  <1>c. /\ UNCHANGED <<tracker_machine, tracker_phone, tracker_count>>
        /\ tracker_watch' = [tracker_watch EXCEPT !.half[u] = "none"]
    BY DEF Tr!Start
  <1>d. tracker_watch' \in WatchState
    BY <1>b, <1>c, WatchWritten
  <1>1. CASE UNCHANGED <<tracker_tracker, tracker_runs>>
    <2>1. TrackerTyped'
      BY <1>1, <1>a, <1>b, <1>c, <1>d DEF TrackerTyped, WatchState, RunState, TrackerState
    <2>2. HonestFixes'
      BY <1>1, <1>a, <1>b, <1>c DEF HonestFixes, Honest
    <2>3. RunsAreOK'
      BY <1>1, <1>c, CountLeftAlone
    <2>4. QED
      BY <2>1, <2>2, <2>3 DEF TrackerInv
  <1>2. ASSUME NEW r \in Tr!Runs, tracker_runs[r].at = "unused",
               tracker_tracker.providers # <<>>,
               tracker_tracker' = [tracker_tracker EXCEPT !.run = r, !.running = TRUE],
               Tr!Refresh(r)
        PROVE  TrackerInv'
    <2>. DEFINE m == [at |-> "next", todo |-> tracker_tracker.providers, best |-> Tr!None]
    <2>1. m \in RunState /\ Honest(m.best)
      BY <1>b, FreshRun
    <2>2. tracker_runs' = [tracker_runs EXCEPT ![r] = m]
      BY <1>2 DEF Tr!Refresh
    <2>3. /\ tracker_runs' \in [Tr!Runs -> RunState] /\ tracker_runs'[r] = m
          /\ \A q \in Tr!Runs : q # r => tracker_runs'[q] = tracker_runs[q]
      <3>. HIDE DEF m
      <3>1. QED
        BY <1>b, <2>1, <2>2, RunWritten
    <2>4. r \in Nat
      BY DEF Tr!Runs
    <2>5. /\ tracker_tracker' \in TrackerState /\ tracker_tracker'.run = r
          /\ tracker_tracker'.live = tracker_tracker.live
          /\ tracker_tracker'.anchor = tracker_tracker.anchor
          /\ tracker_tracker'.providers = tracker_tracker.providers
      BY <1>2, <1>b, <2>4 DEF TrackerState
    <2>6. TrackerTyped'
      BY <1>a, <1>b, <1>c, <1>d, <2>3, <2>5 DEF TrackerTyped, WatchState, RunState, TrackerState
    <2>7. HonestFixes'
      <3>1. \A q \in Tr!Runs : Honest(tracker_runs'[q].best)
        BY <1>b, <2>1, <2>3 DEF HonestFixes
      <3>2. QED
        BY <1>a, <1>b, <1>c, <2>5, <3>1 DEF HonestFixes, Honest
    <2>8. RunOK(r)'
      <3>1. tracker_count.late[r] = 0
        BY <1>2, <1>b DEF RunsAreOK, RunOK
      <3>2. QED
        BY <1>2, <1>c, <2>3, <2>5, <3>1 DEF RunOK
    <2>9. ASSUME NEW q \in Tr!Runs, q # r
          PROVE  RunOK(q)'
      <3>1. RunOK(q)
        BY <1>b DEF RunsAreOK
      <3>2. QED
        BY <1>c, <2>3, <2>5, <2>9, <3>1 DEF RunOK
    <2>10. RunsAreOK'
      BY <1>a, <2>5, <2>8, <2>9 DEF RunsAreOK
    <2>11. QED
      BY <2>6, <2>7, <2>10 DEF TrackerInv
  <1>3. QED
    BY <1>1, <1>2 DEF Tr!Start

LEMMA TrackerStep ==
  ASSUME Tr!ConstantsOK, TrackerInv, [Tr!Next]_Tr!vars
  PROVE  TrackerInv'
  <1>a. /\ Tr!Runs' = Tr!Runs /\ Tr!FixOf' = Tr!FixOf /\ Tr!NoRun' = Tr!NoRun
    BY DEF Tr!Runs, Tr!FixOf, Tr!NoRun
  <1>b. /\ TrackerTyped /\ HonestFixes /\ RunsAreOK /\ tracker_watch \in WatchState
        /\ tracker_tracker \in TrackerState /\ tracker_runs \in [Tr!Runs -> RunState]
        /\ tracker_phone \subseteq Tr!FixOf
        /\ tracker_machine \in [clock : 1 .. MaxClock, place : Places]
        /\ tracker_count \in [starts : Int, anchors : Int, panics : Int, late : [Tr!Runs -> Nat]]
    BY DEF TrackerInv, TrackerTyped
  <1>. USE DEF Tr!ConstantsOK
  <1>1. ASSUME NEW u \in Users, Tr!Arm(u)
        PROVE  TrackerInv'
    <2>1. UNCHANGED <<tracker_machine, tracker_tracker, tracker_runs, tracker_phone>>
      BY <1>1 DEF Tr!Arm
    <2>2. tracker_watch' \in WatchState
      BY <1>1, <1>b, WatchWritten DEF Tr!Arm
    <2>3. /\ tracker_count' \in [starts : Int, anchors : Int, panics : Int, late : [Tr!Runs -> Nat]]
          /\ tracker_count'.late = tracker_count.late
      BY <1>1, <1>b, CountWritten DEF Tr!Arm
    <2>4. QED
      BY <1>a, <1>b, <2>1, <2>2, <2>3, CountLeftAlone DEF TrackerInv, TrackerTyped, HonestFixes, Honest
  <1>2. ASSUME NEW u \in Users, Tr!Disarm(u)
        PROVE  TrackerInv'
    <2>1. UNCHANGED <<tracker_machine, tracker_tracker, tracker_runs, tracker_phone, tracker_count>>
      BY <1>2 DEF Tr!Disarm
    <2>2. tracker_watch' \in WatchState
      BY <1>2, <1>b, WatchWritten DEF Tr!Disarm
    <2>3. QED
      BY <1>a, <1>b, <2>1, <2>2, CountLeftAlone DEF TrackerInv, TrackerTyped, HonestFixes, Honest
  <1>3. ASSUME NEW u \in Users, Tr!Stop(u)
        PROVE  TrackerInv'
    <2>1. UNCHANGED <<tracker_machine, tracker_runs, tracker_phone, tracker_count>>
      BY <1>3 DEF Tr!Stop
    <2>2. tracker_watch' \in WatchState
      BY <1>3, <1>b, WatchWritten DEF Tr!Stop
    <2>3. /\ tracker_tracker' \in TrackerState /\ tracker_tracker'.run = Tr!NoRun
          /\ tracker_tracker'.live = tracker_tracker.live
          /\ tracker_tracker'.anchor = tracker_tracker.anchor
          /\ tracker_tracker'.providers = tracker_tracker.providers
      BY <1>3, <1>b DEF Tr!Stop, TrackerState, Tr!NoRun
    <2>4. RunsAreOK'
      BY <2>1, <2>3, RunsLeftAlone
    <2>5. QED
      BY <1>a, <1>b, <2>1, <2>2, <2>3, <2>4 DEF TrackerInv, TrackerTyped, HonestFixes, Honest
  <1>4. CASE Tr!Capture
    <2>1. UNCHANGED <<tracker_machine, tracker_watch, tracker_tracker, tracker_runs>>
      BY <1>4 DEF Tr!Capture
    <2>2. /\ tracker_count' \in [starts : Int, anchors : Int, panics : Int, late : [Tr!Runs -> Nat]]
          /\ tracker_count'.late = tracker_count.late
      BY <1>4, <1>b, CountWritten DEF Tr!Capture
    <2>3. PICK p \in Places :
            tracker_phone' = {[from |-> "phone", at |-> p, acc |-> Accuracy["phone"], ts |-> 0,
                               true |-> p]}
      BY <1>4 DEF Tr!Capture
    <2>4. tracker_phone' \subseteq Tr!FixOf /\ \A f \in tracker_phone' : f.at = f.true
      <3>1. Accuracy["phone"] \in Nat
        OBVIOUS
      <3>2. QED
        BY <2>3, <3>1 DEF Tr!FixOf
    <2>5. RunsAreOK'
      BY <2>1, <2>2, CountLeftAlone
    <2>6. QED
      BY <1>a, <1>b, <2>1, <2>2, <2>4, <2>5 DEF TrackerInv, TrackerTyped, HonestFixes, Honest
  <1>5. CASE Tr!SetAnchor
    <2>1. UNCHANGED <<tracker_machine, tracker_watch, tracker_runs, tracker_count>>
          /\ tracker_phone' = {}
      BY <1>5 DEF Tr!SetAnchor
    <2>2. PICK f \in tracker_phone : \/ tracker_tracker' = tracker_tracker
                                     \/ tracker_tracker' = [tracker_tracker EXCEPT !.anchor = f]
      BY <1>5 DEF Tr!SetAnchor
    <2>3. f \in Tr!FixOf /\ f.at = f.true
      BY <1>b DEF HonestFixes
    <2>4. /\ tracker_tracker' \in TrackerState /\ tracker_tracker'.run = tracker_tracker.run
          /\ tracker_tracker'.live = tracker_tracker.live
          /\ tracker_tracker'.anchor \in {tracker_tracker.anchor, f}
          /\ tracker_tracker'.providers = tracker_tracker.providers
      BY <2>2, <2>3, <1>b DEF TrackerState
    <2>5. RunsAreOK'
      BY <2>1, <2>4, RunsLeftAlone
    <2>6. QED
      BY <1>a, <1>b, <2>1, <2>3, <2>4, <2>5 DEF TrackerInv, TrackerTyped, HonestFixes, Honest
  <1>6. CASE Tr!Tick
    <2>1. UNCHANGED <<tracker_watch, tracker_tracker, tracker_runs, tracker_phone, tracker_count>>
      BY <1>6 DEF Tr!Tick
    <2>2. tracker_machine' \in [clock : 1 .. MaxClock, place : Places]
      BY <1>6, <1>b DEF Tr!Tick, Tr!clock
    <2>3. QED
      BY <1>a, <1>b, <2>1, <2>2, CountLeftAlone DEF TrackerInv, TrackerTyped, HonestFixes, Honest
  <1>7. CASE UNCHANGED Tr!vars
    BY <1>7, <1>a, <1>b, CountLeftAlone DEF Tr!vars, TrackerInv, TrackerTyped, HonestFixes, Honest
  <1>8. QED
    BY <1>1, <1>2, <1>3, <1>4, <1>5, <1>6, <1>7, StartInv, LoopInv DEF Tr!Next

-----------------------------------------------------------------------------
(***************************************************************************)
(* One user: arming and disarming come one after the other.                *)
(***************************************************************************)
OneUser == \E u : Users = {u}

LEMMA WithTheWatchStep ==
  ASSUME Tr!ConstantsOK, OneUser, TrackerInv, WithTheWatch, [Tr!Next]_Tr!vars
  PROVE  WithTheWatch'
  <1>. PICK u : Users = {u}
    BY DEF OneUser
  <1>a. /\ tracker_watch \in WatchState /\ tracker_tracker \in TrackerState
        /\ Tr!NoRun = 0 /\ Tr!NoRun' = 0 /\ Tr!NoRun \notin Tr!Runs
        /\ tracker_watch.half \in [Users -> {"none", "arm", "disarm"}]
    BY DEF TrackerInv, TrackerTyped, Tr!NoRun, WatchState, Tr!Runs
  <1>b. /\ tracker_tracker.running = (tracker_tracker.run # 0)
        /\ tracker_tracker.run # 0 => tracker_tracker.providers # <<>>
        /\ tracker_watch.half[u] = "arm" => tracker_watch.armed
        /\ tracker_watch.half[u] = "disarm" => ~tracker_watch.armed
        /\ tracker_watch.half[u] = "none" =>
             (tracker_tracker.run # 0) = (tracker_watch.armed /\ tracker_tracker.providers # <<>>)
    BY <1>a DEF WithTheWatch
  <1>1. CASE Tr!Arm(u)
    BY <1>1, <1>a, <1>b DEF Tr!Arm, WithTheWatch
  <1>2. CASE Tr!Disarm(u)
    BY <1>2, <1>a, <1>b DEF Tr!Disarm, WithTheWatch
  <1>3. CASE Tr!Start(u)
    <2>a. /\ tracker_watch' = [tracker_watch EXCEPT !.half[u] = "none"]
          /\ u \in Users
      BY <1>3 DEF Tr!Start
    <2>1. tracker_watch'.armed = tracker_watch.armed /\ tracker_watch'.half[u] = "none"
      BY <2>a, <1>a DEF WatchState
    <2>2. tracker_watch.armed
      BY <1>3, <1>b DEF Tr!Start
    <2>3. CASE tracker_tracker.running \/ tracker_tracker.providers = <<>>
      <3>1. tracker_tracker' = tracker_tracker
        BY <1>3, <2>3 DEF Tr!Start
      <3>2. QED
        BY <1>a, <1>b, <2>1, <2>2, <2>3, <3>1 DEF WithTheWatch
    <2>4. CASE ~tracker_tracker.running /\ tracker_tracker.providers # <<>>
      <3>1. PICK r \in Tr!Runs :
              tracker_tracker' = [tracker_tracker EXCEPT !.run = r, !.running = TRUE]
        BY <1>3, <2>4 DEF Tr!Start
      <3>2. /\ tracker_tracker'.run = r /\ tracker_tracker'.running = TRUE
            /\ tracker_tracker'.providers = tracker_tracker.providers
        BY <3>1, <1>a DEF TrackerState
      <3>3. r # 0
        BY <1>a
      <3>4. QED
        BY <1>a, <2>1, <2>2, <2>4, <3>2, <3>3 DEF WithTheWatch
    <2>5. QED
      BY <2>3, <2>4
  <1>4. CASE Tr!Stop(u)
    <2>1. tracker_watch'.armed = tracker_watch.armed /\ tracker_watch'.half[u] = "none"
      BY <1>4, <1>a, WatchWritten DEF Tr!Stop
    <2>2. ~tracker_watch.armed
      BY <1>4, <1>b DEF Tr!Stop
    <2>3. /\ tracker_tracker'.run = 0 /\ tracker_tracker'.running = FALSE
          /\ tracker_tracker'.providers = tracker_tracker.providers
      BY <1>4, <1>a DEF Tr!Stop, TrackerState
    <2>4. QED
      BY <1>a, <2>1, <2>2, <2>3 DEF WithTheWatch
  <1>5. ASSUME /\ tracker_watch' = tracker_watch
               /\ tracker_tracker'.run = tracker_tracker.run
               /\ tracker_tracker'.running = tracker_tracker.running
               /\ tracker_tracker'.providers = tracker_tracker.providers
        PROVE  WithTheWatch'
    BY <1>5, <1>a, <1>b DEF WithTheWatch
  <1>6. ASSUME NEW r \in Tr!Runs, Tr!Loop(r)
        PROVE  WithTheWatch'
    <2>1. tracker_runs[r].best \in Tr!FixOf
      BY DEF TrackerInv, TrackerTyped, RunState
    <2>2. QED
      BY <1>5, <1>6, <1>a, <2>1, LoopSteps, LiveWritten
  <1>7. CASE Tr!SetAnchor
    <2>1. PICK f \in tracker_phone : \/ tracker_tracker' = tracker_tracker
                                     \/ tracker_tracker' = [tracker_tracker EXCEPT !.anchor = f]
      BY <1>7 DEF Tr!SetAnchor
    <2>2. /\ tracker_tracker'.run = tracker_tracker.run
          /\ tracker_tracker'.running = tracker_tracker.running
          /\ tracker_tracker'.providers = tracker_tracker.providers
      BY <1>a, <2>1 DEF TrackerState
    <2>3. QED
      BY <1>5, <1>7, <2>2 DEF Tr!SetAnchor
  <1>8. CASE UNCHANGED <<tracker_watch, tracker_tracker>>
    BY <1>5, <1>8
  <1>9. QED
    BY <1>1, <1>2, <1>3, <1>4, <1>6, <1>7, <1>8
       DEF Tr!Next, Tr!vars, Tr!Capture, Tr!Tick

-----------------------------------------------------------------------------
(***************************************************************************)
(* What is shown.                                                          *)
(***************************************************************************)
\* Of two honest fixes, one is contradicted by the other only if they are of two places,
\* and the one that is shown has a point in common with the one just measured.
LEMMA SelectIsTrue ==
  ASSUME Tr!ConstantsOK, TrackerInv
  PROVE  Tr!ShownAgrees /\ Tr!MovedIsReal
  <1>. DEFINE a == tracker_tracker.anchor
              b == tracker_tracker.live
  <1>1. /\ a \in Tr!FixOf /\ b \in Tr!FixOf
        /\ a.at = a.true /\ Honest(b)
    <2>1. tracker_tracker \in TrackerState
      BY DEF TrackerInv, TrackerTyped
    <2>2. a \in Tr!FixOf /\ b \in Tr!FixOf
      BY <2>1 DEF TrackerState
    <2>3. a.at = a.true /\ Honest(b)
      BY DEF TrackerInv, HonestFixes
    <2>4. QED
      BY <2>2, <2>3
  <1>2. \A f \in Tr!FixOf : f.at \in Int /\ f.true \in Int /\ f.acc \in Nat
    <2>1. \A n \in Places \cup {0} : n \in Int
      BY DEF Tr!ConstantsOK
    <2>2. QED
      BY <2>1 DEF Tr!FixOf
  <1>3. /\ a.at \in Int /\ a.true \in Int /\ a.acc \in Nat
        /\ b.at \in Int /\ b.true \in Int /\ b.acc \in Nat
    BY <1>1, <1>2
  <1>4. Tr!FreshOrNil(a) \in {a, Tr!None} /\ Tr!FreshOrNil(b) \in {b, Tr!None}
    BY DEF Tr!FreshOrNil
  <1>. HIDE DEF a, b
  <1>5. Tr!ShownAgrees
    <2>1. SUFFICES ASSUME Tr!FreshOrNil(b) # Tr!None
                   PROVE  Tr!DistanceM(Tr!Snapshot.best, b) <= Tr!Snapshot.best.acc + b.acc
      BY <1>4 DEF Tr!ShownAgrees, b
    <2>2. Tr!FreshOrNil(b) = b
      BY <1>4, <2>1
    <2>3. Tr!DistanceM(b, b) <= b.acc + b.acc
      BY <1>3 DEF Tr!DistanceM, Tr!Apart
    <2>4. CASE Tr!FreshOrNil(a) = Tr!None
      <3>1. Tr!Snapshot.best = b
        BY <2>1, <2>2, <2>4 DEF Tr!Snapshot, Tr!SelectFix, a, b
      <3>2. QED
        BY <2>3, <3>1
    <2>5. CASE Tr!FreshOrNil(a) = a /\ a # Tr!None
      <3>1. CASE Tr!DistanceM(a, b) > a.acc + b.acc
        <4>1. Tr!Snapshot.best = b
          BY <2>1, <2>2, <2>5, <3>1 DEF Tr!Snapshot, Tr!SelectFix, a, b
        <4>2. QED
          BY <2>3, <4>1
      <3>2. CASE ~(Tr!DistanceM(a, b) > a.acc + b.acc)
        <4>1. Tr!Snapshot.best \in {a, b}
          BY <2>1, <2>2, <2>5, <3>2 DEF Tr!Snapshot, Tr!SelectFix, a, b
        <4>2. Tr!DistanceM(a, b) <= a.acc + b.acc
          BY <1>3, <3>2 DEF Tr!DistanceM, Tr!Apart
        <4>3. QED
          BY <2>3, <4>1, <4>2
      <3>3. QED
        BY <3>1, <3>2
    <2>6. QED
      BY <1>4, <2>4, <2>5
  <1>6. Tr!MovedIsReal
    <2>1. SUFFICES ASSUME Tr!Snapshot.moved
                   PROVE  b.true # a.true
      BY DEF Tr!MovedIsReal, a, b
    <2>2. Tr!FreshOrNil(a) # Tr!None /\ Tr!FreshOrNil(b) # Tr!None
          /\ Tr!DistanceM(Tr!FreshOrNil(a), Tr!FreshOrNil(b))
               > Tr!FreshOrNil(a).acc + Tr!FreshOrNil(b).acc
      BY <2>1 DEF Tr!Snapshot, Tr!SelectFix, a, b
    <2>3. Tr!DistanceM(a, b) > a.acc + b.acc
      BY <1>4, <2>2
    <2>4. QED
      BY <1>1, <1>3, <2>3 DEF Tr!DistanceM, Tr!Apart, Honest, a, b
  <1>7. QED
    BY <1>5, <1>6

-----------------------------------------------------------------------------
\* The tracker's fixes are honest and its runs in order at every moment, whoever arms
\* and disarms, however they overlap.
THEOREM TrackerInvariant == ASSUME Tr!ConstantsOK PROVE Tr!Spec => []TrackerInv
  <1>1. Tr!Init => TrackerInv
    BY TrackerInit
  <1>2. TrackerInv /\ [Tr!Next]_Tr!vars => TrackerInv'
    BY TrackerStep
  <1>3. QED
    BY <1>1, <1>2, PTL DEF Tr!Spec

\* Whoever arms and disarms, a watch that is over speaks once more at most, and what is
\* shown is never contradicted by what was just measured, nor a theft made up.
THEOREM PositionIsHonest ==
  ASSUME Tr!ConstantsOK
  PROVE  Tr!Spec => [](Tr!SpeaksOnceMore /\ Tr!ShownAgrees /\ Tr!MovedIsReal)
  <1>1. TrackerInv => Tr!SpeaksOnceMore /\ Tr!ShownAgrees /\ Tr!MovedIsReal
    BY SelectIsTrue DEF TrackerInv, RunsAreOK, RunOK, Tr!SpeaksOnceMore
  <1>2. QED
    BY <1>1, TrackerInvariant, PTL

\* With one user, whose arming and disarming come one after the other, a run that nobody
\* has cancelled is there when the watch is on and only then, and its loop is alive; and
\* the position it finds is shown truly.  (Start, Stop, loop, refresh, selectFix.)
THEOREM PositionWithTheWatch ==
  ASSUME Tr!ConstantsOK, OneUser
  PROVE  Tr!Spec => []Tr!LocationIsTrue
  <1>1. Tr!Init => TrackerInv /\ WithTheWatch
    BY TrackerInit
  <1>2. TrackerInv /\ WithTheWatch /\ [Tr!Next]_Tr!vars => (TrackerInv /\ WithTheWatch)'
    BY TrackerStep, WithTheWatchStep
  <1>3. TrackerInv /\ WithTheWatch => Tr!LocationIsTrue
    <2>1. ASSUME TrackerInv, WithTheWatch
          PROVE  Tr!RunsWithTheWatch
      <3>1. PICK u : Users = {u}
        BY DEF OneUser
      <3>2. \A r \in Tr!Runs : tracker_tracker.run = r => tracker_runs[r].at \notin {"unused", "over"}
        BY <2>1 DEF TrackerInv, RunsAreOK, RunOK
      <3>3. tracker_tracker.run # Tr!NoRun => tracker_tracker.run \in Tr!Runs
        BY <2>1 DEF TrackerInv, RunsAreOK
      <3>4. QED
        BY <2>1, <3>1, <3>2, <3>3 DEF WithTheWatch, Tr!RunsWithTheWatch
    <2>2. TrackerInv => Tr!SpeaksOnceMore
      BY DEF TrackerInv, RunsAreOK, RunOK, Tr!SpeaksOnceMore
    <2>3. QED
      BY <2>1, <2>2, SelectIsTrue DEF Tr!LocationIsTrue
  <1>4. QED
    BY <1>1, <1>2, <1>3, PTL DEF Tr!Spec

-----------------------------------------------------------------------------
(***************************************************************************)
(* Motion.                                                                 *)
(***************************************************************************)
Moment == [at : Nat, place : Nat]
LoopState == [pc : {"none", "warmup", "session", "watch", "send", "over"}, watch : Nat,
              reference : Nat, last : Nat, detector : Nat]
Owned == [watch : Nat, detector : Nat]
Detecting == [reference : Nat, consecutive : Nat, triggered : BOOLEAN]

MotionTyped ==
  /\ motion_now \in Moment /\ motion_watch \in 0 .. MaxWatches
  /\ motion_run \in [Mo!Runs -> LoopState] /\ motion_sensor \in Owned
  /\ motion_detector \in [Mo!Runs -> Detecting]
  /\ motion_alerts \in [Mo!Watches -> Nat]
  /\ motion_firsts \in [Mo!Watches -> Int]
  /\ motion_counted \in [Mo!Runs -> SUBSET Nat]

Live(r) == motion_run[r].pc \notin {"none", "over"}
Using(r) == motion_run[r].pc \in {"watch", "send"}

\* A run belongs to a watch that has begun, and is the only one of its watch that is not
\* over.
OneALoop ==
  /\ motion_armed => motion_watch # 0
  /\ \A r \in Mo!Runs : /\ motion_run[r].pc # "none" => motion_run[r].watch \in 1 .. motion_watch
                        /\ motion_run[r].last <= motion_now.at
  /\ \A q, r \in Mo!Runs :
       Live(q) /\ Live(r) /\ motion_run[q].watch = motion_run[r].watch => q = r

\* A watch has one detector, made by a run of its own, over all its runs.
OneADetector ==
  /\ motion_sensor.watch <= motion_watch
  /\ motion_sensor.watch # 0 =>
       /\ motion_sensor.detector \in Mo!Runs
       /\ motion_run[motion_sensor.detector].watch = motion_sensor.watch
       /\ motion_run[motion_sensor.detector].pc # "none"
       /\ motion_detector[motion_sensor.detector].reference = motion_firsts[motion_sensor.watch]
  /\ \A w \in Mo!Watches : w > motion_sensor.watch => motion_alerts[w] = 0 /\ motion_firsts[w] = -1
  /\ \A r \in Mo!Runs : Using(r) =>
       /\ motion_run[r].detector \in Mo!Runs
       /\ motion_run[motion_run[r].detector].watch = motion_run[r].watch
       /\ motion_run[motion_run[r].detector].pc # "none"
       /\ motion_run[r].watch <= motion_sensor.watch
       /\ motion_run[r].watch = motion_sensor.watch => motion_run[r].detector = motion_sensor.detector

\* What has been said is marked, and what is about to be said is not.
SaidIsMarked ==
  /\ motion_sensor.watch # 0 =>
       motion_alerts[motion_sensor.watch] = 0 \/ motion_detector[motion_sensor.detector].triggered
  /\ \A r \in Mo!Runs : Using(r) =>
       motion_alerts[motion_run[r].watch] = 0 \/ motion_detector[motion_run[r].detector].triggered
  /\ \A r \in Mo!Runs : motion_run[r].pc = "send" => ~motion_detector[motion_run[r].detector].triggered

\* A detector counts readings, each once: those to come are later.
CountsReadings ==
  /\ \A d \in Mo!Runs : /\ IsFiniteSet(motion_counted[d])
                        /\ motion_detector[d].consecutive <= Cardinality(motion_counted[d])
  /\ \A r \in Mo!Runs : Using(r) =>
       \A n \in motion_counted[motion_run[r].detector] : n <= motion_run[r].last

MotionInv == /\ MotionTyped /\ OneALoop /\ OneADetector /\ SaidIsMarked /\ CountsReadings
             /\ Mo!MotionIsReal

LEMMA SameCardinality == \A S : Mo!Cardinality(S) = Cardinality(S)
  BY DEF Mo!Cardinality, Cardinality

LEMMA MotionInit == Mo!ConstantsOK /\ Mo!Init => MotionInv
  <1>. SUFFICES ASSUME Mo!ConstantsOK, Mo!Init PROVE MotionInv
    OBVIOUS
  <1>1. MotionTyped
    BY DEF Mo!ConstantsOK, Mo!Init, MotionTyped, Moment, LoopState, Owned, Detecting,
           Mo!NoDetector, Mo!NoRun, Mo!Runs, Mo!Watches
  <1>2. \A r \in Mo!Runs : /\ motion_run[r].pc = "none" /\ motion_run[r].last = 0
                           /\ motion_detector[r].consecutive = 0 /\ motion_counted[r] = {}
    BY DEF Mo!Init, Mo!NoDetector
  <1>3. OneALoop
    BY <1>2 DEF Mo!Init, OneALoop, Live
  <1>4. OneADetector
    BY <1>2 DEF Mo!Init, OneADetector, Using
  <1>5. SaidIsMarked
    BY <1>2 DEF Mo!Init, SaidIsMarked, Using
  <1>6. CountsReadings
    BY <1>2, FS_EmptySet DEF CountsReadings, Using
  <1>7. Mo!MotionIsReal
    BY <1>2 DEF Mo!Init, Mo!MotionIsReal, Mo!OneEventAWatch, Mo!MeasuredFromArming,
                Mo!ThreeReadings
  <1>8. QED
    BY <1>1, <1>3, <1>4, <1>5, <1>6, <1>7 DEF MotionInv

Same == UNCHANGED <<motion_sensor, motion_detector, motion_alerts, motion_firsts, motion_counted>>

\* What a step that neither looks nor speaks does to a run: nothing, or it is somewhere
\* where it uses no detector, and of the watch it was of.
Aside(r) ==
  \/ motion_run'[r] = motion_run[r]
  \/ /\ motion_run'[r].pc \notin {"watch", "send"}
     /\ motion_run[r].pc # "none" =>
          motion_run'[r].watch = motion_run[r].watch /\ motion_run'[r].pc # "none"

LEMMA AsideKeeps ==
  ASSUME MotionInv, Same, \A r \in Mo!Runs : Aside(r),
         motion_watch \in Nat, motion_watch' \in Nat, motion_watch <= motion_watch',
         \/ motion_now' = motion_now
         \/ motion_now'.at = motion_now.at + 1 /\ motion_now.at \in Nat
  PROVE  OneADetector' /\ SaidIsMarked' /\ CountsReadings' /\ Mo!MotionIsReal'
  <1>1. \A r \in Mo!Runs : Using(r)' => Using(r) /\ motion_run'[r] = motion_run[r]
    BY DEF Aside, Using
  <1>2. \A r \in Mo!Runs : motion_run[r].pc # "none" =>
          motion_run'[r].pc # "none" /\ motion_run'[r].watch = motion_run[r].watch
    BY DEF Aside
  <1>3. OneADetector'
    <2>1. motion_sensor'.watch <= motion_watch'
      BY DEF MotionInv, OneADetector, Same, MotionTyped, Owned
    <2>2. QED
      BY <1>1, <1>2, <2>1 DEF MotionInv, OneADetector, Same
  <1>4. SaidIsMarked'
    <2>1. \A r \in Mo!Runs : motion_run'[r].pc = "send" => motion_run[r] = motion_run'[r]
      BY DEF Aside
    <2>2. QED
      BY <1>1, <2>1 DEF MotionInv, SaidIsMarked, Same
  <1>5. CountsReadings'
    BY <1>1 DEF MotionInv, CountsReadings, Same
  <1>6. Mo!OneEventAWatch' /\ Mo!MeasuredFromArming'
    BY <1>1 DEF MotionInv, Mo!MotionIsReal, Mo!OneEventAWatch, Mo!MeasuredFromArming, Same, Using
  <1>7. Mo!ThreeReadings'
    <2>1. SUFFICES ASSUME NEW r \in Mo!Runs, motion_run'[r].pc = "send",
                          motion_run'[r].last = motion_now'.at
                   PROVE  \/ Mo!Cardinality(motion_counted'[motion_run'[r].detector]) >= 3
                          \/ Mo!Distance(motion_run[r].detector)' >= Far
      BY DEF Mo!ThreeReadings, Mo!Distance
    <2>2. motion_run'[r] = motion_run[r]
      BY <2>1 DEF Aside
    <2>3. motion_run[r].last <= motion_now.at
      BY DEF MotionInv, OneALoop
    <2>4. motion_now' = motion_now
      <3>1. motion_run[r].last \in Nat /\ motion_now.at \in Nat
        BY DEF MotionInv, MotionTyped, Moment, LoopState
      <3>2. CASE motion_now'.at = motion_now.at + 1
        BY <2>1, <2>2, <2>3, <3>1, <3>2
      <3>3. QED
        BY <3>2
    <2>5. QED
      BY <2>1, <2>2, <2>4 DEF MotionInv, Mo!MotionIsReal, Mo!ThreeReadings, Same, Mo!Distance
  <1>8. QED
    BY <1>3, <1>4, <1>5, <1>6, <1>7 DEF Mo!MotionIsReal

\* What the steps of a run do to it; the other runs are left alone.
LEMMA RunFacts ==
  ASSUME MotionTyped, NEW r \in Mo!Runs
  PROVE  /\ Mo!Start(r) => /\ motion_run'[r].pc = "warmup" /\ motion_run'[r].watch = motion_watch
                           /\ motion_run'[r].last = motion_run[r].last
         /\ Mo!GiveUp(r) => motion_run'[r] = [motion_run[r] EXCEPT !.pc = "over"]
         /\ Mo!FirstReading(r) =>
              /\ motion_run'[r].pc = "session" /\ motion_run'[r].watch = motion_run[r].watch
              /\ motion_run'[r].last = motion_now.at
         /\ Mo!Start(r) \/ Mo!GiveUp(r) \/ Mo!FirstReading(r) =>
              \A q \in Mo!Runs \ {r} : motion_run'[q] = motion_run[q]
  BY DEF MotionTyped, LoopState, Mo!Start, Mo!GiveUp, Mo!FirstReading, Mo!Goto

\* No other run goes by the detector of a run's watch.
LEMMA SoleUser ==
  ASSUME MotionInv, NEW r \in Mo!Runs, Live(r), NEW d \in Mo!Runs,
         motion_run[d].watch = motion_run[r].watch,
         NEW q \in Mo!Runs, Using(q), motion_run[q].detector = d
  PROVE  q = r
  BY DEF MotionInv, OneADetector, OneALoop, Using, Live

\* session, of a run r whose watch is still on: it goes by the detector of its watch, or
\* makes it, and nothing has counted towards it yet.
Goes(r, d) ==
  LET w == motion_run[r].watch IN
  /\ w = motion_watch /\ motion_run[r].pc = "session"
  /\ motion_run' = [motion_run EXCEPT ![r].pc = "watch", ![r].detector = d]
  /\ motion_sensor' = [watch |-> w, detector |-> d]
  /\ motion_counted' = [motion_counted EXCEPT ![d] = {}]
  /\ UNCHANGED <<motion_now, motion_watch, motion_alerts>>
  /\ \/ /\ motion_sensor.watch = w /\ d = motion_sensor.detector
        /\ motion_detector' = [motion_detector EXCEPT ![d] = [@ EXCEPT !.consecutive = 0]]
        /\ motion_firsts' = motion_firsts
     \/ /\ motion_sensor.watch < w /\ d = r
        /\ motion_detector' = [motion_detector EXCEPT ![r] =
             [reference |-> motion_run[r].reference, consecutive |-> 0, triggered |-> FALSE]]
        /\ motion_firsts' = [motion_firsts EXCEPT ![w] = motion_run[r].reference]

LEMMA SessionGoes ==
  ASSUME MotionInv, NEW r \in Mo!Runs, Mo!Session(r)
  PROVE  \/ motion_run' = [motion_run EXCEPT ![r].pc = "over"]
             /\ motion_run[r].pc = "session"
             /\ UNCHANGED <<motion_now, motion_watch, motion_sensor, motion_detector,
                            motion_alerts, motion_firsts, motion_counted>>
         \/ \E d \in Mo!Runs : Goes(r, d)
  <1>. DEFINE w == motion_run[r].watch
              kept == motion_sensor.watch = w
  <1>1. CASE Mo!Cancelled(w)
    BY <1>1 DEF Mo!Session, Mo!Goto
  <1>2. CASE ~Mo!Cancelled(w)
    <2>1. /\ motion_run[r].pc = "session" /\ w \in 1 .. motion_watch /\ motion_watch \in Nat
          /\ motion_watch \in 0 .. MaxWatches
      BY <1>2 DEF Mo!Session, MotionInv, OneALoop, MotionTyped
    <2>2. w = motion_watch
      BY <1>2, <2>1 DEF Mo!Cancelled
    <2>3. CASE kept
      <3>. DEFINE d == motion_sensor.detector
      <3>1. /\ d \in Mo!Runs
            /\ motion_detector[d].reference = motion_firsts[w]
        BY <2>1, <2>3 DEF MotionInv, OneADetector
      <3>2. motion_firsts[w] # -1
        BY <3>1 DEF MotionInv, MotionTyped, Detecting
      <3>3. motion_firsts' = motion_firsts
        BY <1>2, <3>2 DEF Mo!Session, MotionInv, MotionTyped
      <3>4. Goes(r, d)
        BY <1>2, <2>1, <2>2, <2>3, <3>3 DEF Mo!Session, Goes
      <3>5. QED
        BY <3>1, <3>4
    <2>4. CASE ~kept
      <3>1. motion_sensor.watch < w /\ w \in Mo!Watches
        BY <2>1, <2>2, <2>4 DEF MotionInv, OneADetector, MotionTyped, Owned, Mo!Watches
      <3>2. motion_firsts[w] = -1
        BY <3>1 DEF MotionInv, OneADetector
      <3>3. Goes(r, r)
        BY <1>2, <2>1, <2>2, <2>4, <3>1, <3>2 DEF Mo!Session, Goes
      <3>4. QED
        BY <3>3
    <2>5. QED
      BY <2>3, <2>4
  <1>3. QED
    BY <1>1, <1>2

\* The same, field by field.
LEMMA GoesFields ==
  ASSUME Mo!ConstantsOK, MotionInv, NEW r \in Mo!Runs, NEW d \in Mo!Runs, Goes(r, d)
  PROVE  /\ motion_run[r].watch = motion_watch /\ motion_watch \in Mo!Watches
         /\ motion_run[d].watch = motion_watch /\ Live(r) /\ ~Using(r)
         /\ motion_run[d].pc # "none"
         /\ motion_run'[r].pc = "watch" /\ motion_run'[r].detector = d
         /\ motion_run'[r].watch = motion_watch /\ motion_run'[r].last = motion_run[r].last
         /\ \A q \in Mo!Runs \ {r} : motion_run'[q] = motion_run[q]
         /\ motion_sensor'.watch = motion_watch /\ motion_sensor'.detector = d
         /\ \A x \in Mo!Runs \ {d} : /\ motion_counted'[x] = motion_counted[x]
                                     /\ motion_detector'[x] = motion_detector[x]
         /\ motion_counted'[d] = {} /\ motion_detector'[d].consecutive = 0
         /\ motion_detector'[d].reference = motion_firsts'[motion_watch]
         /\ motion_detector'[d].triggered \in BOOLEAN
         /\ motion_alerts[motion_watch] = 0 \/ motion_detector'[d].triggered
         /\ \A v \in Mo!Watches : v # motion_watch => motion_firsts'[v] = motion_firsts[v]
         /\ motion_run' \in [Mo!Runs -> LoopState] /\ motion_sensor' \in Owned
         /\ motion_detector' \in [Mo!Runs -> Detecting] /\ motion_firsts' \in [Mo!Watches -> Int]
         /\ motion_counted' \in [Mo!Runs -> SUBSET Nat]
  <1>1. /\ motion_run \in [Mo!Runs -> LoopState] /\ motion_detector \in [Mo!Runs -> Detecting]
        /\ motion_firsts \in [Mo!Watches -> Int] /\ motion_counted \in [Mo!Runs -> SUBSET Nat]
        /\ motion_sensor \in Owned /\ motion_watch \in 0 .. MaxWatches /\ r \in Nat /\ d \in Nat
    BY DEF MotionInv, MotionTyped, Mo!Runs
  <1>2. /\ motion_run[r].pc = "session" /\ motion_run[r].watch = motion_watch
        /\ motion_watch \in Mo!Watches
    BY <1>1 DEF Goes, MotionInv, OneALoop, Mo!Watches
  <1>3. Live(r) /\ ~Using(r)
    BY <1>2 DEF Live, Using
  <1>4. motion_run[d].watch = motion_watch /\ motion_run[d].pc # "none"
    <2>1. CASE motion_sensor.watch = motion_watch /\ d = motion_sensor.detector
      BY <1>2, <2>1 DEF MotionInv, OneADetector, Mo!Watches
    <2>2. CASE d = r
      BY <1>2, <2>2
    <2>3. QED
      BY <1>2, <2>1, <2>2 DEF Goes
  <1>5. motion_run' = [motion_run EXCEPT ![r].pc = "watch", ![r].detector = d]
    BY DEF Goes
  <1>6. /\ [motion_run[r] EXCEPT !.pc = "watch", !.detector = d] \in LoopState
        /\ [motion_run[r] EXCEPT !.pc = "watch", !.detector = d].pc = "watch"
        /\ [motion_run[r] EXCEPT !.pc = "watch", !.detector = d].detector = d
        /\ [motion_run[r] EXCEPT !.pc = "watch", !.detector = d].watch = motion_run[r].watch
        /\ [motion_run[r] EXCEPT !.pc = "watch", !.detector = d].last = motion_run[r].last
    BY <1>1 DEF LoopState
  <1>7. /\ motion_run'[r] = [motion_run[r] EXCEPT !.pc = "watch", !.detector = d]
        /\ \A q \in Mo!Runs \ {r} : motion_run'[q] = motion_run[q]
        /\ motion_run' \in [Mo!Runs -> LoopState]
    BY <1>1, <1>5, <1>6
  <1>8. /\ motion_sensor'.watch = motion_watch /\ motion_sensor'.detector = d
        /\ motion_sensor' \in Owned
    BY <1>1, <1>2 DEF Goes, Owned
  <1>9. /\ motion_counted'[d] = {} /\ motion_counted' \in [Mo!Runs -> SUBSET Nat]
        /\ \A x \in Mo!Runs \ {d} : motion_counted'[x] = motion_counted[x]
    BY <1>1 DEF Goes
  <1>10. /\ \A x \in Mo!Runs \ {d} : motion_detector'[x] = motion_detector[x]
         /\ motion_detector'[d].consecutive = 0
         /\ motion_detector'[d].reference = motion_firsts'[motion_watch]
         /\ motion_detector'[d].triggered \in BOOLEAN
         /\ motion_alerts[motion_watch] = 0 \/ motion_detector'[d].triggered
         /\ \A v \in Mo!Watches : v # motion_watch => motion_firsts'[v] = motion_firsts[v]
         /\ motion_detector' \in [Mo!Runs -> Detecting] /\ motion_firsts' \in [Mo!Watches -> Int]
    <2>1. CASE /\ motion_sensor.watch = motion_watch /\ d = motion_sensor.detector
               /\ motion_detector' = [motion_detector EXCEPT ![d] = [@ EXCEPT !.consecutive = 0]]
               /\ motion_firsts' = motion_firsts
      <3>1. motion_detector[d].reference = motion_firsts[motion_watch]
        BY <1>2, <2>1 DEF MotionInv, OneADetector, Mo!Watches
      <3>2. motion_alerts[motion_watch] = 0 \/ motion_detector[d].triggered
        BY <1>2, <2>1 DEF MotionInv, SaidIsMarked, Mo!Watches
      <3>3. /\ motion_detector'[d] = [motion_detector[d] EXCEPT !.consecutive = 0]
            /\ \A x \in Mo!Runs \ {d} : motion_detector'[x] = motion_detector[x]
            /\ DOMAIN motion_detector' = Mo!Runs
            /\ motion_detector' = [x \in Mo!Runs |-> motion_detector'[x]]
        BY <1>1, <2>1
      <3>4. motion_detector[d] \in Detecting
        BY <1>1
      <3>5. /\ motion_detector'[d].consecutive = 0 /\ motion_detector'[d] \in Detecting
            /\ motion_detector'[d].reference = motion_detector[d].reference
            /\ motion_detector'[d].triggered = motion_detector[d].triggered
        BY <3>3, <3>4 DEF Detecting
      <3>6. motion_detector[d].triggered \in BOOLEAN
        BY <3>4 DEF Detecting
      <3>7. motion_detector' \in [Mo!Runs -> Detecting]
        BY <1>1, <3>3, <3>5
      <3>8. QED
        BY <1>1, <2>1, <3>1, <3>2, <3>3, <3>5, <3>6, <3>7
    <2>2. CASE /\ motion_sensor.watch < motion_watch /\ d = r
               /\ motion_detector' = [motion_detector EXCEPT ![r] =
                    [reference |-> motion_run[r].reference, consecutive |-> 0, triggered |-> FALSE]]
               /\ motion_firsts' = [motion_firsts EXCEPT ![motion_watch] = motion_run[r].reference]
      <3>1. motion_run[r].reference \in Nat
        BY <1>1 DEF LoopState
      <3>2. motion_alerts[motion_watch] = 0
        BY <1>2, <2>2 DEF MotionInv, OneADetector
      <3>3. QED
        BY <1>1, <1>2, <2>2, <3>1, <3>2 DEF Detecting
    <2>3. QED
      BY <1>2, <2>1, <2>2 DEF Goes
  <1>11. QED
    BY <1>2, <1>3, <1>4, <1>6, <1>7, <1>8, <1>9, <1>10

\* What a run that goes by a detector knows of it.
LEMMA UsesIts ==
  ASSUME Mo!ConstantsOK, MotionInv, NEW r \in Mo!Runs, Using(r)
  PROVE  /\ motion_run[r].detector \in Mo!Runs /\ Live(r)
         /\ motion_run[r].watch \in Mo!Watches /\ motion_run[r].watch <= motion_sensor.watch
         /\ motion_run[motion_run[r].detector].watch = motion_run[r].watch
         /\ motion_detector[motion_run[r].detector].reference = motion_firsts[motion_run[r].watch]
         /\ motion_run[r].watch # 0
  <1>1. motion_run[r].watch \in 1 .. motion_watch /\ motion_watch \in 0 .. MaxWatches
    BY DEF MotionInv, OneALoop, Using, MotionTyped
  <1>a. MaxWatches \in Nat
    BY DEF Mo!ConstantsOK
  <1>2. motion_run[r].watch \in Mo!Watches /\ motion_run[r].watch # 0
    <2>1. motion_run[r].watch \in 1 .. MaxWatches
      BY <1>1, <1>a
    <2>2. QED
      BY <2>1 DEF Mo!Watches
  <1>3. QED
    BY <1>2 DEF MotionInv, OneADetector, Using, Live, Mo!MotionIsReal, Mo!MeasuredFromArming

LEMMA DistanceIsNat == ASSUME MotionTyped, NEW d \in Mo!Runs PROVE Mo!Distance(d) \in Nat
  <1>1. motion_now.place \in Nat /\ motion_detector[d].reference \in Nat
    BY DEF MotionTyped, Moment, Detecting
  <1>2. QED
    BY <1>1 DEF Mo!Distance

\* A tick, field by field: a detector that has spoken is not asked; the others take the
\* reading for one of a movement, or begin to count again.
LEMMA LookFields ==
  ASSUME Mo!ConstantsOK, MotionInv, NEW r \in Mo!Runs, Mo!Look(r),
         NEW d, d = motion_run[r].detector
  PROVE  /\ motion_run[r].pc = "watch" /\ motion_run[r].last < motion_now.at
         /\ motion_run'[r].pc = (IF Mo!Moved(d) THEN "send" ELSE "watch")
         /\ motion_run'[r].last = motion_now.at /\ motion_run'[r].watch = motion_run[r].watch
         /\ motion_run'[r].detector = d
         /\ \A q \in Mo!Runs \ {r} : motion_run'[q] = motion_run[q]
         /\ \A x \in Mo!Runs \ {d} : /\ motion_counted'[x] = motion_counted[x]
                                     /\ motion_detector'[x] = motion_detector[x]
         /\ \A x \in Mo!Runs : /\ motion_detector'[x].triggered = motion_detector[x].triggered
                               /\ motion_detector'[x].reference = motion_detector[x].reference
         /\ IF motion_detector[d].triggered
            THEN motion_detector' = motion_detector /\ motion_counted' = motion_counted
            ELSE /\ motion_detector'[d].consecutive = Mo!Consecutive(d)
                 /\ motion_counted'[d] = IF Mo!Distance(d) >= Near
                                         THEN motion_counted[d] \cup {motion_now.at} ELSE {}
         /\ UNCHANGED <<motion_now, motion_watch, motion_sensor, motion_alerts, motion_firsts>>
         /\ motion_run' \in [Mo!Runs -> LoopState] /\ motion_detector' \in [Mo!Runs -> Detecting]
         /\ motion_counted' \in [Mo!Runs -> SUBSET Nat]
  <1>1. /\ motion_run \in [Mo!Runs -> LoopState] /\ motion_detector \in [Mo!Runs -> Detecting]
        /\ motion_counted \in [Mo!Runs -> SUBSET Nat] /\ motion_now.at \in Nat
    BY DEF MotionInv, MotionTyped, Moment
  <1>2. motion_run[r].pc = "watch" /\ Using(r) /\ motion_run[r].last < motion_now.at
    BY DEF Mo!Look, Using
  <1>3. d \in Mo!Runs
    BY <1>2, UsesIts
  <1>4. /\ UNCHANGED <<motion_now, motion_watch, motion_sensor, motion_alerts, motion_firsts>>
        /\ motion_run' = [motion_run EXCEPT ![r].last = motion_now.at,
                                            ![r].pc = IF Mo!Moved(d) THEN "send" ELSE "watch"]
    BY DEF Mo!Look
  <1>5. /\ motion_run'[r] = [motion_run[r] EXCEPT !.last = motion_now.at,
                                                  !.pc = IF Mo!Moved(d) THEN "send" ELSE "watch"]
        /\ \A q \in Mo!Runs \ {r} : motion_run'[q] = motion_run[q]
        /\ motion_run' = [q \in Mo!Runs |-> motion_run'[q]]
    BY <1>1, <1>4
  <1>6. motion_run[r] \in LoopState
    BY <1>1
  <1>7. /\ motion_run'[r].pc = (IF Mo!Moved(d) THEN "send" ELSE "watch")
        /\ motion_run'[r].last = motion_now.at /\ motion_run'[r].watch = motion_run[r].watch
        /\ motion_run'[r].detector = motion_run[r].detector
        /\ motion_run'[r] \in LoopState
    BY <1>1, <1>5, <1>6 DEF LoopState
  <1>8. motion_run' \in [Mo!Runs -> LoopState]
    BY <1>1, <1>5, <1>7
  <1>9. motion_detector[d] \in Detecting /\ Mo!Consecutive(d) \in Nat
    <2>1. motion_detector[d] \in Detecting
      BY <1>1, <1>3
    <2>2. QED
      BY <2>1 DEF Detecting, Mo!Consecutive
  <1>10. CASE motion_detector[d].triggered
    <2>1. motion_detector' = motion_detector /\ motion_counted' = motion_counted
      BY <1>10 DEF Mo!Look
    <2>2. QED
      BY <1>1, <1>2, <1>4, <1>5, <1>7, <1>8, <1>10, <2>1
  <1>11. CASE ~motion_detector[d].triggered
    <2>1. /\ motion_detector' = [motion_detector EXCEPT ![d].consecutive = Mo!Consecutive(d)]
          /\ motion_counted' = [motion_counted EXCEPT ![d] =
               IF Mo!Distance(d) >= Near THEN @ \cup {motion_now.at} ELSE {}]
      BY <1>11 DEF Mo!Look
    <2>2. /\ motion_detector'[d] = [motion_detector[d] EXCEPT !.consecutive = Mo!Consecutive(d)]
          /\ \A x \in Mo!Runs \ {d} : motion_detector'[x] = motion_detector[x]
          /\ motion_detector' = [x \in Mo!Runs |-> motion_detector'[x]]
      BY <1>1, <1>3, <2>1
    <2>3. /\ motion_detector'[d].consecutive = Mo!Consecutive(d)
          /\ motion_detector'[d].triggered = motion_detector[d].triggered
          /\ motion_detector'[d].reference = motion_detector[d].reference
          /\ motion_detector'[d] \in Detecting
      BY <1>9, <2>2 DEF Detecting
    <2>4. motion_detector' \in [Mo!Runs -> Detecting]
      BY <1>1, <2>2, <2>3
    <2>5. /\ motion_counted'[d] = IF Mo!Distance(d) >= Near
                                  THEN motion_counted[d] \cup {motion_now.at} ELSE {}
          /\ \A x \in Mo!Runs \ {d} : motion_counted'[x] = motion_counted[x]
      BY <1>1, <1>3, <2>1
    <2>6. motion_counted' \in [Mo!Runs -> SUBSET Nat]
      BY <1>1, <1>3, <2>1
    <2>7. QED
      BY <1>2, <1>4, <1>5, <1>7, <1>8, <1>11, <2>2, <2>3, <2>4, <2>5, <2>6
  <1>12. QED
    BY <1>10, <1>11

\* An alert that is taken.
Says(r) ==
  /\ motion_run[r].pc = "send" /\ motion_run' = [motion_run EXCEPT ![r].pc = "watch"]
  /\ motion_detector' = [motion_detector EXCEPT ![motion_run[r].detector].triggered = TRUE]
  /\ motion_alerts' = [motion_alerts EXCEPT ![motion_run[r].watch] = @ + 1]
  /\ UNCHANGED <<motion_now, motion_watch, motion_sensor, motion_firsts, motion_counted>>

LEMMA SaysFields ==
  ASSUME Mo!ConstantsOK, MotionInv, NEW r \in Mo!Runs, Says(r),
         NEW d, d = motion_run[r].detector
  PROVE  /\ motion_run'[r].pc = "watch" /\ motion_run'[r].last = motion_run[r].last
         /\ motion_run'[r].watch = motion_run[r].watch /\ motion_run'[r].detector = d
         /\ \A q \in Mo!Runs \ {r} : motion_run'[q] = motion_run[q]
         /\ motion_detector'[d].triggered /\ ~motion_detector[d].triggered
         /\ \A x \in Mo!Runs : /\ motion_detector'[x].consecutive = motion_detector[x].consecutive
                               /\ motion_detector'[x].reference = motion_detector[x].reference
                               /\ x # d => motion_detector'[x] = motion_detector[x]
         /\ motion_alerts[motion_run[r].watch] = 0 /\ motion_alerts'[motion_run[r].watch] = 1
         /\ \A v \in Mo!Watches : v # motion_run[r].watch => motion_alerts'[v] = motion_alerts[v]
         /\ motion_run' \in [Mo!Runs -> LoopState] /\ motion_detector' \in [Mo!Runs -> Detecting]
         /\ motion_alerts' \in [Mo!Watches -> Nat]
  <1>1. /\ motion_run \in [Mo!Runs -> LoopState] /\ motion_detector \in [Mo!Runs -> Detecting]
        /\ motion_alerts \in [Mo!Watches -> Nat]
    BY DEF MotionInv, MotionTyped
  <1>2. /\ Using(r) /\ motion_run[r].pc = "send" /\ d \in Mo!Runs
        /\ motion_run[r].watch \in Mo!Watches
    BY UsesIts DEF Says, Using
  <1>3. ~motion_detector[d].triggered /\ motion_alerts[motion_run[r].watch] = 0
    BY <1>2 DEF MotionInv, SaidIsMarked
  <1>4. /\ motion_run'[r] = [motion_run[r] EXCEPT !.pc = "watch"]
        /\ \A q \in Mo!Runs \ {r} : motion_run'[q] = motion_run[q]
        /\ motion_run' = [q \in Mo!Runs |-> motion_run'[q]]
        /\ motion_run[r] \in LoopState
    BY <1>1 DEF Says
  <1>5. /\ motion_run'[r].pc = "watch" /\ motion_run'[r].last = motion_run[r].last
        /\ motion_run'[r].watch = motion_run[r].watch /\ motion_run'[r].detector = d
        /\ motion_run'[r] \in LoopState
    BY <1>4 DEF LoopState
  <1>6. motion_run' \in [Mo!Runs -> LoopState]
    BY <1>1, <1>4, <1>5
  <1>7. /\ motion_detector'[d] = [motion_detector[d] EXCEPT !.triggered = TRUE]
        /\ \A x \in Mo!Runs \ {d} : motion_detector'[x] = motion_detector[x]
        /\ motion_detector' = [x \in Mo!Runs |-> motion_detector'[x]]
        /\ motion_detector[d] \in Detecting
    BY <1>1, <1>2 DEF Says
  <1>8. /\ motion_detector'[d].triggered
        /\ motion_detector'[d].consecutive = motion_detector[d].consecutive
        /\ motion_detector'[d].reference = motion_detector[d].reference
        /\ motion_detector'[d] \in Detecting
    BY <1>7 DEF Detecting
  <1>9. motion_detector' \in [Mo!Runs -> Detecting]
    BY <1>1, <1>7, <1>8
  <1>10. /\ motion_alerts'[motion_run[r].watch] = 1 /\ motion_alerts' \in [Mo!Watches -> Nat]
         /\ \A v \in Mo!Watches : v # motion_run[r].watch => motion_alerts'[v] = motion_alerts[v]
    BY <1>1, <1>2, <1>3 DEF Says
  <1>11. QED
    BY <1>3, <1>4, <1>5, <1>6, <1>7, <1>8, <1>9, <1>10

LEMMA MotionTypedStep ==
  ASSUME Mo!ConstantsOK, MotionInv, [Mo!Next]_Mo!vars
  PROVE  MotionTyped'
  <1>0. /\ MotionTyped /\ MaxWatches \in Nat /\ \A p \in Spots : p \in Nat
        /\ motion_now.at \in Nat /\ motion_now.place \in Nat /\ motion_watch \in 0 .. MaxWatches
    BY DEF MotionInv, MotionTyped, Mo!ConstantsOK, Moment
  <1>1. CASE Mo!Sense
    <2>1. motion_now' \in Moment
      BY <1>0, <1>1 DEF Mo!Sense, Moment
    <2>2. QED
      BY <1>0, <1>1, <2>1 DEF Mo!Sense, MotionTyped
  <1>2. CASE Mo!Arm \/ Mo!Disarm \/ UNCHANGED Mo!vars
    <2>1. motion_watch' \in 0 .. MaxWatches
      BY <1>0, <1>2 DEF Mo!Arm, Mo!Disarm, Mo!vars
    <2>2. QED
      BY <1>0, <1>2, <2>1 DEF Mo!Arm, Mo!Disarm, Mo!vars, MotionTyped
  <1>3. ASSUME NEW r \in Mo!Runs, Mo!Start(r) PROVE MotionTyped'
    <2>1. motion_run' \in [Mo!Runs -> LoopState]
      BY <1>0, <1>3 DEF Mo!Start, MotionTyped, LoopState
    <2>2. QED
      BY <1>0, <1>3, <2>1 DEF Mo!Start, MotionTyped
  <1>4. ASSUME NEW r \in Mo!Runs, Mo!GiveUp(r) PROVE MotionTyped'
    <2>1. motion_run' \in [Mo!Runs -> LoopState]
      <3>1. motion_run' = [motion_run EXCEPT ![r].pc = "over"]
        BY <1>4 DEF Mo!GiveUp, Mo!Goto
      <3>2. QED
        BY <1>0, <3>1 DEF MotionTyped, LoopState
    <2>2. QED
      BY <1>0, <1>4, <2>1 DEF Mo!GiveUp, MotionTyped
  <1>5. ASSUME NEW r \in Mo!Runs, Mo!FirstReading(r) PROVE MotionTyped'
    <2>1. motion_run' \in [Mo!Runs -> LoopState]
      <3>1. motion_run' = [motion_run EXCEPT ![r].pc = "session", ![r].reference = motion_now.place,
                                             ![r].last = motion_now.at]
        BY <1>5 DEF Mo!FirstReading
      <3>2. motion_run \in [Mo!Runs -> LoopState]
        BY <1>0 DEF MotionTyped
      <3>3. [motion_run[r] EXCEPT !.pc = "session", !.reference = motion_now.place,
                                  !.last = motion_now.at] \in LoopState
        BY <1>0, <3>2 DEF LoopState
      <3>4. QED
        BY <3>1, <3>2, <3>3
    <2>2. QED
      BY <1>0, <1>5, <2>1 DEF Mo!FirstReading, MotionTyped
  <1>6. ASSUME NEW r \in Mo!Runs, Mo!Session(r) PROVE MotionTyped'
    <2>1. CASE motion_run' = [motion_run EXCEPT ![r].pc = "over"]
             /\ UNCHANGED <<motion_now, motion_watch, motion_sensor, motion_detector,
                            motion_alerts, motion_firsts, motion_counted>>
      <3>1. motion_run' \in [Mo!Runs -> LoopState]
        BY <1>0, <2>1 DEF MotionTyped, LoopState
      <3>2. QED
        BY <1>0, <2>1, <3>1 DEF MotionTyped
    <2>2. ASSUME NEW d \in Mo!Runs, Goes(r, d) PROVE MotionTyped'
      <3>1. UNCHANGED <<motion_now, motion_watch, motion_alerts>>
        BY <2>2 DEF Goes
      <3>2. QED
        BY <1>0, <2>2, <3>1, GoesFields DEF MotionTyped
    <2>3. QED
      BY <1>6, <2>1, <2>2, SessionGoes
  <1>7. ASSUME NEW r \in Mo!Runs, Mo!Look(r) PROVE MotionTyped'
    BY <1>0, <1>7, LookFields DEF MotionTyped
  <1>8. ASSUME NEW r \in Mo!Runs, Mo!Send(r) PROVE MotionTyped'
    <2>1. CASE Says(r)
      <3>1. UNCHANGED <<motion_now, motion_watch, motion_sensor, motion_firsts, motion_counted>>
        BY <2>1 DEF Says
      <3>2. QED
        BY <1>0, <2>1, <3>1, SaysFields DEF MotionTyped
    <2>2. CASE ~Says(r)
      <3>1. /\ motion_run' = [motion_run EXCEPT ![r].pc = "over"]
            /\ UNCHANGED <<motion_now, motion_watch, motion_sensor, motion_detector,
                           motion_alerts, motion_firsts, motion_counted>>
        BY <1>8, <2>2 DEF Mo!Send, Says
      <3>2. motion_run' \in [Mo!Runs -> LoopState]
        BY <1>0, <3>1 DEF MotionTyped, LoopState
      <3>3. QED
        BY <1>0, <3>1, <3>2 DEF MotionTyped
    <2>3. QED
      BY <2>1, <2>2
  <1>9. QED
    BY <1>1, <1>2, <1>3, <1>4, <1>5, <1>6, <1>7, <1>8 DEF Mo!Next

LEMMA OneALoopStep ==
  ASSUME Mo!ConstantsOK, MotionInv, [Mo!Next]_Mo!vars
  PROVE  OneALoop'
  <1>a. (motion_armed => motion_watch # 0)'
    <2>1. motion_watch \in Nat /\ (motion_armed => motion_watch # 0)
      BY DEF MotionInv, OneALoop, MotionTyped
    <2>2. CASE Mo!Arm
      BY <2>1, <2>2 DEF Mo!Arm
    <2>3. CASE Mo!Disarm
      BY <2>3 DEF Mo!Disarm
    <2>4. CASE motion_armed' = motion_armed /\ motion_watch' = motion_watch
      BY <2>1, <2>4
    <2>5. ASSUME NEW r \in Mo!Runs, Mo!Session(r)
          PROVE  motion_armed' = motion_armed /\ motion_watch' = motion_watch
      BY <2>5 DEF Mo!Session
    <2>6. QED
      BY <2>2, <2>3, <2>4, <2>5 DEF Mo!Next, Mo!vars, Mo!Sense, Mo!Start, Mo!GiveUp,
                                    Mo!FirstReading, Mo!Look, Mo!Send
  <1>0. /\ \A r \in Mo!Runs : /\ motion_run[r].pc # "none" => motion_run[r].watch \in 1 .. motion_watch
                              /\ motion_run[r].last <= motion_now.at /\ motion_run[r].last \in Nat
        /\ motion_watch \in Nat /\ motion_now.at \in Nat
        /\ \A q, r \in Mo!Runs :
             Live(q) /\ Live(r) /\ motion_run[q].watch = motion_run[r].watch => q = r
    BY DEF MotionInv, OneALoop, MotionTyped, Moment, LoopState
  \* Every step but Start leaves a run where it was, over, or live as it was before.
  <1>1. ASSUME motion_watch' \in {motion_watch, motion_watch + 1},
               motion_now' = motion_now \/ motion_now'.at = motion_now.at + 1,
               \A q \in Mo!Runs :
                 \/ motion_run'[q] = motion_run[q]
                 \/ /\ motion_run'[q].watch = motion_run[q].watch
                    /\ motion_run[q].pc # "none"
                    /\ motion_run'[q].last \in {motion_run[q].last, motion_now.at}
                    /\ Live(q)' => Live(q)
        PROVE  OneALoop'
    <2>1. \A q \in Mo!Runs : /\ Live(q)' => Live(q)
                             /\ motion_run'[q].watch = motion_run[q].watch
                             /\ motion_run'[q].pc # "none" => motion_run[q].pc # "none"
                             /\ motion_run'[q].last \in {motion_run[q].last, motion_now.at}
      BY <1>1 DEF Live
    <2>2. \A q \in Mo!Runs : motion_run'[q].pc # "none" => motion_run'[q].watch \in 1 .. motion_watch'
      <3>1. \A n \in 1 .. motion_watch : n \in 1 .. motion_watch'
        BY <1>0, <1>1
      <3>2. QED
        BY <1>0, <2>1, <3>1
    <2>3. \A q \in Mo!Runs : motion_run'[q].last <= motion_now'.at
      <3>1. motion_now'.at \in {motion_now.at, motion_now.at + 1}
        BY <1>1
      <3>2. QED
        BY <1>0, <2>1, <3>1
    <2>4. QED
      BY <1>0, <1>a, <2>1, <2>2, <2>3 DEF OneALoop
  <1>2. CASE Mo!Sense \/ Mo!Arm \/ Mo!Disarm \/ UNCHANGED Mo!vars
    BY <1>0, <1>1, <1>2 DEF Mo!Sense, Mo!Arm, Mo!Disarm, Mo!vars
  <1>3. ASSUME NEW r \in Mo!Runs, Mo!Start(r) PROVE OneALoop'
    <2>1. /\ motion_run'[r].pc = "warmup" /\ motion_run'[r].watch = motion_watch
          /\ motion_run'[r].last = motion_run[r].last
          /\ \A q \in Mo!Runs \ {r} : motion_run'[q] = motion_run[q]
      BY <1>3, RunFacts DEF MotionInv
    <2>2. /\ \A q \in Mo!Runs : motion_run[q].watch = motion_watch => motion_run[q].pc = "over"
          /\ motion_watch' = motion_watch /\ motion_now' = motion_now /\ motion_armed
      BY <1>3 DEF Mo!Start
    <2>3. motion_watch \in 1 .. motion_watch
      BY <1>0, <2>2 DEF MotionInv, OneALoop
    <2>4. QED
      BY <1>0, <1>a, <2>1, <2>2, <2>3 DEF OneALoop, Live
  <1>4. ASSUME NEW r \in Mo!Runs, Mo!GiveUp(r) PROVE OneALoop'
    <2>1. /\ motion_run'[r] = [motion_run[r] EXCEPT !.pc = "over"]
          /\ \A q \in Mo!Runs \ {r} : motion_run'[q] = motion_run[q]
          /\ motion_run[r] \in LoopState
      BY <1>4, RunFacts DEF MotionInv, MotionTyped
    <2>2. /\ motion_run'[r].watch = motion_run[r].watch /\ motion_run'[r].last = motion_run[r].last
          /\ motion_run'[r].pc = "over"
      BY <2>1 DEF LoopState
    <2>3. motion_run[r].pc # "none" /\ motion_watch' = motion_watch /\ motion_now' = motion_now
      BY <1>4 DEF Mo!GiveUp, Mo!Goto
    <2>4. QED
      BY <1>0, <1>1, <2>1, <2>2, <2>3 DEF Live
  <1>5. ASSUME NEW r \in Mo!Runs, Mo!FirstReading(r) PROVE OneALoop'
    <2>1. /\ motion_run'[r].watch = motion_run[r].watch /\ motion_run'[r].last = motion_now.at
          /\ \A q \in Mo!Runs \ {r} : motion_run'[q] = motion_run[q]
      BY <1>5, RunFacts DEF MotionInv
    <2>2. motion_run[r].pc = "warmup" /\ motion_watch' = motion_watch /\ motion_now' = motion_now
      BY <1>5 DEF Mo!FirstReading
    <2>3. QED
      BY <1>0, <1>1, <2>1, <2>2 DEF Live
  <1>6. ASSUME NEW r \in Mo!Runs, motion_run[r].pc \in {"session", "send"},
               motion_run' = [motion_run EXCEPT ![r].pc = "over"],
               motion_watch' = motion_watch, motion_now' = motion_now
        PROVE  OneALoop'
    <2>1. /\ motion_run'[r] = [motion_run[r] EXCEPT !.pc = "over"]
          /\ \A q \in Mo!Runs \ {r} : motion_run'[q] = motion_run[q]
          /\ motion_run[r] \in LoopState
      BY <1>6 DEF MotionInv, MotionTyped
    <2>2. motion_run'[r].watch = motion_run[r].watch /\ motion_run'[r].last = motion_run[r].last
      BY <2>1 DEF LoopState
    <2>3. QED
      BY <1>0, <1>1, <1>6, <2>1, <2>2 DEF Live
  <1>7. ASSUME NEW r \in Mo!Runs, NEW d \in Mo!Runs, Goes(r, d) PROVE OneALoop'
    <2>1. motion_watch' = motion_watch /\ motion_now' = motion_now
      BY <1>7 DEF Goes
    <2>2. QED
      BY <1>0, <1>1, <1>7, <2>1, GoesFields DEF Live
  <1>8. ASSUME NEW r \in Mo!Runs, Mo!Look(r) PROVE OneALoop'
    BY <1>0, <1>1, <1>8, LookFields DEF Live
  <1>9. ASSUME NEW r \in Mo!Runs, Says(r) PROVE OneALoop'
    <2>1. motion_watch' = motion_watch /\ motion_now' = motion_now /\ motion_run[r].pc = "send"
      BY <1>9 DEF Says
    <2>2. QED
      BY <1>0, <1>1, <1>9, <2>1, SaysFields DEF Live
  <1>10. ASSUME NEW r \in Mo!Runs, Mo!Send(r) PROVE OneALoop'
    BY <1>6, <1>9, <1>10 DEF Mo!Send, Says
  <1>11. ASSUME NEW r \in Mo!Runs, Mo!Session(r) PROVE OneALoop'
    BY <1>6, <1>7, <1>11, SessionGoes
  <1>12. QED
    BY <1>2, <1>3, <1>4, <1>5, <1>8, <1>10, <1>11 DEF Mo!Next

\* The steps that keep out of it.
LEMMA AsideSteps ==
  ASSUME Mo!ConstantsOK, MotionInv,
         \/ Mo!Sense \/ Mo!Arm \/ Mo!Disarm \/ UNCHANGED Mo!vars
         \/ \E r \in Mo!Runs : Mo!Start(r) \/ Mo!GiveUp(r) \/ Mo!FirstReading(r)
         \/ \E r \in Mo!Runs :
              /\ motion_run' = [motion_run EXCEPT ![r].pc = "over"]
              /\ motion_run[r].pc \in {"session", "send"}
              /\ UNCHANGED <<motion_now, motion_watch, motion_sensor, motion_detector,
                             motion_alerts, motion_firsts, motion_counted>>
  PROVE  OneADetector' /\ SaidIsMarked' /\ CountsReadings' /\ Mo!MotionIsReal'
  <1>0. motion_watch \in Nat /\ motion_now.at \in Nat
    BY DEF MotionInv, MotionTyped, Moment
  <1>1. CASE Mo!Sense \/ Mo!Arm \/ Mo!Disarm \/ UNCHANGED Mo!vars
    <2>1. /\ Same /\ motion_run' = motion_run /\ motion_watch' \in {motion_watch, motion_watch + 1}
          /\ motion_now' = motion_now \/ motion_now'.at = motion_now.at + 1
      BY <1>0, <1>1 DEF Mo!Sense, Mo!Arm, Mo!Disarm, Mo!vars, Same
    <2>2. \A q \in Mo!Runs : Aside(q)
      BY <2>1 DEF Aside
    <2>3. QED
      BY <1>0, <2>1, <2>2, AsideKeeps
  <1>2. ASSUME NEW r \in Mo!Runs, Mo!Start(r) \/ Mo!GiveUp(r) \/ Mo!FirstReading(r)
        PROVE  OneADetector' /\ SaidIsMarked' /\ CountsReadings' /\ Mo!MotionIsReal'
    <2>1. Same /\ UNCHANGED <<motion_now, motion_watch>>
      BY <1>2 DEF Mo!Start, Mo!GiveUp, Mo!FirstReading, Same
    <2>2. \A q \in Mo!Runs \ {r} : motion_run'[q] = motion_run[q]
      BY <1>2, RunFacts DEF MotionInv
    <2>3. Aside(r)
      <3>1. CASE Mo!Start(r)
        BY <3>1, RunFacts DEF Mo!Start, Aside, MotionInv
      <3>2. CASE Mo!GiveUp(r)
        <4>1. motion_run'[r] = [motion_run[r] EXCEPT !.pc = "over"] /\ motion_run[r] \in LoopState
          BY <3>2, RunFacts DEF MotionInv, MotionTyped
        <4>2. motion_run'[r].pc = "over" /\ motion_run'[r].watch = motion_run[r].watch
          BY <4>1 DEF LoopState
        <4>3. QED
          BY <4>2 DEF Aside
      <3>3. CASE Mo!FirstReading(r)
        BY <3>3, RunFacts DEF Aside, MotionInv
      <3>4. QED
        BY <1>2, <3>1, <3>2, <3>3
    <2>4. \A q \in Mo!Runs : Aside(q)
      BY <2>2, <2>3 DEF Aside
    <2>5. QED
      BY <1>0, <2>1, <2>4, AsideKeeps
  <1>3. ASSUME NEW r \in Mo!Runs,
               motion_run' = [motion_run EXCEPT ![r].pc = "over"],
               UNCHANGED <<motion_now, motion_watch, motion_sensor, motion_detector,
                           motion_alerts, motion_firsts, motion_counted>>
        PROVE  OneADetector' /\ SaidIsMarked' /\ CountsReadings' /\ Mo!MotionIsReal'
    <2>1. /\ motion_run'[r] = [motion_run[r] EXCEPT !.pc = "over"]
          /\ \A q \in Mo!Runs \ {r} : motion_run'[q] = motion_run[q]
          /\ motion_run[r] \in LoopState
      BY <1>3 DEF MotionInv, MotionTyped
    <2>2. motion_run'[r].watch = motion_run[r].watch /\ motion_run'[r].pc = "over"
      BY <2>1 DEF LoopState
    <2>3. \A q \in Mo!Runs : Aside(q)
      BY <2>1, <2>2 DEF Aside
    <2>4. QED
      BY <1>0, <1>3, <2>3, AsideKeeps DEF Same
  <1>4. QED
    BY <1>1, <1>2, <1>3

LEMMA GoesKeeps ==
  ASSUME Mo!ConstantsOK, MotionInv, NEW r \in Mo!Runs, NEW d \in Mo!Runs, Goes(r, d)
  PROVE  OneADetector' /\ SaidIsMarked' /\ CountsReadings' /\ Mo!MotionIsReal'
  <1>0. /\ motion_watch' = motion_watch /\ motion_alerts' = motion_alerts /\ motion_now' = motion_now
        /\ motion_watch \in Nat /\ motion_sensor.watch \in Nat /\ motion_sensor.watch <= motion_watch
    BY DEF Goes, MotionInv, MotionTyped, OneADetector, Owned
  \* The detectors the others go by are as they were.
  <1>1. ASSUME NEW q \in Mo!Runs, Using(q)'
        PROVE  \/ q = r
               \/ /\ Using(q) /\ q # r /\ motion_run'[q] = motion_run[q]
                  /\ motion_run[q].detector \in Mo!Runs \ {d}
                  /\ motion_run[q].watch \in Mo!Watches
                  /\ motion_run[q].watch # motion_watch
                  /\ motion_run[q].watch <= motion_sensor.watch
    <2>1. CASE q # r
      <3>1. motion_run'[q] = motion_run[q] /\ Using(q)
        BY <1>1, <2>1, GoesFields DEF Using
      <3>2. motion_run[q].detector # d
        BY <2>1, <3>1, SoleUser, GoesFields
      <3>3. /\ motion_run[q].detector \in Mo!Runs /\ motion_run[q].watch \in Mo!Watches
            /\ motion_run[q].watch <= motion_sensor.watch /\ Live(q)
        BY <3>1, UsesIts
      <3>4. motion_run[q].watch # motion_watch
        BY <2>1, <3>3, GoesFields DEF MotionInv, OneALoop
      <3>5. QED
        BY <2>1, <3>1, <3>2, <3>3, <3>4
    <2>2. QED
      BY <2>1
  <1>2. \A q \in Mo!Runs : /\ motion_run'[q].watch = motion_run[q].watch
                           /\ motion_run[q].pc # "none" => motion_run'[q].pc # "none"
    BY GoesFields
  <1>3. OneADetector'
    <2>1. motion_sensor'.watch <= motion_watch'
      BY <1>0, GoesFields
    <2>2. /\ motion_sensor'.detector \in Mo!Runs
          /\ motion_run'[motion_sensor'.detector].watch = motion_sensor'.watch
          /\ motion_run'[motion_sensor'.detector].pc # "none"
          /\ motion_detector'[motion_sensor'.detector].reference = motion_firsts'[motion_sensor'.watch]
      BY <1>2, GoesFields
    <2>3. \A w \in Mo!Watches : w > motion_sensor'.watch => motion_alerts'[w] = 0 /\ motion_firsts'[w] = -1
      <3>1. SUFFICES ASSUME NEW w \in Mo!Watches, w > motion_watch
                     PROVE  motion_alerts[w] = 0 /\ motion_firsts'[w] = -1
        BY <1>0, GoesFields
      <3>2. w \in Nat
        BY DEF Mo!Watches, Mo!ConstantsOK
      <3>3. w > motion_sensor.watch /\ w # motion_watch
        BY <1>0, <3>1, <3>2
      <3>4. motion_firsts'[w] = motion_firsts[w]
        BY <3>3, GoesFields
      <3>5. QED
        BY <3>3, <3>4 DEF MotionInv, OneADetector
    <2>4. ASSUME NEW q \in Mo!Runs, Using(q)'
          PROVE  /\ motion_run'[q].detector \in Mo!Runs
                 /\ motion_run'[motion_run'[q].detector].watch = motion_run'[q].watch
                 /\ motion_run'[motion_run'[q].detector].pc # "none"
                 /\ motion_run'[q].watch <= motion_sensor'.watch
                 /\ motion_run'[q].watch = motion_sensor'.watch =>
                      motion_run'[q].detector = motion_sensor'.detector
      <3>1. CASE q = r
        BY <1>0, <1>2, <3>1, GoesFields
      <3>2. CASE q # r
        <4>1. /\ Using(q) /\ motion_run'[q] = motion_run[q]
              /\ motion_run[q].detector \in Mo!Runs /\ motion_run[q].watch \in Mo!Watches
              /\ motion_run[q].watch # motion_watch /\ motion_run[q].watch <= motion_sensor.watch
          BY <1>1, <2>4, <3>2
        <4>2. motion_run[q].watch \in Nat
          BY <4>1 DEF Mo!Watches, Mo!ConstantsOK
        <4>3. /\ motion_run[motion_run[q].detector].watch = motion_run[q].watch
              /\ motion_run[motion_run[q].detector].pc # "none"
          BY <4>1 DEF MotionInv, OneADetector
        <4>4. motion_run[q].watch <= motion_watch
          BY <1>0, <4>1, <4>2
        <4>5. QED
          BY <1>2, <4>1, <4>3, <4>4, GoesFields
      <3>3. QED
        BY <3>1, <3>2
    <2>5. QED
      BY <2>1, <2>2, <2>3, <2>4 DEF OneADetector
  <1>4. SaidIsMarked'
    <2>1. motion_alerts'[motion_sensor'.watch] = 0 \/ motion_detector'[motion_sensor'.detector].triggered
      BY <1>0, GoesFields
    <2>2. ASSUME NEW q \in Mo!Runs, Using(q)'
          PROVE  /\ motion_alerts'[motion_run'[q].watch] = 0 \/ motion_detector'[motion_run'[q].detector].triggered
                 /\ motion_run'[q].pc = "send" => ~motion_detector'[motion_run'[q].detector].triggered
      <3>1. CASE q = r
        BY <1>0, <3>1, GoesFields
      <3>2. CASE q # r
        <4>1. /\ Using(q) /\ motion_run'[q] = motion_run[q]
              /\ motion_detector'[motion_run[q].detector] = motion_detector[motion_run[q].detector]
          BY <1>1, <2>2, <3>2, GoesFields
        <4>2. QED
          BY <1>0, <4>1 DEF MotionInv, SaidIsMarked
      <3>3. QED
        BY <3>1, <3>2
    <2>3. QED
      BY <2>1, <2>2 DEF SaidIsMarked, Using
  <1>5. CountsReadings'
    <2>1. ASSUME NEW x \in Mo!Runs
          PROVE  /\ IsFiniteSet(motion_counted'[x])
                 /\ motion_detector'[x].consecutive <= Cardinality(motion_counted'[x])
      <3>1. CASE x = d
        <4>1. motion_counted'[x] = {} /\ motion_detector'[x].consecutive = 0
          BY <3>1, GoesFields
        <4>2. IsFiniteSet({}) /\ Cardinality({}) = 0
          BY FS_EmptySet
        <4>3. QED
          BY <4>1, <4>2
      <3>2. CASE x # d
        <4>1. motion_counted'[x] = motion_counted[x] /\ motion_detector'[x] = motion_detector[x]
          BY <3>2, GoesFields
        <4>2. QED
          BY <4>1 DEF MotionInv, CountsReadings
      <3>3. QED
        BY <3>1, <3>2
    <2>2. ASSUME NEW q \in Mo!Runs, Using(q)'
          PROVE  \A n \in motion_counted'[motion_run'[q].detector] : n <= motion_run'[q].last
      <3>1. CASE q = r
        BY <3>1, GoesFields
      <3>2. CASE q # r
        <4>1. /\ Using(q) /\ motion_run'[q] = motion_run[q]
              /\ motion_counted'[motion_run[q].detector] = motion_counted[motion_run[q].detector]
          BY <1>1, <2>2, <3>2, GoesFields
        <4>2. QED
          BY <4>1 DEF MotionInv, CountsReadings
      <3>3. QED
        BY <3>1, <3>2
    <2>3. QED
      BY <2>1, <2>2 DEF CountsReadings
  <1>6. Mo!OneEventAWatch'
    BY <1>0 DEF MotionInv, Mo!MotionIsReal, Mo!OneEventAWatch
  <1>7. Mo!MeasuredFromArming'
    <2>1. ASSUME NEW q \in Mo!Runs, Using(q)'
          PROVE  motion_detector'[motion_run'[q].detector].reference = motion_firsts'[motion_run'[q].watch]
      <3>1. CASE q = r
        BY <3>1, GoesFields
      <3>2. CASE q # r
        <4>1. /\ Using(q) /\ motion_run'[q] = motion_run[q]
              /\ motion_detector'[motion_run[q].detector] = motion_detector[motion_run[q].detector]
              /\ motion_firsts'[motion_run[q].watch] = motion_firsts[motion_run[q].watch]
          BY <1>1, <2>1, <3>2, GoesFields
        <4>2. QED
          BY <4>1, UsesIts
      <3>3. QED
        BY <3>1, <3>2
    <2>2. QED
      BY <2>1 DEF Mo!MeasuredFromArming, Using
  <1>8. Mo!ThreeReadings'
    <2>1. ASSUME NEW q \in Mo!Runs, motion_run'[q].pc = "send"
          PROVE  /\ motion_run'[q] = motion_run[q]
                 /\ motion_counted'[motion_run[q].detector] = motion_counted[motion_run[q].detector]
                 /\ motion_detector'[motion_run[q].detector] = motion_detector[motion_run[q].detector]
      <3>1. q # r /\ Using(q)'
        BY <2>1, GoesFields DEF Using
      <3>2. QED
        BY <1>1, <3>1, GoesFields
    <2>2. QED
      BY <1>0, <2>1 DEF MotionInv, Mo!MotionIsReal, Mo!ThreeReadings, Mo!Distance
  <1>9. QED
    BY <1>3, <1>4, <1>5, <1>6, <1>7, <1>8 DEF Mo!MotionIsReal


LEMMA SaysKeeps ==
  ASSUME Mo!ConstantsOK, MotionInv, NEW r \in Mo!Runs, Says(r)
  PROVE  OneADetector' /\ SaidIsMarked' /\ CountsReadings' /\ Mo!MotionIsReal'
  <1>. DEFINE d == motion_run[r].detector
              v == motion_run[r].watch
  <1>0. /\ motion_watch' = motion_watch /\ motion_now' = motion_now /\ motion_sensor' = motion_sensor
        /\ motion_firsts' = motion_firsts /\ motion_counted' = motion_counted
        /\ motion_run[r].pc = "send" /\ Using(r)
    BY DEF Says, Using
  <1>1. /\ d \in Mo!Runs /\ v \in Mo!Watches /\ v <= motion_sensor.watch /\ Live(r)
        /\ motion_run[d].watch = v /\ v \in Nat /\ motion_sensor.watch \in Nat
    <2>1. v \in Nat
      BY DEF MotionInv, MotionTyped, LoopState
    <2>2. motion_sensor.watch \in Nat
      BY DEF MotionInv, MotionTyped, Owned
    <2>3. QED
      BY <1>0, <2>1, <2>2, UsesIts
  <1>. HIDE DEF d, v
  <1>2. /\ motion_run'[r].pc = "watch" /\ motion_detector'[d].triggered
        /\ motion_alerts'[v] = 1 /\ motion_run[r].detector = d /\ motion_run[r].watch = v
        /\ \A u \in Mo!Watches : u # v => motion_alerts'[u] = motion_alerts[u]
        /\ \A x \in Mo!Runs \ {d} : motion_detector'[x] = motion_detector[x]
        /\ \A x \in Mo!Runs : /\ motion_detector'[x].consecutive = motion_detector[x].consecutive
                              /\ motion_detector'[x].reference = motion_detector[x].reference
    BY SaysFields DEF d, v
  <1>3. \A q \in Mo!Runs :
          /\ motion_run'[q].watch = motion_run[q].watch /\ motion_run'[q].last = motion_run[q].last
          /\ motion_run'[q].detector = motion_run[q].detector
          /\ motion_run[q].pc # "none" => motion_run'[q].pc # "none"
          /\ Using(q)' => Using(q)
          /\ motion_run'[q].pc = "send" => motion_run[q].pc = "send" /\ q # r
    BY <1>0, SaysFields DEF Using
  \* Once marked, a detector stays marked.
  <1>4. \A x \in Mo!Runs : motion_detector[x].triggered => motion_detector'[x].triggered
    BY <1>2
  <1>5. OneADetector'
    <2>1. \A w \in Mo!Watches : w > motion_sensor.watch => motion_alerts'[w] = 0 /\ motion_firsts'[w] = -1
      <3>1. SUFFICES ASSUME NEW w \in Mo!Watches, w > motion_sensor.watch
                     PROVE  motion_alerts'[w] = 0 /\ motion_firsts'[w] = -1
        OBVIOUS
      <3>2. w \in Nat
        BY DEF Mo!Watches, Mo!ConstantsOK
      <3>3. w # v
        BY <1>1, <3>1, <3>2
      <3>4. QED
        BY <1>0, <1>2, <3>1, <3>3 DEF MotionInv, OneADetector
    <2>2. motion_sensor.watch <= motion_watch
      BY DEF MotionInv, OneADetector
    <2>3. motion_sensor.watch # 0 =>
            /\ motion_sensor.detector \in Mo!Runs
            /\ motion_run'[motion_sensor.detector].watch = motion_sensor.watch
            /\ motion_run'[motion_sensor.detector].pc # "none"
            /\ motion_detector'[motion_sensor.detector].reference = motion_firsts[motion_sensor.watch]
      BY <1>2, <1>3 DEF MotionInv, OneADetector
    <2>4. ASSUME NEW q \in Mo!Runs, Using(q)
          PROVE  /\ motion_run[q].detector \in Mo!Runs
                 /\ motion_run'[motion_run[q].detector].watch = motion_run[q].watch
                 /\ motion_run'[motion_run[q].detector].pc # "none"
                 /\ motion_run[q].watch <= motion_sensor.watch
                 /\ motion_run[q].watch = motion_sensor.watch =>
                      motion_run[q].detector = motion_sensor.detector
      BY <1>3, <2>4 DEF MotionInv, OneADetector
    <2>5. QED
      BY <1>0, <1>3, <2>1, <2>2, <2>3, <2>4 DEF OneADetector
  <1>6. SaidIsMarked'
    <2>1. ASSUME motion_sensor.watch # 0
          PROVE  motion_alerts'[motion_sensor.watch] = 0 \/ motion_detector'[motion_sensor.detector].triggered
      <3>1. CASE motion_sensor.watch = v
        <4>1. motion_sensor.detector = d
          BY <1>0, <1>2, <3>1 DEF MotionInv, OneADetector
        <4>2. QED
          BY <1>2, <4>1
      <3>2. CASE motion_sensor.watch # v
        <4>1. motion_sensor.watch \in Mo!Watches
          <5>1. /\ motion_sensor.watch <= motion_watch /\ motion_watch \in 0 .. MaxWatches
                /\ MaxWatches \in Nat
            BY DEF MotionInv, OneADetector, MotionTyped, Mo!ConstantsOK
          <5>2. QED
            BY <1>1, <2>1, <5>1 DEF Mo!Watches
        <4>2. motion_alerts'[motion_sensor.watch] = motion_alerts[motion_sensor.watch]
          BY <1>2, <3>2, <4>1
        <4>3. /\ motion_sensor.detector \in Mo!Runs
              /\ motion_alerts[motion_sensor.watch] = 0 \/ motion_detector[motion_sensor.detector].triggered
          BY <2>1 DEF MotionInv, OneADetector, SaidIsMarked
        <4>4. QED
          BY <1>4, <4>2, <4>3
      <3>3. QED
        BY <3>1, <3>2
    <2>2. ASSUME NEW q \in Mo!Runs, Using(q)
          PROVE  motion_alerts'[motion_run[q].watch] = 0 \/ motion_detector'[motion_run[q].detector].triggered
      <3>1. CASE q = r
        BY <1>2, <3>1
      <3>2. CASE q # r
        <4>1. motion_run[q].watch # v
          BY <1>1, <1>2, <2>2, <3>2, UsesIts DEF MotionInv, OneALoop
        <4>2. motion_run[q].watch \in Mo!Watches /\ motion_run[q].detector \in Mo!Runs
          BY <2>2, UsesIts
        <4>3. motion_alerts[motion_run[q].watch] = 0 \/ motion_detector[motion_run[q].detector].triggered
          BY <2>2 DEF MotionInv, SaidIsMarked
        <4>4. QED
          BY <1>2, <1>4, <4>1, <4>2, <4>3
      <3>3. QED
        BY <3>1, <3>2
    <2>3. ASSUME NEW q \in Mo!Runs, motion_run[q].pc = "send", q # r
          PROVE  ~motion_detector'[motion_run[q].detector].triggered
      <3>1. Using(q)
        BY <2>3 DEF Using
      <3>2. motion_run[q].detector \in Mo!Runs
        BY <3>1, UsesIts
      <3>3. motion_run[q].detector # d
        BY <1>1, <1>2, <2>3, <3>1, SoleUser
      <3>4. QED
        BY <1>2, <2>3, <3>2, <3>3 DEF MotionInv, SaidIsMarked
    <2>4. QED
      BY <1>0, <1>3, <2>1, <2>2, <2>3 DEF SaidIsMarked
  <1>7. CountsReadings'
    BY <1>0, <1>2, <1>3 DEF MotionInv, CountsReadings
  <1>8. Mo!OneEventAWatch'
    BY <1>2 DEF MotionInv, Mo!MotionIsReal, Mo!OneEventAWatch
  <1>9. \A q \in Mo!Runs : Using(q)' =>
          /\ motion_run[q].detector \in Mo!Runs
          /\ motion_detector'[motion_run[q].detector].reference
               = motion_detector[motion_run[q].detector].reference
    BY <1>2, <1>3, UsesIts
  <1>10. Mo!MeasuredFromArming'
    BY <1>0, <1>3, <1>9, UsesIts DEF Mo!MeasuredFromArming, Using
  <1>11. Mo!ThreeReadings'
    BY <1>0, <1>3, <1>9 DEF MotionInv, Mo!MotionIsReal, Mo!ThreeReadings, Mo!Distance, Using
  <1>12. QED
    BY <1>5, <1>6, <1>7, <1>8, <1>10, <1>11 DEF Mo!MotionIsReal


LEMMA LookKeeps ==
  ASSUME Mo!ConstantsOK, MotionInv, NEW r \in Mo!Runs, Mo!Look(r)
  PROVE  OneADetector' /\ SaidIsMarked' /\ CountsReadings' /\ Mo!MotionIsReal'
  <1>. DEFINE d == motion_run[r].detector
  <1>0. /\ motion_watch' = motion_watch /\ motion_now' = motion_now /\ motion_sensor' = motion_sensor
        /\ motion_firsts' = motion_firsts /\ motion_alerts' = motion_alerts
        /\ motion_run[r].pc = "watch" /\ Using(r) /\ motion_now.at \in Nat
    BY DEF Mo!Look, Using, MotionInv, MotionTyped, Moment
  <1>1. d \in Mo!Runs /\ Live(r) /\ motion_run[d].watch = motion_run[r].watch
    BY <1>0, UsesIts
  <1>. HIDE DEF d
  <1>2. /\ motion_run'[r].pc = (IF Mo!Moved(d) THEN "send" ELSE "watch")
        /\ motion_run'[r].last = motion_now.at /\ motion_run[r].last < motion_now.at
        /\ motion_run[r].detector = d
        /\ \A x \in Mo!Runs \ {d} : /\ motion_counted'[x] = motion_counted[x]
                                    /\ motion_detector'[x] = motion_detector[x]
        /\ \A x \in Mo!Runs : /\ motion_detector'[x].triggered = motion_detector[x].triggered
                              /\ motion_detector'[x].reference = motion_detector[x].reference
        /\ \A q \in Mo!Runs \ {r} : motion_run'[q] = motion_run[q]
        /\ IF motion_detector[d].triggered
           THEN motion_detector' = motion_detector /\ motion_counted' = motion_counted
           ELSE /\ motion_detector'[d].consecutive = Mo!Consecutive(d)
                /\ motion_counted'[d] = IF Mo!Distance(d) >= Near
                                        THEN motion_counted[d] \cup {motion_now.at} ELSE {}
    BY LookFields DEF d
  <1>3. \A q \in Mo!Runs :
          /\ motion_run'[q].watch = motion_run[q].watch
          /\ motion_run'[q].detector = motion_run[q].detector
          /\ motion_run[q].pc # "none" => motion_run'[q].pc # "none"
          /\ Using(q)' => Using(q)
    <2>1. /\ \A q \in Mo!Runs \ {r} : motion_run'[q] = motion_run[q]
          /\ motion_run'[r].watch = motion_run[r].watch /\ motion_run'[r].detector = d
          /\ d = motion_run[r].detector
      BY LookFields DEF d
    <2>2. ASSUME NEW q \in Mo!Runs
          PROVE  /\ motion_run'[q].watch = motion_run[q].watch
                 /\ motion_run'[q].detector = motion_run[q].detector
                 /\ motion_run[q].pc # "none" => motion_run'[q].pc # "none"
                 /\ Using(q)' => Using(q)
      <3>1. CASE q = r
        BY <1>0, <1>2, <2>1, <3>1 DEF Using
      <3>2. CASE q # r
        BY <2>1, <3>2 DEF Using
      <3>3. QED
        BY <3>1, <3>2
    <2>3. QED
      BY <2>2
  \* A detector is one run's: the others go by detectors this reading leaves alone.
  <1>4. ASSUME NEW q \in Mo!Runs, Using(q), q # r
        PROVE  motion_run[q].detector \in Mo!Runs \ {d}
    <2>1. motion_run[q].detector # d
      BY <1>1, <1>4, SoleUser
    <2>2. QED
      BY <1>4, <2>1, UsesIts
  <1>5. OneADetector'
    <2>1. \A x \in Mo!Runs : motion_detector'[x].reference = motion_detector[x].reference
      BY <1>2
    <2>2. motion_sensor.watch # 0 =>
            /\ motion_sensor.detector \in Mo!Runs
            /\ motion_run'[motion_sensor.detector].watch = motion_sensor.watch
            /\ motion_run'[motion_sensor.detector].pc # "none"
            /\ motion_detector'[motion_sensor.detector].reference = motion_firsts[motion_sensor.watch]
      BY <1>3, <2>1 DEF MotionInv, OneADetector
    <2>3. ASSUME NEW q \in Mo!Runs, Using(q)
          PROVE  /\ motion_run[q].detector \in Mo!Runs
                 /\ motion_run'[motion_run[q].detector].watch = motion_run[q].watch
                 /\ motion_run'[motion_run[q].detector].pc # "none"
                 /\ motion_run[q].watch <= motion_sensor.watch
                 /\ motion_run[q].watch = motion_sensor.watch =>
                      motion_run[q].detector = motion_sensor.detector
      BY <1>3, <2>3 DEF MotionInv, OneADetector
    <2>4. /\ motion_sensor.watch <= motion_watch
          /\ \A w \in Mo!Watches : w > motion_sensor.watch => motion_alerts[w] = 0 /\ motion_firsts[w] = -1
      BY DEF MotionInv, OneADetector
    <2>5. QED
      BY <1>0, <1>3, <2>2, <2>3, <2>4 DEF OneADetector
  <1>6. SaidIsMarked'
    <2>1. motion_sensor.watch # 0 =>
            motion_alerts[motion_sensor.watch] = 0 \/ motion_detector'[motion_sensor.detector].triggered
      BY <1>2 DEF MotionInv, OneADetector, SaidIsMarked
    <2>2. ASSUME NEW q \in Mo!Runs, Using(q)
          PROVE  motion_alerts[motion_run[q].watch] = 0 \/ motion_detector'[motion_run[q].detector].triggered
      BY <1>2, <2>2, UsesIts DEF MotionInv, SaidIsMarked
    <2>3. ASSUME NEW q \in Mo!Runs, motion_run'[q].pc = "send"
          PROVE  ~motion_detector'[motion_run[q].detector].triggered
      <3>1. CASE q = r
        BY <1>1, <1>2, <2>3, <3>1 DEF Mo!Moved
      <3>2. CASE q # r
        <4>1. motion_run[q].pc = "send" /\ Using(q)
          BY <1>2, <2>3, <3>2 DEF Using
        <4>2. motion_run[q].detector \in Mo!Runs
          BY <4>1, UsesIts
        <4>3. QED
          BY <1>2, <4>1, <4>2 DEF MotionInv, SaidIsMarked
      <3>3. QED
        BY <3>1, <3>2
    <2>4. QED
      BY <1>0, <1>3, <2>1, <2>2, <2>3 DEF SaidIsMarked
  <1>7. CountsReadings'
    <2>1. /\ IsFiniteSet(motion_counted[d])
          /\ motion_detector[d].consecutive <= Cardinality(motion_counted[d])
          /\ Cardinality(motion_counted[d]) \in Nat /\ motion_detector[d].consecutive \in Nat
      <3>1. IsFiniteSet(motion_counted[d])
        BY <1>1 DEF MotionInv, CountsReadings
      <3>2. motion_detector[d].consecutive <= Cardinality(motion_counted[d])
        BY <1>1 DEF MotionInv, CountsReadings
      <3>3. Cardinality(motion_counted[d]) \in Nat
        BY <3>1, FS_CardinalityType
      <3>4. motion_detector[d].consecutive \in Nat
        BY <1>1 DEF MotionInv, MotionTyped, Detecting
      <3>5. QED
        BY <3>1, <3>2, <3>3, <3>4
    <2>2. motion_now.at \notin motion_counted[d]
      <3>1. \A n \in motion_counted[d] : n \in Nat /\ n <= motion_run[r].last
        BY <1>0, <1>1, <1>2 DEF MotionInv, MotionTyped, CountsReadings
      <3>2. motion_run[r].last \in Nat
        BY DEF MotionInv, MotionTyped, LoopState
      <3>3. QED
        BY <1>0, <1>2, <3>1, <3>2
    <2>3. /\ IsFiniteSet(motion_counted'[d])
          /\ motion_detector'[d].consecutive <= Cardinality(motion_counted'[d])
      <3>1. CASE motion_detector[d].triggered
        BY <1>2, <2>1, <3>1
      <3>2. CASE ~motion_detector[d].triggered /\ Mo!Distance(d) >= Near
        <4>1. /\ motion_counted'[d] = motion_counted[d] \cup {motion_now.at}
              /\ motion_detector'[d].consecutive = motion_detector[d].consecutive + 1
          BY <1>2, <3>2 DEF Mo!Consecutive
        <4>2. /\ IsFiniteSet(motion_counted[d] \cup {motion_now.at})
              /\ Cardinality(motion_counted[d] \cup {motion_now.at}) = Cardinality(motion_counted[d]) + 1
          BY <2>1, <2>2, FS_AddElement
        <4>3. QED
          BY <2>1, <4>1, <4>2
      <3>3. CASE ~motion_detector[d].triggered /\ ~(Mo!Distance(d) >= Near)
        <4>1. motion_counted'[d] = {} /\ motion_detector'[d].consecutive = 0
          BY <1>2, <3>3 DEF Mo!Consecutive
        <4>2. IsFiniteSet({}) /\ Cardinality({}) = 0
          BY FS_EmptySet
        <4>3. QED
          BY <4>1, <4>2
      <3>4. QED
        BY <3>1, <3>2, <3>3
    <2>4. ASSUME NEW x \in Mo!Runs, x # d
          PROVE  /\ IsFiniteSet(motion_counted'[x])
                 /\ motion_detector'[x].consecutive <= Cardinality(motion_counted'[x])
      BY <1>2, <2>4 DEF MotionInv, CountsReadings
    <2>5. ASSUME NEW q \in Mo!Runs, Using(q), NEW n \in motion_counted'[motion_run[q].detector]
          PROVE  n <= motion_run'[q].last
      <3>1. CASE q = r
        <4>1. n \in motion_counted[d] \cup {motion_now.at}
          BY <1>2, <2>5, <3>1
        <4>2. CASE n = motion_now.at
          BY <1>0, <1>2, <3>1, <4>2
        <4>3. CASE n \in motion_counted[d]
          <5>1. n \in Nat /\ n <= motion_run[r].last /\ motion_run[r].last \in Nat
            BY <1>0, <1>1, <1>2, <4>3 DEF MotionInv, MotionTyped, CountsReadings, LoopState
          <5>2. QED
            BY <1>0, <1>2, <3>1, <5>1
        <4>4. QED
          BY <4>1, <4>2, <4>3
      <3>2. CASE q # r
        <4>1. motion_counted'[motion_run[q].detector] = motion_counted[motion_run[q].detector]
          BY <1>2, <1>4, <2>5, <3>2
        <4>2. n <= motion_run[q].last
          BY <2>5, <4>1 DEF MotionInv, CountsReadings
        <4>3. QED
          BY <1>2, <3>2, <4>2
      <3>3. QED
        BY <3>1, <3>2
    <2>6. QED
      BY <1>3, <2>3, <2>4, <2>5 DEF CountsReadings
  <1>8. Mo!OneEventAWatch'
    BY <1>0 DEF MotionInv, Mo!MotionIsReal, Mo!OneEventAWatch
  <1>9. Mo!MeasuredFromArming'
    <2>1. \A q \in Mo!Runs : Using(q) =>
            motion_detector'[motion_run[q].detector].reference = motion_firsts[motion_run[q].watch]
      BY <1>2, UsesIts
    <2>2. QED
      BY <1>0, <1>3, <2>1 DEF Mo!MeasuredFromArming, Using
  <1>10. \A x \in Mo!Runs : Mo!Distance(x)' = Mo!Distance(x)
    BY <1>0, <1>2 DEF Mo!Distance
  <1>11. Mo!ThreeReadings'
    <2>1. ASSUME NEW q \in Mo!Runs, motion_run'[q].pc = "send", motion_run'[q].last = motion_now.at
          PROVE  \/ Cardinality(motion_counted'[motion_run[q].detector]) >= 3
                 \/ Mo!Distance(motion_run[q].detector) >= Far
      <3>1. CASE q = r
        <4>1. ~motion_detector[d].triggered /\ (Mo!Distance(d) >= Far \/ Mo!Consecutive(d) >= 3)
          BY <1>2, <2>1, <3>1 DEF Mo!Moved
        <4>2. CASE Mo!Consecutive(d) >= 3
          <5>1. /\ motion_detector'[d].consecutive >= 3 /\ IsFiniteSet(motion_counted'[d])
                /\ motion_detector'[d].consecutive <= Cardinality(motion_counted'[d])
                /\ motion_detector'[d].consecutive = Mo!Consecutive(d)
            BY <1>1, <1>2, <1>7, <4>1, <4>2 DEF CountsReadings
          <5>2. Mo!Consecutive(d) \in Nat /\ Cardinality(motion_counted'[d]) \in Nat
            <6>1. motion_detector[d].consecutive \in Nat
              BY <1>1 DEF MotionInv, MotionTyped, Detecting
            <6>2. QED
              BY <5>1, <6>1, FS_CardinalityType DEF Mo!Consecutive
          <5>3. Cardinality(motion_counted'[d]) >= 3
            BY <5>1, <5>2
          <5>4. QED
            BY <1>2, <3>1, <5>3
        <4>3. QED
          BY <1>2, <3>1, <4>1, <4>2
      <3>2. CASE q # r
        <4>1. motion_run'[q] = motion_run[q] /\ Using(q)
          BY <1>2, <2>1, <3>2 DEF Using
        <4>2. motion_counted'[motion_run[q].detector] = motion_counted[motion_run[q].detector]
          BY <1>2, <1>4, <3>2, <4>1
        <4>3. QED
          BY <2>1, <4>1, <4>2, SameCardinality DEF MotionInv, Mo!MotionIsReal, Mo!ThreeReadings
      <3>3. QED
        BY <3>1, <3>2
    <2>2. \A q \in Mo!Runs : motion_run'[q].pc = "send" => motion_run[q].detector \in Mo!Runs
      BY <1>3, UsesIts DEF Using
    <2>3. ASSUME NEW q \in Mo!Runs, motion_run'[q].pc = "send", motion_run'[q].last = motion_now'.at
          PROVE  \/ Mo!Cardinality(motion_counted'[motion_run'[q].detector]) >= 3
                 \/ Mo!Distance(motion_run[q].detector)' >= Far
      BY <1>0, <1>3, <1>10, <2>1, <2>2, <2>3, SameCardinality
    <2>4. QED
      BY <1>3, <2>3 DEF Mo!ThreeReadings, Mo!Distance
  <1>12. QED
    BY <1>5, <1>6, <1>7, <1>8, <1>9, <1>11 DEF Mo!MotionIsReal

LEMMA MotionStep == ASSUME Mo!ConstantsOK, MotionInv, [Mo!Next]_Mo!vars PROVE MotionInv'
  <1>. DEFINE Rest == OneADetector' /\ SaidIsMarked' /\ CountsReadings' /\ Mo!MotionIsReal'
  <1>1. ASSUME Mo!Sense \/ Mo!Arm \/ Mo!Disarm \/ UNCHANGED Mo!vars PROVE Rest
    BY <1>1, AsideSteps
  <1>2. ASSUME NEW r \in Mo!Runs, Mo!Start(r) \/ Mo!GiveUp(r) \/ Mo!FirstReading(r) PROVE Rest
    BY <1>2, AsideSteps
  <1>3. ASSUME NEW r \in Mo!Runs, Mo!Session(r) PROVE Rest
    <2>1. CASE /\ motion_run' = [motion_run EXCEPT ![r].pc = "over"]
               /\ motion_run[r].pc = "session"
               /\ UNCHANGED <<motion_now, motion_watch, motion_sensor, motion_detector,
                              motion_alerts, motion_firsts, motion_counted>>
      BY <2>1, AsideSteps
    <2>2. CASE \E d \in Mo!Runs : Goes(r, d)
      BY <2>2, GoesKeeps
    <2>3. QED
      BY <1>3, <2>1, <2>2, SessionGoes
  <1>4. ASSUME NEW r \in Mo!Runs, Mo!Look(r) PROVE Rest
    BY <1>4, LookKeeps
  <1>5. ASSUME NEW r \in Mo!Runs, Mo!Send(r) PROVE Rest
    <2>1. CASE /\ motion_run' = [motion_run EXCEPT ![r].pc = "over"]
               /\ UNCHANGED <<motion_detector, motion_alerts>>
      BY <1>5, <2>1, AsideSteps DEF Mo!Send
    <2>2. CASE Says(r)
      BY <2>2, SaysKeeps
    <2>3. QED
      BY <1>5, <2>1, <2>2 DEF Mo!Send, Says
  <1>. HIDE DEF Rest
  <1>6. Rest
    <2>1. CASE UNCHANGED Mo!vars
      BY <1>1, <2>1
    <2>2. CASE Mo!Next
      BY <1>1, <1>2, <1>3, <1>4, <1>5, <2>2 DEF Mo!Next
    <2>3. QED
      BY <2>1, <2>2
  <1>. USE DEF Rest
  <1>7. QED
    BY <1>6, MotionTypedStep, OneALoopStep DEF MotionInv

\* A watch has one run of the loop at a time and one detector over all of them, whatever
\* the run of an earlier watch still does: motion.go's session, which looks at the context
\* under the lock before it touches the detector.
THEOREM MotionInvariant == ASSUME Mo!ConstantsOK PROVE Mo!Spec => []MotionInv
  <1>1. Mo!Init => MotionInv
    BY MotionInit
  <1>2. MotionInv /\ [Mo!Next]_Mo!vars => MotionInv'
    BY MotionStep
  <1>3. QED
    BY <1>1, <1>2, PTL DEF Mo!Spec

\* Motion is said of a machine that was moved since it was armed, and once a watch: one
\* alert, measured from the first run's place, on three readings or a far one.
THEOREM MotionAlertsAreReal == ASSUME Mo!ConstantsOK PROVE Mo!Spec => []Mo!MotionIsReal
  <1>1. MotionInv => Mo!MotionIsReal
    BY DEF MotionInv
  <1>2. QED
    BY <1>1, MotionInvariant, PTL

-----------------------------------------------------------------------------
(***************************************************************************)
(* Detectors.                                                              *)
(***************************************************************************)
Activity == [busy : Nat, quiet : Nat, alerted : BOOLEAN]

DetectorsTyped ==
  /\ detectors_kind \in De!Kinds /\ detectors_threshold \in Nat \ {0}
  /\ detectors_pc \in {"start", "grace", "watch", "failed"}
  /\ detectors_pc = "grace" => ~De!Watches
  /\ detectors_activity \in Activity
  /\ De!Watches => detectors_seen \in Seq(De!Readings)
  /\ ~De!Watches => detectors_seen \in Seq(BOOLEAN)

\* A run's readings and alerts are its own, and an alert is of one of the readings.
OfThisRun ==
  /\ detectors_pc # "watch" => /\ detectors_seen = <<>> /\ detectors_raised = {}
                               /\ ~detectors_hand /\ detectors_activity = De!Still
  /\ De!Watches => \A a \in detectors_raised : a[1] \in 1 .. Len(detectors_seen)
  /\ ~De!Watches => \A a \in detectors_raised : \E i \in 1 .. Len(detectors_seen) : a = <<i>>

Good(j) == detectors_seen[j] # De!Unreadable \/ detectors_kind = "network"
IsPrevious(i, j) == j \in 1 .. i - 1 /\ Good(j) /\ \A k \in j + 1 .. i - 1 : ~Good(k)

\* What a reading is held against is the last one before it that could be read, and
\* there is one.
HasItsPrevious ==
  De!Watches =>
    /\ \A i \in 2 .. Len(detectors_seen) + 1 : \E j \in 1 .. i - 1 : IsPrevious(i, j)
    /\ detectors_pc = "watch" =>
         /\ detectors_seen # <<>>
         /\ detectors_last = De!Previous(Len(detectors_seen) + 1)

Busy(i) == detectors_seen[i] = TRUE
Latched == detectors_activity.alerted = TRUE
Alerted(i) == <<i>> \in detectors_raised

\* The activity watch counts the quiet readings, and the busy ones, at the end of what was
\* seen.
QuietsCounted(n, quiet) ==
  /\ quiet <= n /\ \A k \in n - quiet + 1 .. n : ~Busy(k)
  /\ quiet < n => Busy(n - quiet)

BusyCounted(n, busy) ==
  /\ busy <= n /\ busy < detectors_threshold
  /\ \A k \in n - busy + 1 .. n : Busy(k)
  /\ busy < n => ~Busy(n - busy)

CountsAreRuns ==
  ~De!Watches =>
    /\ QuietsCounted(Len(detectors_seen), detectors_activity.quiet)
    /\ Latched => detectors_activity.busy = 0
    /\ ~Latched => BusyCounted(Len(detectors_seen), detectors_activity.busy)

\* Between the readings j and i the machine was left alone.
LeftAlone(j, i) ==
  \E k \in j + 1 .. i - Left : \A m \in k .. k + Left - 1 : ~Busy(m)

\* A reading raises an alert as OneAlertAPerson has it.
Judged(i) ==
  Alerted(i) <=>
    /\ i >= detectors_threshold /\ \A k \in i - detectors_threshold + 1 .. i : Busy(k)
    /\ \A j \in 1 .. i - 1 : Alerted(j) => LeftAlone(j, i)

OneAlert == ~De!Watches => \A i \in 1 .. Len(detectors_seen) : Judged(i)

\* The watch stays alerted until the machine was left alone after the alert.
AlertedIsLatched ==
  ~De!Watches =>
    LET n == Len(detectors_seen) IN
      /\ Latched => \E j \in 1 .. n : Alerted(j) /\ ~LeftAlone(j, n + 1)
      /\ ~Latched => \A j \in 1 .. n : Alerted(j) => LeftAlone(j, n + 1)

\* What is seen of nobody touching the machine is one reading at most, the first.
HandIsSeen ==
  ~De!Watches /\ ~detectors_hand =>
    /\ \A k \in 2 .. Len(detectors_seen) : ~Busy(k)
    /\ detectors_seen # <<>> => ~detectors_before

DetectorsInv ==
  /\ DetectorsTyped /\ OfThisRun /\ HasItsPrevious /\ CountsAreRuns /\ OneAlert
  /\ AlertedIsLatched /\ HandIsSeen /\ De!AlertsAreEdges /\ De!DevicesAreNamed

\* A run that has seen nothing yet.
Fresh ==
  /\ detectors_seen = <<>> /\ detectors_raised = {} /\ ~detectors_hand
  /\ detectors_activity = De!Still
  /\ detectors_pc \in {"start", "grace", "failed"}
  /\ detectors_pc = "grace" => ~De!Watches
  /\ detectors_kind \in De!Kinds /\ detectors_threshold \in Nat \ {0}

LEMMA FreshIsFine ==
  ASSUME Fresh PROVE DetectorsInv
  <1>1. /\ detectors_seen = <<>> /\ detectors_raised = {} /\ Len(detectors_seen) = 0
        /\ detectors_activity.busy = 0 /\ detectors_activity.quiet = 0
        /\ ~detectors_activity.alerted /\ detectors_activity \in Activity
    BY DEF Fresh, De!Still, Activity
  <1>2. DetectorsTyped
    BY <1>1 DEF Fresh, DetectorsTyped
  <1>3. OfThisRun
    BY DEF Fresh, OfThisRun
  <1>4. HasItsPrevious
    BY <1>1 DEF Fresh, HasItsPrevious
  <1>5. CountsAreRuns
    BY <1>1 DEF Fresh, CountsAreRuns, QuietsCounted, BusyCounted, Latched
  <1>6. OneAlert /\ AlertedIsLatched /\ HandIsSeen
    BY <1>1 DEF OneAlert, AlertedIsLatched, HandIsSeen, Latched
  <1>7. De!AlertsAreEdges /\ De!DevicesAreNamed
    BY <1>1 DEF De!AlertsAreEdges, De!DevicesAreNamed
  <1>8. QED
    BY <1>2, <1>3, <1>4, <1>5, <1>6, <1>7 DEF DetectorsInv

LEMMA FreshAgain ==
  ASSUME Fresh' PROVE DetectorsInv'
  <1>1. /\ detectors_seen' = <<>> /\ detectors_raised' = {} /\ Len(detectors_seen') = 0
        /\ detectors_activity'.busy = 0 /\ detectors_activity'.quiet = 0
        /\ ~detectors_activity'.alerted /\ detectors_activity' \in Activity
    BY DEF Fresh, De!Still, Activity
  <1>2. DetectorsTyped'
    BY <1>1 DEF Fresh, DetectorsTyped
  <1>3. OfThisRun'
    BY DEF Fresh, OfThisRun
  <1>4. HasItsPrevious'
    BY <1>1 DEF Fresh, HasItsPrevious
  <1>5. CountsAreRuns'
    BY <1>1 DEF Fresh, CountsAreRuns, QuietsCounted, BusyCounted, Latched
  <1>6. OneAlert' /\ AlertedIsLatched' /\ HandIsSeen'
    BY <1>1 DEF OneAlert, AlertedIsLatched, HandIsSeen, Latched
  <1>7. De!AlertsAreEdges' /\ De!DevicesAreNamed'
    BY <1>1 DEF De!AlertsAreEdges, De!DevicesAreNamed
  <1>8. QED
    BY <1>2, <1>3, <1>4, <1>5, <1>6, <1>7 DEF DetectorsInv

LEMMA DetectorsInit == De!ConstantsOK /\ De!Init => DetectorsInv
  <1>. SUFFICES ASSUME De!ConstantsOK, De!Init PROVE DetectorsInv
    OBVIOUS
  <1>1. detectors_threshold \in Nat \ {0}
    BY DEF De!Init, De!ConstantsOK
  <1>2. Fresh
    BY <1>1 DEF De!Init, Fresh
  <1>3. QED
    BY <1>2, FreshIsFine

\* The largest of some numbers is chosen.
LEMMA LargestIsChosen ==
  ASSUME NEW good, NEW j \in good, \A k \in good : k \in Int /\ k <= j
  PROVE  (CHOOSE x \in good : \A k \in good : k <= x) = j
  <1>. DEFINE c == CHOOSE x \in good : \A k \in good : k <= x
  <1>1. c \in good /\ \A k \in good : k <= c
    OBVIOUS
  <1>. HIDE DEF c
  <1>2. QED
    BY <1>1

LEMMA PreviousIs ==
  ASSUME NEW i \in Nat, NEW j \in Nat, IsPrevious(i, j)
  PROVE  De!Previous(i) = detectors_seen[j]
  <1>. DEFINE good == {k \in 1 .. i - 1 : detectors_seen[k] # De!Unreadable \/ detectors_kind = "network"}
  <1>1. j \in good /\ \A k \in good : k \in Int /\ k <= j
    BY DEF IsPrevious, Good
  <1>. HIDE DEF good
  <1>2. (CHOOSE x \in good : \A k \in good : k <= x) = j
    BY <1>1, LargestIsChosen
  <1>3. QED
    BY <1>2 DEF De!Previous, good

LEMMA NextPreviousIs ==
  ASSUME NEW i \in Nat, NEW j \in Nat, IsPrevious(i, j)'
  PROVE  De!Previous(i)' = detectors_seen'[j]
  <1>. DEFINE good == {k \in 1 .. i - 1 : detectors_seen'[k] # De!Unreadable \/ detectors_kind' = "network"}
  <1>1. j \in good /\ \A k \in good : k \in Int /\ k <= j
    BY DEF IsPrevious, Good
  <1>. HIDE DEF good
  <1>2. (CHOOSE x \in good : \A k \in good : k <= x) = j
    BY <1>1, LargestIsChosen
  <1>3. QED
    BY <1>2 DEF De!Previous, good


\* What a reading more leaves of those before.
LEMMA ReadingMore ==
  ASSUME DetectorsInv, De!Watches, detectors_pc = "watch", NEW r \in De!Readings,
         detectors_seen' = Append(detectors_seen, r), detectors_kind' = detectors_kind,
         NEW n, n = Len(detectors_seen)
  PROVE  /\ n \in Nat \ {0} /\ Len(detectors_seen') = n + 1 /\ detectors_seen' # <<>>
         /\ detectors_seen' \in Seq(De!Readings) /\ detectors_seen'[n + 1] = r
         /\ \A k \in 1 .. n : detectors_seen'[k] = detectors_seen[k]
         /\ \A i \in 2 .. n + 2 : \E j \in 1 .. i - 1 : IsPrevious(i, j)'
         /\ \A i \in 2 .. n : De!Previous(i)' = De!Previous(i)
         /\ De!Previous(n + 1)' = detectors_last
         /\ De!Previous(n + 2)' = IF r = De!Unreadable /\ detectors_kind # "network"
                                  THEN detectors_last ELSE r
  <1>1. /\ detectors_seen \in Seq(De!Readings) /\ detectors_seen # <<>>
        /\ detectors_last = De!Previous(n + 1)
        /\ \A i \in 2 .. n + 1 : \E j \in 1 .. i - 1 : IsPrevious(i, j)
    BY DEF DetectorsInv, DetectorsTyped, HasItsPrevious
  <1>2. /\ n \in Nat \ {0} /\ Len(detectors_seen') = n + 1 /\ detectors_seen' # <<>>
        /\ detectors_seen' \in Seq(De!Readings) /\ detectors_seen'[n + 1] = r
        /\ \A k \in 1 .. n : detectors_seen'[k] = detectors_seen[k]
    <2>1. n \in Nat \ {0}
      BY <1>1
    <2>2. QED
      BY <1>1, <2>1, Appended
  <1>3. \A k \in 1 .. n : Good(k)' <=> Good(k)
    BY <1>2 DEF Good
  <1>4. ASSUME NEW i \in 2 .. n + 1, NEW j \in 1 .. i - 1, IsPrevious(i, j)
        PROVE  /\ IsPrevious(i, j)' /\ De!Previous(i)' = De!Previous(i)
               /\ De!Previous(i) = detectors_seen[j]
    <2>1. j \in 1 .. n /\ i \in Nat /\ \A k \in j + 1 .. i - 1 : k \in 1 .. n
      BY <1>2
    <2>2. IsPrevious(i, j)'
      BY <1>3, <1>4, <2>1 DEF IsPrevious
    <2>3. j \in Nat
      BY <2>1
    <2>4. De!Previous(i)' = detectors_seen'[j]
      BY <2>1, <2>2, <2>3, NextPreviousIs
    <2>5. De!Previous(i) = detectors_seen[j]
      BY <1>4, <2>1, <2>3, PreviousIs
    <2>6. QED
      BY <1>2, <2>1, <2>2, <2>4, <2>5
  <1>5. \A i \in 2 .. n + 1 : /\ De!Previous(i)' = De!Previous(i)
                              /\ \E j \in 1 .. i - 1 : IsPrevious(i, j)'
    BY <1>1, <1>4
  <1>6. De!Previous(n + 1)' = detectors_last
    BY <1>1, <1>2, <1>5
  <1>7. /\ \E j \in 1 .. n + 1 : IsPrevious(n + 2, j)'
        /\ De!Previous(n + 2)' = IF r = De!Unreadable /\ detectors_kind # "network"
                                 THEN detectors_last ELSE r
    <2>1. CASE ~(r = De!Unreadable /\ detectors_kind # "network")
      <3>1. Good(n + 1)'
        BY <1>2, <2>1 DEF Good
      <3>2. IsPrevious(n + 2, n + 1)'
        <4>1. n + 1 \in 1 .. (n + 2) - 1 /\ \A k \in (n + 1) + 1 .. (n + 2) - 1 : FALSE
          BY <1>2
        <4>2. QED
          BY <3>1, <4>1 DEF IsPrevious
      <3>3. De!Previous(n + 2)' = detectors_seen'[n + 1]
        BY <1>2, <3>2, NextPreviousIs
      <3>4. n + 1 \in 1 .. n + 1
        BY <1>2
      <3>5. QED
        BY <1>2, <2>1, <3>2, <3>3, <3>4
    <2>2. CASE r = De!Unreadable /\ detectors_kind # "network"
      <3>1. ~Good(n + 1)'
        BY <1>2, <2>2 DEF Good
      <3>2. PICK j \in 1 .. n : IsPrevious(n + 1, j)
        BY <1>1, <1>2
      <3>3. IsPrevious(n + 1, j)' /\ De!Previous(n + 1) = detectors_seen[j]
        BY <1>2, <1>4, <3>2
      <3>4. IsPrevious(n + 2, j)'
        <4>1. /\ j \in 1 .. (n + 2) - 1
              /\ \A k \in j + 1 .. (n + 2) - 1 : k \in j + 1 .. (n + 1) - 1 \/ k = n + 1
          BY <1>2, <3>2
        <4>2. QED
          BY <3>1, <3>3, <4>1 DEF IsPrevious
      <3>5. De!Previous(n + 2)' = detectors_seen'[j]
        BY <1>2, <3>4, NextPreviousIs
      <3>6. j \in 1 .. n + 1
        BY <1>2
      <3>7. QED
        BY <1>1, <1>2, <2>2, <3>3, <3>4, <3>5, <3>6
    <2>3. QED
      BY <2>1, <2>2
  <1>8. ASSUME NEW i \in 2 .. n + 2 PROVE \E j \in 1 .. i - 1 : IsPrevious(i, j)'
    <2>1. CASE i \in 2 .. n + 1
      BY <1>5, <2>1
    <2>2. CASE i = n + 2
      <3>1. (n + 2) - 1 = n + 1
        BY <1>2
      <3>2. QED
        BY <1>7, <2>2, <3>1
    <2>3. QED
      BY <1>2, <2>1, <2>2
  <1>9. \A i \in 2 .. n : De!Previous(i)' = De!Previous(i)
    BY <1>2, <1>5
  <1>10. QED
    BY <1>2, <1>6, <1>7, <1>8, <1>9

LEMMA Joined ==
  ASSUME NEW S, NEW s \in Seq(S), NEW t \in Seq(S)
  PROVE  /\ s \o t \in Seq(S) /\ Len(s \o t) = Len(s) + Len(t)
         /\ \A k \in 1 .. Len(s) + Len(t) : (s \o t)[k] = IF k <= Len(s) THEN s[k] ELSE t[k - Len(s)]
  OBVIOUS

LEMMA Prefixed == \A i, x, y : <<i>> \o <<x, y>> = <<i, x, y>>
  <1>1. SUFFICES ASSUME NEW i, NEW x, NEW y PROVE <<i>> \o <<x, y>> = <<i, x, y>>
    OBVIOUS
  <1>. DEFINE S == {i, x, y}
              s == <<i>>
              t == <<x, y>>
              u == <<i, x, y>>
  <1>2. /\ s \in Seq(S) /\ Len(s) = 1 /\ s[1] = i
        /\ t \in Seq(S) /\ Len(t) = 2 /\ t[1] = x /\ t[2] = y
        /\ u \in Seq(S) /\ Len(u) = 3 /\ u[1] = i /\ u[2] = x /\ u[3] = y
    OBVIOUS
  <1>. HIDE DEF S, s, t, u
  <1>3. /\ s \o t \in Seq(S) /\ Len(s \o t) = Len(s) + Len(t)
        /\ \A k \in 1 .. Len(s) + Len(t) : (s \o t)[k] = IF k <= Len(s) THEN s[k] ELSE t[k - Len(s)]
    BY ONLY <1>2, Joined
  <1>. DEFINE v == s \o t
  <1>4. /\ v \in Seq(S) /\ Len(v) = 3
        /\ \A k \in 1 .. 3 : v[k] = IF k <= 1 THEN s[k] ELSE t[k - 1]
    BY <1>2, <1>3
  <1>. HIDE DEF v
  <1>5. v[1] = i /\ v[2] = x /\ v[3] = y
    BY <1>2, <1>4
  <1>6. \A k \in 1 .. 3 : v[k] = u[k]
    <2>1. \A k \in 1 .. 3 : k = 1 \/ k = 2 \/ k = 3
      OBVIOUS
    <2>2. QED
      BY <1>2, <1>5, <2>1
  <1>7. v = u
    BY <1>2, <1>4, <1>6
  <1>8. QED
    BY <1>7 DEF s, t, u, v

LEMMA AnAlertOfIt ==
  ASSUME NEW i, NEW alerts, NEW a \in De!At(i, alerts), \A x \in alerts : \E y, z : x = <<y, z>>
  PROVE  a[1] = i
  <1>1. PICK x \in alerts : a = <<i>> \o x
    BY DEF De!At
  <1>2. PICK y, z : x = <<y, z>>
    OBVIOUS
  <1>3. a = <<i, y, z>>
    BY <1>1, <1>2, Prefixed
  <1>4. QED
    BY <1>3

LEMMA AlertsArePairs ==
  ASSUME NEW r, NEW x \in De!Alerts(r) PROVE \E y, z : x = <<y, z>>
  <1>1. CASE detectors_kind = "devices"
    BY <1>1 DEF De!Alerts
  <1>2. CASE detectors_kind # "devices"
    BY <1>2 DEF De!Alerts
  <1>3. QED
    BY <1>1, <1>2

LEMMA EdgeAlerts ==
  ASSUME NEW i, NEW r, detectors_kind # "devices"
  PROVE  De!At(i, De!Alerts(r)) = IF r = detectors_last THEN {} ELSE {<<i, "now", r>>}
  <1>1. De!Alerts(r) = IF r = detectors_last THEN {} ELSE {<<"now", r>>}
    BY DEF De!Alerts
  <1>2. \A x : <<i>> \o <<"now", x>> = <<i, "now", x>>
    BY Prefixed
  <1>3. QED
    BY <1>1, <1>2 DEF De!At

LEMMA DeviceAlerts ==
  ASSUME NEW i, NEW r, NEW d, detectors_kind = "devices"
  PROVE  /\ <<i, "removed", d>> \in De!At(i, De!Alerts(r)) <=> d \in detectors_last \ r
         /\ <<i, "connected", d>> \in De!At(i, De!Alerts(r)) <=> d \in r \ detectors_last
  <1>1. De!Alerts(r) = {<<"removed", x>> : x \in detectors_last \ r}
                         \cup {<<"connected", x>> : x \in r \ detectors_last}
    BY DEF De!Alerts
  <1>2. \A x : <<i>> \o <<"removed", x>> = <<i, "removed", x>>
    BY Prefixed
  <1>3. \A x : <<i>> \o <<"connected", x>> = <<i, "connected", x>>
    BY Prefixed
  <1>4. \A a : a \in De!At(i, De!Alerts(r)) <=>
          \/ \E x \in detectors_last \ r : a = <<i, "removed", x>>
          \/ \E x \in r \ detectors_last : a = <<i, "connected", x>>
    BY <1>1, <1>2, <1>3 DEF De!At
  <1>. HIDE DEF De!At
  <1>5. QED
    BY <1>4


LEMMA ReadKeeps ==
  ASSUME DetectorsInv, NEW r \in De!Readings, De!Read(r) PROVE DetectorsInv'
  <1>0. PICK n : n = Len(detectors_seen)
    OBVIOUS
  <1>. DEFINE blind == r = De!Unreadable /\ detectors_kind # "network"
  <1>1. /\ De!Watches /\ detectors_pc = "watch" /\ detectors_seen' = Append(detectors_seen, r)
        /\ UNCHANGED <<detectors_kind, detectors_threshold, detectors_pc, detectors_activity>>
        /\ Len(detectors_seen') = n + 1
    <2>1. /\ De!Watches /\ detectors_pc = "watch" /\ detectors_seen' = Append(detectors_seen, r)
          /\ UNCHANGED <<detectors_kind, detectors_threshold, detectors_pc, detectors_activity>>
      BY DEF De!Read
    <2>2. QED
      BY <1>0, <2>1, ReadingMore
  <1>2. /\ blind => detectors_last' = detectors_last /\ detectors_raised' = detectors_raised
        /\ ~blind => /\ detectors_last' = r
                     /\ detectors_raised' = detectors_raised \cup De!At(n + 1, De!Alerts(r))
    BY <1>0, <1>1 DEF De!Read
  <1>3. De!Watches'
    BY <1>1 DEF De!Watches
  <1>4. /\ n \in Nat \ {0} /\ detectors_seen' # <<>>
        /\ detectors_seen' \in Seq(De!Readings) /\ detectors_seen'[n + 1] = r
        /\ \A k \in 1 .. n : detectors_seen'[k] = detectors_seen[k]
        /\ \A i \in 2 .. n + 2 : \E j \in 1 .. i - 1 : IsPrevious(i, j)'
        /\ \A i \in 2 .. n : De!Previous(i)' = De!Previous(i)
        /\ De!Previous(n + 1)' = detectors_last
        /\ De!Previous(n + 2)' = IF blind THEN detectors_last ELSE r
    BY <1>0, <1>1, ReadingMore
  <1>5. \A a \in detectors_raised : a[1] \in 1 .. n
    BY <1>0, <1>1 DEF DetectorsInv, OfThisRun
  <1>6. DetectorsTyped'
    BY <1>1, <1>3, <1>4 DEF DetectorsInv, DetectorsTyped
  <1>7. OfThisRun'
    <2>1. ASSUME NEW a \in detectors_raised' PROVE a[1] \in 1 .. n + 1
      <3>1. CASE a \in detectors_raised
        BY <1>4, <1>5, <3>1
      <3>2. CASE a \in De!At(n + 1, De!Alerts(r))
        <4>1. a[1] = n + 1
          BY <3>2, AlertsArePairs, AnAlertOfIt
        <4>2. QED
          BY <1>4, <4>1
      <3>3. QED
        BY <1>2, <2>1, <3>1, <3>2
    <2>2. QED
      BY <1>1, <1>3, <2>1 DEF OfThisRun
  <1>8. HasItsPrevious'
    <2>1. De!Previous(n + 2)' = detectors_last'
      BY <1>2, <1>4
    <2>2. De!Previous(Len(detectors_seen) + 1)' = detectors_last'
      <3>1. Len(detectors_seen') + 1 = n + 2
        BY <1>1, <1>4
      <3>2. QED
        BY <2>1, <3>1 DEF De!Previous
    <2>3. Len(detectors_seen') + 1 = n + 2
      BY <1>1, <1>4
    <2>4. QED
      BY <1>4, <2>2, <2>3 DEF HasItsPrevious
  <1>9. CountsAreRuns' /\ OneAlert' /\ AlertedIsLatched' /\ HandIsSeen'
    BY <1>3 DEF CountsAreRuns, OneAlert, AlertedIsLatched, HandIsSeen
  <1>10. De!AlertsAreEdges'
    <2>1. SUFFICES ASSUME detectors_kind \in {"edge", "profile"}
                   PROVE  detectors_raised' =
                            {<<i, "now", detectors_seen'[i]>> :
                               i \in {j \in 2 .. Len(detectors_seen') :
                                        /\ detectors_seen'[j] # De!Unreadable
                                        /\ detectors_seen'[j] # De!Previous(j)'}}
      BY <1>1 DEF De!AlertsAreEdges, De!Previous
    <2>. DEFINE before == {j \in 2 .. n : /\ detectors_seen[j] # De!Unreadable
                                          /\ detectors_seen[j] # De!Previous(j)}
                after == {j \in 2 .. n + 1 : /\ detectors_seen'[j] # De!Unreadable
                                             /\ detectors_seen'[j] # De!Previous(j)'}
    <2>2. detectors_raised = {<<i, "now", detectors_seen[i]>> : i \in before}
      BY <1>0, <2>1 DEF DetectorsInv, De!AlertsAreEdges
    <2>3. De!At(n + 1, De!Alerts(r)) = IF r = detectors_last THEN {} ELSE {<<n + 1, "now", r>>}
      <3>1. detectors_kind # "devices"
        BY <2>1
      <3>2. QED
        BY <3>1, EdgeAlerts
    <2>4. /\ \A j \in 2 .. n : j \in after <=> j \in before
          /\ n + 1 \in after <=> r # De!Unreadable /\ r # detectors_last
          /\ \A j \in after : j \in 2 .. n \/ j = n + 1
          /\ \A j \in before : j \in 2 .. n
      <3>1. \A j \in 2 .. n + 1 : j \in 2 .. n \/ j = n + 1
        BY <1>4
      <3>2. n + 1 \in 2 .. n + 1 /\ \A j \in 2 .. n : j \in 1 .. n /\ j \in 2 .. n + 1
        BY <1>4
      <3>3. QED
        BY <1>4, <3>1, <3>2
    <2>5. /\ \A j \in before : j \in after /\ detectors_seen'[j] = detectors_seen[j]
          /\ \A j \in after : \/ j = n + 1
                              \/ j \in before /\ detectors_seen'[j] = detectors_seen[j]
      <3>1. \A j \in 2 .. n : detectors_seen'[j] = detectors_seen[j]
        BY <1>4
      <3>. HIDE DEF before, after
      <3>2. QED
        BY <2>4, <3>1
    <2>6. detectors_raised' = IF r # De!Unreadable /\ r # detectors_last
                              THEN detectors_raised \cup {<<n + 1, "now", r>>} ELSE detectors_raised
      <3>1. CASE blind
        BY <1>2, <3>1
      <3>2. CASE ~blind
        <4>1. r # De!Unreadable
          BY <2>1, <3>2
        <4>2. QED
          BY <1>2, <2>3, <3>2, <4>1
      <3>3. QED
        BY <3>1, <3>2
    <2>. HIDE DEF before, after
    <2>7. detectors_raised' = {<<i, "now", detectors_seen'[i]>> : i \in after}
      <3>1. \A a : a \in detectors_raised <=> \E i \in before : a = <<i, "now", detectors_seen'[i]>>
        BY <2>2, <2>5
      <3>2. CASE r # De!Unreadable /\ r # detectors_last
        <4>1. \A a : a \in detectors_raised' <=> a \in detectors_raised \/ a = <<n + 1, "now", r>>
          BY <2>6, <3>2
        <4>2. \A a : a \in detectors_raised' <=> \E i \in after : a = <<i, "now", detectors_seen'[i]>>
          BY <1>4, <2>4, <2>5, <3>1, <3>2, <4>1
        <4>3. QED
          BY <4>2
      <3>3. CASE ~(r # De!Unreadable /\ r # detectors_last)
        <4>1. detectors_raised' = detectors_raised
          BY <2>6, <3>3
        <4>2. \A i : i \in after <=> i \in before
          BY <2>4, <2>5, <3>3
        <4>3. \A a : a \in detectors_raised' <=> \E i \in after : a = <<i, "now", detectors_seen'[i]>>
          BY <3>1, <4>1, <4>2
        <4>4. QED
          BY <4>3
      <3>4. QED
        BY <3>2, <3>3
    <2>8. QED
      BY <1>1, <2>7 DEF after
  <1>11. De!DevicesAreNamed'
    <2>1. SUFFICES ASSUME detectors_kind = "devices", NEW i \in 2 .. n + 1, NEW d \in Things,
                          detectors_seen'[i] # De!Unreadable
                   PROVE  /\ <<i, "removed", d>> \in detectors_raised' <=>
                               d \in De!Previous(i)' \ detectors_seen'[i]
                          /\ <<i, "connected", d>> \in detectors_raised' <=>
                               d \in detectors_seen'[i] \ De!Previous(i)'
      BY <1>1 DEF De!DevicesAreNamed, De!Previous
    <2>2. CASE i = n + 1
      <3>1. detectors_raised' = detectors_raised \cup De!At(n + 1, De!Alerts(r))
        BY <1>2, <1>4, <2>1, <2>2
      <3>2. /\ <<n + 1, "removed", d>> \notin detectors_raised
            /\ <<n + 1, "connected", d>> \notin detectors_raised
        <4>1. n + 1 \notin 1 .. n
          BY <1>4
        <4>2. <<n + 1, "removed", d>>[1] = n + 1 /\ <<n + 1, "connected", d>>[1] = n + 1
          OBVIOUS
        <4>3. QED
          BY <1>5, <4>1, <4>2
      <3>3. QED
        BY <1>4, <2>1, <2>2, <3>1, <3>2, DeviceAlerts
    <2>3. CASE i # n + 1
      <3>1. i \in 2 .. n /\ i \in 1 .. n
        BY <1>4, <2>3
      <3>2. \A a \in De!At(n + 1, De!Alerts(r)) : a[1] = n + 1
        BY AlertsArePairs, AnAlertOfIt
      <3>3. /\ <<i, "removed", d>> \notin De!At(n + 1, De!Alerts(r))
            /\ <<i, "connected", d>> \notin De!At(n + 1, De!Alerts(r))
        BY <2>3, <3>2
      <3>4. /\ <<i, "removed", d>> \in detectors_raised' <=> <<i, "removed", d>> \in detectors_raised
            /\ <<i, "connected", d>> \in detectors_raised' <=> <<i, "connected", d>> \in detectors_raised
        BY <1>2, <3>3
      <3>5. detectors_seen'[i] = detectors_seen[i] /\ De!Previous(i)' = De!Previous(i)
        BY <1>4, <3>1
      <3>6. /\ <<i, "removed", d>> \in detectors_raised <=> d \in De!Previous(i) \ detectors_seen[i]
            /\ <<i, "connected", d>> \in detectors_raised <=> d \in detectors_seen[i] \ De!Previous(i)
        BY <1>0, <2>1, <3>1, <3>5 DEF DetectorsInv, De!DevicesAreNamed
      <3>7. QED
        BY <3>4, <3>5, <3>6
    <2>4. QED
      BY <2>2, <2>3
  <1>12. QED
    BY <1>6, <1>7, <1>8, <1>9, <1>10, <1>11 DEF DetectorsInv


\* activityWatch.sample, field by field.
LEMMA SampleIs ==
  ASSUME NEW w \in Activity, NEW b, NEW x, x = De!Sample(w, b)
  PROVE  /\ ~b => /\ x.busy = 0 /\ x.quiet = w.quiet + 1
                  /\ x.alerted <=> w.alerted /\ w.quiet + 1 < Left
         /\ b /\ w.alerted => x.busy = w.busy /\ x.quiet = 0 /\ x.alerted
         /\ b /\ ~w.alerted /\ w.busy + 1 < detectors_threshold =>
              x.busy = w.busy + 1 /\ x.quiet = 0 /\ ~x.alerted
         /\ b /\ ~w.alerted /\ ~(w.busy + 1 < detectors_threshold) =>
              x.busy = 0 /\ x.quiet = 0 /\ x.alerted
         /\ x \in Activity
  <1>1. CASE ~b
    <2>1. x = [busy |-> 0, quiet |-> w.quiet + 1, alerted |-> w.alerted /\ w.quiet + 1 < Left]
      BY <1>1 DEF De!Sample
    <2>2. w.quiet \in Nat
      BY DEF Activity
    <2>3. x.busy = 0 /\ x.quiet = w.quiet + 1 /\ x.alerted = (w.alerted /\ w.quiet + 1 < Left)
      BY <2>1
    <2>4. x \in Activity
      BY <2>1, <2>2 DEF Activity
    <2>5. QED
      BY <1>1, <2>3, <2>4
  <1>2. CASE b /\ w.alerted
    <2>1. x = [w EXCEPT !.quiet = 0]
      BY <1>2 DEF De!Sample
    <2>2. x.busy = w.busy /\ x.quiet = 0 /\ x.alerted = w.alerted /\ x \in Activity
      BY <2>1 DEF Activity
    <2>3. QED
      BY <1>2, <2>2
  <1>3. CASE b /\ ~w.alerted /\ w.busy + 1 < detectors_threshold
    <2>1. x = [busy |-> w.busy + 1, quiet |-> 0, alerted |-> FALSE]
      BY <1>3 DEF De!Sample
    <2>2. w.busy \in Nat
      BY DEF Activity
    <2>3. x.busy = w.busy + 1 /\ x.quiet = 0 /\ x.alerted = FALSE /\ x \in Activity
      BY <2>1, <2>2 DEF Activity
    <2>4. QED
      BY <1>3, <2>3
  <1>4. CASE b /\ ~w.alerted /\ ~(w.busy + 1 < detectors_threshold)
    <2>1. x = [busy |-> 0, quiet |-> 0, alerted |-> TRUE]
      BY <1>4 DEF De!Sample
    <2>2. x.busy = 0 /\ x.quiet = 0 /\ x.alerted = TRUE /\ x \in Activity
      BY <2>1 DEF Activity
    <2>3. QED
      BY <1>4, <2>2
  <1>5. QED
    BY <1>1, <1>2, <1>3, <1>4

\* A second that goes by, told by the reading it ends in.
LEMMA TickFacts ==
  ASSUME DetectorsInv, NEW t \in BOOLEAN, NEW a \in BOOLEAN, De!Tick(t, a),
         NEW n, n = Len(detectors_seen),
         NEW q, q = detectors_activity.quiet, NEW b, b = detectors_activity.busy
  PROVE  /\ ~De!Watches /\ ~De!Watches' /\ detectors_pc = "watch" /\ detectors_pc' = "watch"
         /\ UNCHANGED <<detectors_kind, detectors_threshold>>
         /\ n \in Nat /\ q \in Nat /\ b \in Nat /\ detectors_activity' \in Activity
         /\ Len(detectors_seen') = n + 1 /\ detectors_seen' \in Seq(BOOLEAN)
         /\ \A k \in 1 .. n : Busy(k)' <=> Busy(k)
         /\ Busy(n + 1)' => t \/ detectors_before
         /\ detectors_hand' <=> detectors_hand \/ t
         /\ detectors_before' => t
         /\ ~Busy(n + 1)' =>
              /\ detectors_activity'.busy = 0 /\ detectors_activity'.quiet = q + 1
              /\ Latched' <=> Latched /\ q + 1 < Left
         /\ Busy(n + 1)' /\ Latched =>
              detectors_activity'.busy = b /\ detectors_activity'.quiet = 0 /\ Latched'
         /\ Busy(n + 1)' /\ ~Latched /\ b + 1 < detectors_threshold =>
              detectors_activity'.busy = b + 1 /\ detectors_activity'.quiet = 0 /\ ~Latched'
         /\ Busy(n + 1)' /\ ~Latched /\ ~(b + 1 < detectors_threshold) =>
              detectors_activity'.busy = 0 /\ detectors_activity'.quiet = 0 /\ Latched'
         /\ \A k \in 1 .. n : Alerted(k)' <=> Alerted(k)
         /\ Alerted(n + 1)' <=> Latched' /\ ~Latched
         /\ \A x \in detectors_raised' : \E i \in 1 .. n + 1 : x = <<i>>
  <1>. DEFINE w == detectors_activity
  <1>1. /\ ~De!Watches /\ detectors_pc = "watch"
        /\ UNCHANGED <<detectors_kind, detectors_threshold, detectors_pc>>
    BY DEF De!Tick
  <1>2. ~De!Watches'
    BY <1>1 DEF De!Watches
  <1>3. /\ detectors_seen \in Seq(BOOLEAN) /\ w \in Activity
    BY <1>1 DEF DetectorsInv, DetectorsTyped
  <1>4. n \in Nat
    BY <1>3
  <1>5. PICK g \in BOOLEAN : /\ g = (a /\ (t \/ detectors_before))
                             /\ detectors_seen' = Append(detectors_seen, g)
                             /\ detectors_activity' = De!Sample(w, g)
    BY DEF De!Tick
  <1>6. /\ Len(detectors_seen') = n + 1 /\ detectors_seen' \in Seq(BOOLEAN)
        /\ \A k \in 1 .. n : detectors_seen'[k] = detectors_seen[k]
        /\ detectors_seen'[n + 1] = g
    BY <1>3, <1>4, <1>5, Appended
  <1>7. Busy(n + 1)' <=> g
    BY <1>5, <1>6 DEF Busy
  <1>8. g => t \/ detectors_before
    BY <1>5
  <1>9. (detectors_hand' <=> detectors_hand \/ t) /\ (detectors_before' => t)
    BY DEF De!Tick
  <1>10. /\ ~g => /\ detectors_activity'.busy = 0 /\ detectors_activity'.quiet = w.quiet + 1
                  /\ detectors_activity'.alerted <=> w.alerted /\ w.quiet + 1 < Left
         /\ g /\ w.alerted =>
              /\ detectors_activity'.busy = w.busy /\ detectors_activity'.quiet = 0
              /\ detectors_activity'.alerted
         /\ g /\ ~w.alerted /\ w.busy + 1 < detectors_threshold =>
              /\ detectors_activity'.busy = w.busy + 1 /\ detectors_activity'.quiet = 0
              /\ ~detectors_activity'.alerted
         /\ g /\ ~w.alerted /\ ~(w.busy + 1 < detectors_threshold) =>
              /\ detectors_activity'.busy = 0 /\ detectors_activity'.quiet = 0
              /\ detectors_activity'.alerted
         /\ detectors_activity' \in Activity
    BY <1>3, <1>5, SampleIs
  <1>11. \A k \in 1 .. n : Busy(k)' <=> Busy(k)
    BY <1>6 DEF Busy
  <1>12. (Latched <=> w.alerted) /\ (Latched' <=> detectors_activity'.alerted)
    BY <1>3, <1>10 DEF Latched, Activity
  <1>13. detectors_raised' = IF Latched' /\ ~Latched
                             THEN detectors_raised \cup {<<n + 1>>} ELSE detectors_raised
    <2>1. detectors_raised' = IF detectors_activity'.alerted /\ ~w.alerted
                              THEN detectors_raised \cup {<<n + 1>>} ELSE detectors_raised
      BY <1>6 DEF De!Tick
    <2>2. QED
      BY <1>12, <2>1
  <1>14. /\ \A k \in 1 .. n : <<n + 1>> # <<k>>
         /\ \A k \in 1 .. n : k \in 1 .. n + 1
         /\ n + 1 \in 1 .. n + 1
    BY <1>4
  <1>15. \A x \in detectors_raised : \E i \in 1 .. n : x = <<i>>
    BY <1>1 DEF DetectorsInv, OfThisRun
  <1>16. <<n + 1>> \notin detectors_raised
    BY <1>14, <1>15
  <1>17. /\ \A k \in 1 .. n : Alerted(k)' <=> Alerted(k)
         /\ Alerted(n + 1)' <=> Latched' /\ ~Latched
    BY <1>13, <1>14, <1>16 DEF Alerted
  <1>18. \A x \in detectors_raised' : \E i \in 1 .. n + 1 : x = <<i>>
    BY <1>13, <1>14, <1>15
  <1>19. q \in Nat /\ b \in Nat /\ q = w.quiet /\ b = w.busy
    BY <1>3 DEF Activity
  <1>. HIDE DEF w
  <1>20. /\ ~g => /\ detectors_activity'.busy = 0 /\ detectors_activity'.quiet = q + 1
                  /\ Latched' <=> Latched /\ q + 1 < Left
         /\ g /\ Latched => detectors_activity'.busy = b /\ detectors_activity'.quiet = 0 /\ Latched'
         /\ g /\ ~Latched /\ b + 1 < detectors_threshold =>
              detectors_activity'.busy = b + 1 /\ detectors_activity'.quiet = 0 /\ ~Latched'
         /\ g /\ ~Latched /\ ~(b + 1 < detectors_threshold) =>
              detectors_activity'.busy = 0 /\ detectors_activity'.quiet = 0 /\ Latched'
    BY <1>10, <1>12, <1>19
  <1>21. QED
    BY <1>1, <1>2, <1>4, <1>6, <1>7, <1>8, <1>9, <1>10, <1>11, <1>17, <1>18, <1>19, <1>20


LEMMA LastOrBefore ==
  ASSUME NEW n \in Nat, NEW q \in Nat, q <= n, NEW k \in Int, n - q + 1 <= k, k <= n + 1
  PROVE  k = n + 1 \/ (k \in n - q + 1 .. n /\ k \in 1 .. n)
  <1>1. CASE k = n + 1
    BY <1>1
  <1>2. CASE k # n + 1
    <2>1. k <= n /\ 1 <= k
      BY <1>2
    <2>2. QED
      BY <2>1
  <1>3. QED
    BY <1>1, <1>2

\* The counts go on counting what is at the end of the run.
LEMMA QuietsStep ==
  ASSUME NEW n \in Nat, NEW q \in Nat, NEW r \in Nat, QuietsCounted(n, q),
         \A k \in 1 .. n : Busy(k)' <=> Busy(k),
         r = IF Busy(n + 1)' THEN 0 ELSE q + 1
  PROVE  QuietsCounted(n + 1, r)'
  <1>1. /\ q <= n /\ \A k \in n - q + 1 .. n : ~Busy(k)
        /\ q < n => Busy(n - q)
    BY DEF QuietsCounted
  <1>2. CASE Busy(n + 1)'
    <2>1. r = 0
      BY <1>2
    <2>2. n + 1 - r = n + 1 /\ \A k \in n + 1 - r + 1 .. n + 1 : FALSE
      BY <2>1
    <2>3. QED
      BY <1>2, <2>1, <2>2 DEF QuietsCounted
  <1>3. CASE ~Busy(n + 1)'
    <2>1. r = q + 1 /\ n + 1 - r = n - q /\ r <= n + 1
      BY <1>1, <1>3
    <2>2. ASSUME NEW k \in n + 1 - r + 1 .. n + 1 PROVE ~Busy(k)'
      <3>1. k \in Int /\ n - q + 1 <= k /\ k <= n + 1
        BY <2>1
      <3>2. k = n + 1 \/ (k \in n - q + 1 .. n /\ k \in 1 .. n)
        BY <1>1, <3>1, LastOrBefore
      <3>3. QED
        BY <1>1, <1>3, <3>2
    <2>3. ASSUME r < n + 1 PROVE Busy(n + 1 - r)'
      <3>1. q < n /\ n - q \in 1 .. n
        BY <2>1, <2>3
      <3>2. Busy(n - q)'
        BY <1>1, <3>1
      <3>3. QED
        BY <2>1, <3>2
    <2>4. QED
      BY <2>1, <2>2, <2>3 DEF QuietsCounted
  <1>4. QED
    BY <1>2, <1>3

LEMMA BusyStep ==
  ASSUME NEW n \in Nat, NEW b \in Nat, NEW c \in Nat, detectors_threshold \in Nat \ {0},
         detectors_threshold' = detectors_threshold,
         \A k \in 1 .. n : Busy(k)' <=> Busy(k),
         \/ ~Busy(n + 1)' /\ c = 0
         \/ /\ Busy(n + 1)' /\ BusyCounted(n, b)
            /\ c = b + 1 /\ b + 1 < detectors_threshold
  PROVE  BusyCounted(n + 1, c)'
  <1>1. CASE ~Busy(n + 1)' /\ c = 0
    <2>1. /\ c <= n + 1 /\ c < detectors_threshold /\ n + 1 - c = n + 1
          /\ \A k \in n + 1 - c + 1 .. n + 1 : FALSE
      BY <1>1
    <2>2. QED
      BY <1>1, <2>1 DEF BusyCounted
  <1>2. CASE /\ Busy(n + 1)' /\ BusyCounted(n, b)
             /\ c = b + 1 /\ b + 1 < detectors_threshold
    <2>1. /\ b <= n /\ \A k \in n - b + 1 .. n : Busy(k)
          /\ b < n => ~Busy(n - b)
      BY <1>2 DEF BusyCounted
    <2>2. c <= n + 1 /\ c < detectors_threshold /\ n + 1 - c = n - b
      BY <1>2, <2>1
    <2>3. ASSUME NEW k \in n + 1 - c + 1 .. n + 1 PROVE Busy(k)'
      <3>1. k \in Int /\ n - b + 1 <= k /\ k <= n + 1
        BY <2>2
      <3>2. k = n + 1 \/ (k \in n - b + 1 .. n /\ k \in 1 .. n)
        BY <2>1, <3>1, LastOrBefore
      <3>3. QED
        BY <1>2, <2>1, <3>2
    <2>4. ASSUME c < n + 1 PROVE ~Busy(n + 1 - c)'
      <3>1. b < n /\ n - b \in 1 .. n
        BY <1>2, <2>4
      <3>2. ~Busy(n - b)'
        BY <2>1, <3>1
      <3>3. QED
        BY <2>2, <3>2
    <2>5. QED
      BY <2>2, <2>3, <2>4 DEF BusyCounted
  <1>3. QED
    BY <1>1, <1>2

LEMMA CountsStep ==
  ASSUME DetectorsInv, NEW t \in BOOLEAN, NEW a \in BOOLEAN, De!Tick(t, a)
  PROVE  CountsAreRuns'
  <1>1. PICK n, q, b : /\ n = Len(detectors_seen)
                       /\ q = detectors_activity.quiet /\ b = detectors_activity.busy
    OBVIOUS
  <1>2. PICK r, c : r = detectors_activity'.quiet /\ c = detectors_activity'.busy
    OBVIOUS
  <1>3. /\ n \in Nat /\ q \in Nat /\ b \in Nat /\ r \in Nat /\ c \in Nat
        /\ ~De!Watches /\ Len(detectors_seen') = n + 1
        /\ detectors_threshold \in Nat \ {0} /\ detectors_threshold' = detectors_threshold
    <2>1. detectors_activity' \in Activity
      BY <1>1, TickFacts
    <2>2. r \in Nat /\ c \in Nat
      BY <1>2, <2>1 DEF Activity
    <2>3. QED
      BY <1>1, <2>2, TickFacts DEF DetectorsInv, DetectorsTyped
  <1>4. \A k \in 1 .. n : Busy(k)' <=> Busy(k)
    BY <1>1, TickFacts
  <1>5. /\ QuietsCounted(n, q) /\ (Latched => b = 0) /\ (~Latched => BusyCounted(n, b))
    BY <1>1, <1>3 DEF DetectorsInv, CountsAreRuns
  <1>6. QuietsCounted(n + 1, r)'
    <2>1. r = IF Busy(n + 1)' THEN 0 ELSE q + 1
      BY <1>1, <1>2, TickFacts
    <2>2. QED
      BY <1>3, <1>4, <1>5, <2>1, QuietsStep
  <1>7. Latched' => c = 0
    BY <1>1, <1>2, <1>5, TickFacts
  <1>8. ASSUME ~Latched' PROVE BusyCounted(n + 1, c)'
    <2>1. \/ ~Busy(n + 1)' /\ c = 0
          \/ Busy(n + 1)' /\ ~Latched /\ c = b + 1 /\ b + 1 < detectors_threshold
      BY <1>1, <1>2, <1>8, TickFacts
    <2>2. QED
      BY <1>3, <1>4, <1>5, <2>1, BusyStep
  <1>9. QED
    BY <1>2, <1>3, <1>6, <1>7, <1>8 DEF CountsAreRuns

\* A stretch that was left alone is there for all that comes after.
LEMMA AloneStays ==
  ASSUME Left \in Nat \ {0}, NEW n \in Nat, \A k \in 1 .. n : Busy(k)' <=> Busy(k),
         NEW j \in Nat, NEW i \in 1 .. n + 1
  PROVE  LeftAlone(j, i)' <=> LeftAlone(j, i)
  <1>1. ASSUME NEW k \in j + 1 .. i - Left, NEW m \in k .. k + Left - 1
        PROVE  Busy(m)' <=> Busy(m)
    <2>1. m \in 1 .. n
      OBVIOUS
    <2>2. QED
      BY <2>1
  <1>2. QED
    BY <1>1 DEF LeftAlone

\* A reading that is latched was followed by no `Left` quiet ones, and goes on so while the
\* watch is alerted.
LEMMA StaysLatched ==
  ASSUME Left \in Nat \ {0}, NEW n \in Nat, NEW q \in Nat, QuietsCounted(n, q),
         \A k \in 1 .. n : Busy(k)' <=> Busy(k),
         NEW j \in 1 .. n, Busy(j), ~LeftAlone(j, n + 1), Busy(n + 1)' \/ q + 1 < Left
  PROVE  ~LeftAlone(j, n + 2)'
  <1>1. SUFFICES ASSUME NEW k \in j + 1 .. n + 2 - Left
                 PROVE  \E m \in k .. k + Left - 1 : Busy(m)'
    BY DEF LeftAlone
  <1>2. CASE k \in j + 1 .. n + 1 - Left
    <2>1. ~LeftAlone(j, n + 1)'
      <3>1. n + 1 \in 1 .. n + 1
        OBVIOUS
      <3>2. QED
        BY <3>1, AloneStays
    <2>2. QED
      BY <1>2, <2>1 DEF LeftAlone
  <1>3. CASE k = n + 2 - Left
    <2>1. k + Left - 1 = n + 1 /\ k <= n + 1 /\ j < k
      BY <1>3
    <2>2. CASE Busy(n + 1)'
      <3>1. n + 1 \in k .. k + Left - 1
        BY <2>1
      <3>2. QED
        BY <2>2, <3>1
    <2>3. CASE q + 1 < Left
      <3>1. q <= n /\ (\A m \in n - q + 1 .. n : ~Busy(m)) /\ (q < n => Busy(n - q))
        BY DEF QuietsCounted
      <3>2. j \notin n - q + 1 .. n
        BY <3>1
      <3>3. q < n /\ n - q \in 1 .. n /\ n - q \in k .. k + Left - 1
        BY <1>3, <2>1, <2>3, <3>1, <3>2
      <3>4. Busy(n - q)'
        BY <3>1, <3>3
      <3>5. QED
        BY <3>3, <3>4
    <2>4. QED
      BY <2>2, <2>3
  <1>4. QED
    BY <1>2, <1>3

LEMMA IsLeftAlone ==
  ASSUME Left \in Nat \ {0}, NEW n \in Nat, NEW q \in Nat, QuietsCounted(n, q),
         \A k \in 1 .. n : Busy(k)' <=> Busy(k),
         NEW j \in 1 .. n, Busy(j), ~Busy(n + 1)', q + 1 >= Left
  PROVE  LeftAlone(j, n + 2)'
  <1>1. q <= n /\ \A m \in n - q + 1 .. n : ~Busy(m)
    BY DEF QuietsCounted
  <1>2. j \notin n - q + 1 .. n
    BY <1>1
  <1>3. n + 2 - Left \in j + 1 .. n + 2 - Left
    BY <1>1, <1>2
  <1>4. ASSUME NEW m \in n + 2 - Left .. n + 2 - Left + Left - 1 PROVE ~Busy(m)'
    <2>1. m \in Int /\ n - q + 1 <= m /\ m <= n + 1
      OBVIOUS
    <2>2. m = n + 1 \/ (m \in n - q + 1 .. n /\ m \in 1 .. n)
      BY <1>1, <2>1, LastOrBefore
    <2>3. QED
      BY <1>1, <2>2
  <1>5. QED
    BY <1>3, <1>4 DEF LeftAlone

\* What a reading that raised an alert was, and the one before it.
LEMMA AlertedIsBusy ==
  ASSUME DetectorsInv, ~De!Watches, NEW i \in 1 .. Len(detectors_seen), Alerted(i)
  PROVE  /\ i >= detectors_threshold /\ Busy(i)
         /\ detectors_threshold > 1 => i - 1 \in Nat \ {0} /\ Busy(i - 1)
  <1>1. detectors_threshold \in Nat \ {0} /\ i \in Nat \ {0}
    BY DEF DetectorsInv, DetectorsTyped
  <1>2. i >= detectors_threshold /\ \A k \in i - detectors_threshold + 1 .. i : Busy(k)
    BY DEF DetectorsInv, OneAlert, Judged
  <1>3. /\ i \in i - detectors_threshold + 1 .. i
        /\ detectors_threshold > 1 => /\ i - 1 \in i - detectors_threshold + 1 .. i
                                      /\ i - 1 \in Nat \ {0}
    BY <1>1, <1>2
  <1>4. QED
    BY <1>2, <1>3


LEMMA NotYetAlone == ASSUME Left \in Nat \ {0}, NEW n \in Nat PROVE ~LeftAlone(n + 1, n + 2)'
  <1>1. SUFFICES ASSUME NEW k \in n + 1 + 1 .. n + 2 - Left PROVE FALSE
    BY DEF LeftAlone
  <1>2. QED
    BY <1>1

LEMMA StillAlone ==
  ASSUME Left \in Nat \ {0}, NEW n \in Nat, NEW j \in Nat, LeftAlone(j, n + 1)'
  PROVE  LeftAlone(j, n + 2)'
  <1>1. PICK k \in j + 1 .. n + 1 - Left : \A m \in k .. k + Left - 1 : ~Busy(m)'
    BY DEF LeftAlone
  <1>2. k \in j + 1 .. n + 2 - Left
    OBVIOUS
  <1>3. QED
    BY <1>1, <1>2 DEF LeftAlone

\* The reading that is taken is judged as the ones before it were.
LEMMA OneAlertStep ==
  ASSUME De!ConstantsOK, DetectorsInv, NEW t \in BOOLEAN, NEW a \in BOOLEAN, De!Tick(t, a)
  PROVE  OneAlert' /\ AlertedIsLatched'
  <1>1. PICK n, q, b, h : /\ n = Len(detectors_seen) /\ h = detectors_threshold
                          /\ q = detectors_activity.quiet /\ b = detectors_activity.busy
    OBVIOUS
  <1>2. /\ n \in Nat /\ q \in Nat /\ b \in Nat /\ h \in Nat \ {0} /\ Left \in Nat \ {0}
        /\ ~De!Watches /\ ~De!Watches' /\ Len(detectors_seen') = n + 1
        /\ detectors_threshold = h /\ detectors_threshold' = h
    BY <1>1, TickFacts DEF DetectorsInv, DetectorsTyped, De!ConstantsOK
  <1>3. \A k \in 1 .. n : (Busy(k)' <=> Busy(k)) /\ (Alerted(k)' <=> Alerted(k))
    BY <1>1, TickFacts
  <1>4. /\ QuietsCounted(n, q) /\ (~Latched => BusyCounted(n, b))
        /\ \A i \in 1 .. n : Judged(i)
        /\ Latched => \E j \in 1 .. n : Alerted(j) /\ ~LeftAlone(j, n + 1)
        /\ ~Latched => \A j \in 1 .. n : Alerted(j) => LeftAlone(j, n + 1)
    BY <1>1, <1>2 DEF DetectorsInv, CountsAreRuns, OneAlert, AlertedIsLatched
  <1>5. \A j \in 1 .. n : Alerted(j) => Busy(j)
    BY <1>1, <1>2, AlertedIsBusy
  <1>6. Alerted(n + 1)' <=> Latched' /\ ~Latched
    BY <1>1, TickFacts
  <1>7. ASSUME NEW j \in 1 .. n, NEW i \in 1 .. n + 1
        PROVE  LeftAlone(j, i)' <=> LeftAlone(j, i)
    <2>1. j \in Nat
      OBVIOUS
    <2>2. QED
      BY <1>2, <1>3, <2>1, AloneStays
  \* The readings before this one.
  <1>8. ASSUME NEW i \in 1 .. n PROVE Judged(i)'
    <2>1. /\ \A j \in 1 .. i - 1 : j \in 1 .. n
          /\ i \in 1 .. n + 1
          /\ i >= h => \A k \in i - h + 1 .. i : k \in 1 .. n
      BY <1>2
    <2>2. \A j \in 1 .. i - 1 : /\ LeftAlone(j, i)' <=> LeftAlone(j, i)
                                /\ Alerted(j)' <=> Alerted(j)
      BY <1>3, <1>7, <2>1
    <2>3. i >= h => \A k \in i - h + 1 .. i : Busy(k)' <=> Busy(k)
      BY <1>3, <2>1
    <2>4. Judged(i)
      BY <1>4
    <2>5. Alerted(i)' <=> Alerted(i)
      BY <1>3
    <2>6. QED
      BY <1>2, <2>2, <2>3, <2>4, <2>5 DEF Judged
  \* This one.
  <1>9. Latched' /\ ~Latched <=>
          /\ n + 1 >= h /\ \A k \in n + 1 - h + 1 .. n + 1 : Busy(k)'
          /\ \A j \in 1 .. n : Alerted(j) => LeftAlone(j, n + 1)
    <2>1. n + 1 \in n + 1 - h + 1 .. n + 1
      BY <1>2
    <2>2. CASE ~Busy(n + 1)'
      <3>1. Latched' => Latched
        BY <1>1, <2>2, TickFacts
      <3>2. QED
        BY <2>1, <2>2, <3>1
    <2>3. CASE Latched
      BY <1>4, <2>3
    <2>4. CASE Busy(n + 1)' /\ ~Latched /\ b + 1 < h
      <3>1. ~Latched'
        BY <1>1, <2>4, TickFacts
      <3>2. ASSUME n + 1 >= h PROVE \E k \in n + 1 - h + 1 .. n + 1 : ~Busy(k)'
        <4>1. /\ n - b \in n + 1 - h + 1 .. n + 1 /\ n - b \in 1 .. n /\ b < n
          BY <1>2, <2>4, <3>2
        <4>2. ~Busy(n - b)
          BY <1>4, <2>4, <4>1 DEF BusyCounted
        <4>3. QED
          BY <1>3, <4>1, <4>2
      <3>3. QED
        BY <3>1, <3>2
    <2>5. CASE Busy(n + 1)' /\ ~Latched /\ ~(b + 1 < h)
      <3>1. Latched'
        BY <1>1, <2>5, TickFacts
      <3>2. b <= n /\ b < h /\ \A k \in n - b + 1 .. n : Busy(k)
        BY <1>2, <1>4, <2>5 DEF BusyCounted
      <3>3. h = b + 1 /\ n + 1 >= h
        BY <1>2, <2>5, <3>2
      <3>4. ASSUME NEW k \in n + 1 - h + 1 .. n + 1 PROVE Busy(k)'
        <4>1. k \in Int /\ n - b + 1 <= k /\ k <= n + 1
          BY <1>2, <3>3
        <4>2. k = n + 1 \/ (k \in n - b + 1 .. n /\ k \in 1 .. n)
          BY <1>2, <3>2, <4>1, LastOrBefore
        <4>3. QED
          BY <1>3, <2>5, <3>2, <4>2
      <3>5. QED
        BY <1>4, <2>5, <3>1, <3>3, <3>4
    <2>6. QED
      BY <2>2, <2>3, <2>4, <2>5
  <1>10. Judged(n + 1)'
    <2>1. n + 1 - 1 = n /\ n + 1 \in 1 .. n + 1
      BY <1>2
    <2>2. \A j \in 1 .. n : LeftAlone(j, n + 1)' <=> LeftAlone(j, n + 1)
      BY <1>7, <2>1
    <2>3. (\A j \in 1 .. n + 1 - 1 : Alerted(j)' => LeftAlone(j, n + 1)')
            <=> \A j \in 1 .. n : Alerted(j) => LeftAlone(j, n + 1)
      BY <1>3, <2>1, <2>2
    <2>4. QED
      BY <1>2, <1>6, <1>9, <2>3 DEF Judged
  <1>11. OneAlert'
    <2>1. \A i \in 1 .. n + 1 : i \in 1 .. n \/ i = n + 1
      BY <1>2
    <2>2. QED
      BY <1>2, <1>8, <1>10, <2>1 DEF OneAlert
  <1>12. ASSUME Latched' PROVE \E j \in 1 .. n + 1 : Alerted(j)' /\ ~LeftAlone(j, n + 2)'
    <2>1. CASE ~Latched
      <3>1. n + 1 \in 1 .. n + 1
        BY <1>2
      <3>2. ~LeftAlone(n + 1, n + 2)'
        BY <1>2, NotYetAlone
      <3>3. QED
        BY <1>6, <1>12, <2>1, <3>1, <3>2
    <2>2. CASE Latched
      <3>1. PICK j \in 1 .. n : Alerted(j) /\ ~LeftAlone(j, n + 1)
        BY <1>4, <2>2
      <3>2. Busy(n + 1)' \/ q + 1 < Left
        BY <1>1, <1>12, TickFacts
      <3>3. ~LeftAlone(j, n + 2)'
        BY <1>2, <1>3, <1>4, <1>5, <3>1, <3>2, StaysLatched
      <3>4. j \in 1 .. n + 1
        BY <1>2
      <3>5. QED
        BY <1>3, <3>1, <3>3, <3>4
    <2>3. QED
      BY <2>1, <2>2
  <1>13. ASSUME ~Latched', NEW j \in 1 .. n + 1, Alerted(j)' PROVE LeftAlone(j, n + 2)'
    <2>1. j # n + 1
      BY <1>6, <1>13
    <2>2. j \in 1 .. n /\ j \in Nat
      BY <1>2, <2>1
    <2>3. Alerted(j) /\ Busy(j)
      BY <1>3, <1>5, <1>13, <2>2
    <2>4. CASE Latched
      <3>1. ~Busy(n + 1)' /\ ~(q + 1 < Left)
        BY <1>1, <1>13, <2>4, TickFacts
      <3>2. q + 1 >= Left
        BY <1>2, <3>1
      <3>3. QED
        BY <1>2, <1>3, <1>4, <2>2, <2>3, <3>1, <3>2, IsLeftAlone
    <2>5. CASE ~Latched
      <3>1. n + 1 \in 1 .. n + 1
        BY <1>2
      <3>2. LeftAlone(j, n + 1)'
        BY <1>4, <1>7, <2>2, <2>3, <2>5, <3>1
      <3>3. QED
        BY <1>2, <2>2, <3>2, StillAlone
    <2>6. QED
      BY <2>4, <2>5
  <1>14. AlertedIsLatched'
    <2>1. n + 1 + 1 = n + 2
      BY <1>2
    <2>2. QED
      BY <1>2, <1>12, <1>13, <2>1 DEF AlertedIsLatched
  <1>15. QED
    BY <1>11, <1>14

LEMMA TickKeeps ==
  ASSUME De!ConstantsOK, DetectorsInv, NEW t \in BOOLEAN, NEW a \in BOOLEAN, De!Tick(t, a)
  PROVE  DetectorsInv'
  <1>1. PICK n, q, b : /\ n = Len(detectors_seen)
                       /\ q = detectors_activity.quiet /\ b = detectors_activity.busy
    OBVIOUS
  <1>2. /\ n \in Nat /\ ~De!Watches /\ ~De!Watches' /\ Len(detectors_seen') = n + 1
        /\ detectors_pc = "watch" /\ detectors_pc' = "watch"
        /\ UNCHANGED <<detectors_kind, detectors_threshold>>
        /\ detectors_seen' \in Seq(BOOLEAN) /\ detectors_activity' \in Activity
        /\ \A x \in detectors_raised' : \E i \in 1 .. n + 1 : x = <<i>>
    BY <1>1, TickFacts
  <1>3. DetectorsTyped'
    BY <1>2 DEF DetectorsInv, DetectorsTyped
  <1>4. OfThisRun'
    BY <1>2 DEF OfThisRun
  <1>5. HasItsPrevious' /\ De!AlertsAreEdges' /\ De!DevicesAreNamed'
    <2>1. detectors_kind' \in {"ticks", "idle"}
      BY <1>2 DEF De!Watches
    <2>2. QED
      BY <1>2, <2>1 DEF HasItsPrevious, De!AlertsAreEdges, De!DevicesAreNamed
  <1>6. HandIsSeen'
    <2>1. SUFFICES ASSUME ~detectors_hand'
                   PROVE  /\ \A k \in 2 .. n + 1 : ~Busy(k)'
                          /\ ~detectors_before'
      BY <1>2 DEF HandIsSeen
    <2>2. /\ ~detectors_hand /\ ~detectors_before'
          /\ Busy(n + 1)' => detectors_before
          /\ \A k \in 1 .. n : Busy(k)' <=> Busy(k)
      BY <1>1, <2>1, TickFacts
    <2>3. /\ \A k \in 2 .. n : ~Busy(k)
          /\ detectors_seen # <<>> => ~detectors_before
      BY <1>1, <1>2, <2>2 DEF DetectorsInv, HandIsSeen
    <2>4. ASSUME NEW k \in 2 .. n + 1 PROVE ~Busy(k)'
      <3>1. CASE k \in 2 .. n
        <4>1. k \in 1 .. n
          BY <3>1
        <4>2. QED
          BY <2>2, <2>3, <3>1, <4>1
      <3>2. CASE k = n + 1
        <4>1. n # 0
          BY <1>2, <3>2
        <4>2. detectors_seen # <<>>
          BY <1>1, <4>1
        <4>3. QED
          BY <2>2, <2>3, <3>2, <4>2
      <3>3. QED
        BY <1>2, <3>1, <3>2
    <2>5. QED
      BY <2>2, <2>4
  <1>7. CountsAreRuns' /\ OneAlert' /\ AlertedIsLatched'
    BY CountsStep, OneAlertStep
  <1>8. QED
    BY <1>3, <1>4, <1>5, <1>6, <1>7 DEF DetectorsInv

LEMMA DetectorsStep == ASSUME De!ConstantsOK, DetectorsInv, [De!Next]_De!vars PROVE DetectorsInv'
  <1>0. /\ detectors_kind \in De!Kinds /\ detectors_threshold \in Nat \ {0}
        /\ detectors_pc # "watch" => Fresh
    BY DEF DetectorsInv, DetectorsTyped, OfThisRun, Fresh
  <1>1. ASSUME NEW r \in De!Readings, De!Baseline(r) PROVE DetectorsInv'
    <2>1. /\ De!Watches /\ Fresh
          /\ UNCHANGED <<detectors_kind, detectors_threshold, detectors_activity,
                         detectors_raised, detectors_hand, detectors_before>>
      BY <1>0, <1>1 DEF De!Baseline
    <2>2. De!Watches'
      BY <2>1 DEF De!Watches
    <2>3. CASE r = De!Unreadable /\ detectors_kind # "network"
      <3>1. detectors_pc' = "failed" /\ detectors_seen' = detectors_seen
        BY <1>1, <2>3 DEF De!Baseline
      <3>2. Fresh'
        BY <2>1, <3>1 DEF Fresh, De!Still
      <3>3. QED
        BY <3>2, FreshAgain
    <2>4. CASE ~(r = De!Unreadable /\ detectors_kind # "network")
      <3>1. detectors_pc' = "watch" /\ detectors_last' = r /\ detectors_seen' = <<r>>
        BY <1>1, <2>4 DEF De!Baseline
      <3>2. /\ detectors_seen' \in Seq(De!Readings) /\ Len(detectors_seen') = 1
            /\ detectors_seen'[1] = r /\ detectors_raised' = {}
        BY <2>1, <3>1 DEF Fresh
      <3>3. Good(1)'
        BY <2>1, <2>4, <3>2 DEF Good
      <3>4. IsPrevious(2, 1)'
        BY <3>3 DEF IsPrevious
      <3>5. De!Previous(2)' = r
        BY <3>2, <3>4, NextPreviousIs
      <3>6. HasItsPrevious'
        BY <3>1, <3>2, <3>4, <3>5 DEF HasItsPrevious
      <3>7. DetectorsTyped'
        <4>1. detectors_activity' \in Activity
          BY <2>1 DEF DetectorsInv, DetectorsTyped
        <4>2. QED
          BY <1>0, <2>1, <2>2, <3>1, <3>2, <4>1 DEF DetectorsTyped
      <3>8. OfThisRun'
        BY <2>2, <3>1, <3>2 DEF OfThisRun
      <3>9. CountsAreRuns' /\ OneAlert' /\ AlertedIsLatched' /\ HandIsSeen'
        BY <2>2 DEF CountsAreRuns, OneAlert, AlertedIsLatched, HandIsSeen
      <3>10. De!AlertsAreEdges' /\ De!DevicesAreNamed'
        <4>1. \A i : i \notin 2 .. 1
          OBVIOUS
        <4>2. QED
          BY <3>2, <4>1 DEF De!AlertsAreEdges, De!DevicesAreNamed
      <3>11. QED
        BY <3>6, <3>7, <3>8, <3>9, <3>10 DEF DetectorsInv
    <2>5. QED
      BY <2>3, <2>4
  <1>2. ASSUME NEW r \in De!Readings, De!Read(r) PROVE DetectorsInv'
    BY <1>2, ReadKeeps
  <1>3. CASE De!StartInput \/ De!Restart
    <2>1. CASE De!StartInput
      <3>1. /\ Fresh /\ ~De!Watches /\ detectors_pc' = "grace"
            /\ UNCHANGED <<detectors_kind, detectors_threshold, detectors_activity,
                           detectors_seen, detectors_raised, detectors_hand>>
        BY <1>0, <2>1 DEF De!StartInput
      <3>2. Fresh'
        BY <3>1 DEF Fresh, De!Still, De!Watches
      <3>3. QED
        BY <3>2, FreshAgain
    <2>2. CASE De!Restart
      <3>1. Fresh'
        BY <1>0, <2>2 DEF De!Restart, Fresh, De!Still
      <3>2. QED
        BY <3>1, FreshAgain
    <2>3. QED
      BY <1>3, <2>1, <2>2
  <1>4. ASSUME NEW t \in BOOLEAN, De!Grace(t) PROVE DetectorsInv'
    <2>1. /\ detectors_pc = "grace" /\ detectors_pc' = "watch"
          /\ UNCHANGED <<detectors_kind, detectors_threshold, detectors_activity,
                         detectors_seen, detectors_raised, detectors_hand, detectors_last>>
      BY <1>4 DEF De!Grace
    <2>2. Fresh /\ ~De!Watches /\ ~De!Watches'
      BY <1>0, <2>1 DEF DetectorsInv, DetectorsTyped, De!Watches
    <2>3. /\ detectors_seen' = <<>> /\ Len(detectors_seen') = 0 /\ detectors_raised' = {}
          /\ detectors_activity'.busy = 0 /\ detectors_activity'.quiet = 0
          /\ ~detectors_activity'.alerted /\ detectors_activity' \in Activity
      BY <2>1, <2>2 DEF Fresh, De!Still, Activity
    <2>4. DetectorsTyped' /\ OfThisRun'
      BY <1>0, <2>1, <2>2, <2>3 DEF DetectorsTyped, OfThisRun
    <2>5. HasItsPrevious' /\ De!AlertsAreEdges' /\ De!DevicesAreNamed'
      BY <2>2, <2>3 DEF De!Watches, HasItsPrevious, De!AlertsAreEdges, De!DevicesAreNamed
    <2>6. CountsAreRuns'
      BY <1>0, <2>1, <2>3 DEF CountsAreRuns, QuietsCounted, BusyCounted, Latched
    <2>7. OneAlert' /\ AlertedIsLatched' /\ HandIsSeen'
      BY <2>3 DEF OneAlert, AlertedIsLatched, HandIsSeen, Latched
    <2>8. QED
      BY <2>4, <2>5, <2>6, <2>7 DEF DetectorsInv
  <1>5. ASSUME NEW t \in BOOLEAN, NEW a \in BOOLEAN, De!Tick(t, a) PROVE DetectorsInv'
    BY <1>5, TickKeeps
  <1>6. CASE UNCHANGED De!vars
    <2>1. UNCHANGED <<detectors_kind, detectors_threshold, detectors_pc, detectors_last,
                      detectors_activity, detectors_seen, detectors_raised, detectors_hand,
                      detectors_before>>
      BY <1>6 DEF De!vars
    <2>2. DetectorsTyped' <=> DetectorsTyped
      BY <2>1 DEF DetectorsTyped, De!Watches
    <2>3. OfThisRun' <=> OfThisRun
      BY <2>1 DEF OfThisRun, De!Watches
    <2>4. HasItsPrevious' <=> HasItsPrevious
      BY <2>1 DEF HasItsPrevious, De!Watches, IsPrevious, Good, De!Previous
    <2>5. CountsAreRuns' <=> CountsAreRuns
      BY <2>1 DEF CountsAreRuns, De!Watches, QuietsCounted, BusyCounted, Busy, Latched
    <2>6. OneAlert' <=> OneAlert
      BY <2>1 DEF OneAlert, De!Watches, Judged, LeftAlone, Busy, Alerted
    <2>7. AlertedIsLatched' <=> AlertedIsLatched
      BY <2>1 DEF AlertedIsLatched, De!Watches, LeftAlone, Busy, Alerted, Latched
    <2>8. HandIsSeen' <=> HandIsSeen
      BY <2>1 DEF HandIsSeen, De!Watches, Busy
    <2>9. De!AlertsAreEdges' <=> De!AlertsAreEdges
      BY <2>1 DEF De!AlertsAreEdges, De!Previous
    <2>10. De!DevicesAreNamed' <=> De!DevicesAreNamed
      BY <2>1 DEF De!DevicesAreNamed, De!Previous
    <2>11. QED
      BY <2>2, <2>3, <2>4, <2>5, <2>6, <2>7, <2>8, <2>9, <2>10 DEF DetectorsInv
  <1>7. QED
    BY <1>1, <1>2, <1>3, <1>4, <1>5, <1>6 DEF De!Next

\* A loop's readings, its counts and its alerts are in order at every moment, for any
\* things to see, threshold and time it takes to be left alone.
THEOREM DetectorsInvariant == ASSUME De!ConstantsOK PROVE De!Spec => []DetectorsInv
  <1>1. De!Init => DetectorsInv
    BY DetectorsInit
  <1>2. DetectorsInv /\ [De!Next]_De!vars => DetectorsInv'
    BY DetectorsStep
  <1>3. QED
    BY <1>1, <1>2, PTL DEF De!Spec

\* Every detector raises an alert where there is an event, once, and nowhere else: an edge
\* between two readings that could be taken, a device by its name, a person at the machine
\* until it was left alone.  (poll.go, usb_linux.go, input_activity.go.)
THEOREM DetectorsAlertOnEvents == ASSUME De!ConstantsOK PROVE De!Spec => []De!AlertsAreEvents
  <1>1. ASSUME DetectorsInv PROVE De!AlertsAreEvents
    <2>1. De!OneAlertAPerson
      <3>1. SUFFICES ASSUME ~De!Watches PROVE De!OneAlertAPerson
        BY DEF De!OneAlertAPerson
      <3>2. PICK n, h : n = Len(detectors_seen) /\ h = detectors_threshold
        OBVIOUS
      <3>3. /\ detectors_seen \in Seq(BOOLEAN) /\ n \in Nat /\ DOMAIN detectors_seen = 1 .. n
            /\ h \in Nat \ {0} /\ Left \in Nat \ {0} /\ \A i \in 1 .. n : Judged(i)
        BY <1>1, <3>1, <3>2 DEF DetectorsInv, DetectorsTyped, OneAlert, De!ConstantsOK
      <3>4. \A k \in 1 .. n : Busy(k) <=> detectors_seen[k]
        BY <3>3 DEF Busy
      <3>5. ASSUME NEW i \in 1 .. n
            PROVE  <<i>> \in detectors_raised <=>
                     /\ i >= h /\ \A k \in i - h + 1 .. i : detectors_seen[k]
                     /\ \A j \in 1 .. i - 1 : <<j>> \in detectors_raised =>
                          \E k \in j + 1 .. i - Left : De!Quiet(k, k + Left - 1)
        <4>1. i >= h => \A k \in i - h + 1 .. i : k \in 1 .. n
          BY <3>3
        <4>2. i >= h => ((\A k \in i - h + 1 .. i : Busy(k))
                           <=> \A k \in i - h + 1 .. i : detectors_seen[k])
          BY <3>4, <4>1
        <4>3. ASSUME NEW j \in 1 .. i - 1, NEW k \in j + 1 .. i - Left
              PROVE  (\A m \in k .. k + Left - 1 : ~Busy(m)) <=> De!Quiet(k, k + Left - 1)
          <5>1. \A m \in k .. k + Left - 1 : m \in 1 .. n
            BY <3>3
          <5>2. QED
            BY <3>4, <5>1 DEF De!Quiet
        <4>4. \A j \in 1 .. i - 1 :
                LeftAlone(j, i) <=> \E k \in j + 1 .. i - Left : De!Quiet(k, k + Left - 1)
          BY <4>3 DEF LeftAlone
        <4>5. Judged(i)
          BY <3>3
        <4>6. QED
          BY <3>2, <4>2, <4>4, <4>5 DEF Judged, Alerted
      <3>6. QED
        BY <3>2, <3>3, <3>5 DEF De!OneAlertAPerson
    <2>2. De!GraceCountsOnce
      <3>1. SUFFICES ASSUME ~De!Watches, detectors_threshold > 1, detectors_raised # {},
                            ~detectors_hand
                     PROVE  FALSE
        BY DEF De!GraceCountsOnce
      <3>2. PICK i \in 1 .. Len(detectors_seen) : Alerted(i)
        BY <1>1, <3>1 DEF DetectorsInv, OfThisRun, Alerted
      <3>3. Busy(i) /\ i - 1 \in Nat \ {0}
        BY <1>1, <3>1, <3>2, AlertedIsBusy
      <3>4. i \in 2 .. Len(detectors_seen)
        BY <3>3
      <3>5. QED
        BY <1>1, <3>1, <3>3, <3>4 DEF DetectorsInv, HandIsSeen
    <2>3. QED
      BY <1>1, <2>1, <2>2 DEF DetectorsInv, De!AlertsAreEvents
  <1>2. QED
    BY <1>1, DetectorsInvariant, PTL

-----------------------------------------------------------------------------
(***************************************************************************)
(* Screen.                                                                 *)
(***************************************************************************)
IsTerminal(t) ==
  /\ t = [f \in {"alt", "raw", "margins", "cursor", "store", "grids", "scribbled",
                 "typedOver"} |-> t[f]]
  /\ t.alt \in BOOLEAN /\ t.raw \in BOOLEAN

IsBar(b) ==
  /\ b = [f \in {"line", "keys", "handedBack", "layout", "panicked"} |-> b[f]]
  /\ b.line \in BOOLEAN /\ b.keys \in BOOLEAN /\ b.handedBack \in BOOLEAN
  /\ b.line => b.keys /\ ~b.handedBack

Answerers == [pc : {"idle", "asked", "stopping", "stopped", "resumed", "entered"},
              taken : BOOLEAN]
Endings == [at : {"running", "restored", "handed back", "cancelled", "over"},
            suspending : BOOLEAN]

ScreenTyped ==
  /\ screen_window \in Windows /\ screen_code \in ScreenCodes
  /\ screen_taken \in BOOLEAN /\ screen_settling \in BOOLEAN
  /\ screen_suspend \in Answerers /\ screen_ending \in Endings
  /\ screen_events \in 0 .. ScreenEvents
  /\ IsTerminal(screen_tty) /\ IsBar(screen_bar)

\* What is to be seen of the layout b has: no grid but its own; and no line was written
\* where something is typed, nor will be, since the place that is stored is the log's.
Shows(t, b) ==
  /\ t.grids \subseteq {Sc!GridPlace(b.layout)} /\ ~t.typedOver
  /\ b.line => t.store = Sc!LogEnd(b.layout)

InPlace(t, b) == t.cursor = IF b.line THEN Sc!InputRow(b.layout) ELSE Sc!LogEnd(b.layout)

\* The cursor of a dashboard on the screen, but while it is about to be painted again.
CursorOK ==
  screen_tty.alt /\ ~screen_bar.handedBack /\ screen_suspend.pc # "entered" =>
    InPlace(screen_tty, screen_bar)

\* The program knows whether it has the terminal.
TakenOK == screen_taken = screen_tty.alt /\ (screen_tty.raw => screen_taken)

\* An end that found nobody answering Ctrl+Z has given the terminal back, and whoever
\* answers one now has not had it, and does not take it.
EndingOK ==
  screen_ending.at # "running" /\ ~screen_ending.suspending =>
    /\ ~screen_taken /\ screen_suspend.pc \notin {"resumed", "entered"}
    /\ screen_suspend.pc # "idle" => ~screen_suspend.taken

ScreenInv ==
  /\ ScreenTyped /\ Shows(screen_tty, screen_bar) /\ CursorOK /\ TakenOK /\ EndingOK

\* u is t with something drawn on it.
DrawnOn(u, t) == IsTerminal(u) /\ u.alt = t.alt /\ u.raw = t.raw

LEMMA Scribbled ==
  ASSUME NEW t, IsTerminal(t)
  PROVE  /\ DrawnOn(Sc!Scribble(t), t) /\ Sc!Scribble(t).store = t.store
         /\ Sc!Scribble(t).grids = t.grids /\ Sc!Scribble(t).typedOver = t.typedOver
         /\ Sc!Scribble(t).cursor = t.cursor
  BY DEF Sc!Scribble, DrawnOn, IsTerminal

LEMMA GridDrawn ==
  ASSUME NEW t, IsTerminal(t), NEW l
  PROVE  /\ DrawnOn(Sc!DrawGrid(t, l), t) /\ Sc!DrawGrid(t, l).store = t.store
         /\ Sc!DrawGrid(t, l).grids \subseteq t.grids \cup {Sc!GridPlace(l)}
         /\ Sc!DrawGrid(t, l).typedOver = t.typedOver
  <1> DEFINE s == Sc!Scribble(t)
             g == IF t.alt THEN s.grids \cup {Sc!GridPlace(l)} ELSE s.grids
  <1>1. Sc!DrawGrid(t, l) = [[s EXCEPT !.grids = g] EXCEPT !.cursor = <<"grid", 0>>]
    BY DEF Sc!DrawGrid
  <1>2. IsTerminal(s) /\ s.alt = t.alt /\ s.raw = t.raw /\ s.store = t.store
        /\ s.grids = t.grids /\ s.typedOver = t.typedOver
    BY Scribbled DEF DrawnOn
  <1> HIDE DEF s
  <1>3. g \subseteq t.grids \cup {Sc!GridPlace(l)}
    BY <1>2
  <1> HIDE DEF g
  <1>4. QED
    BY <1>1, <1>2, <1>3 DEF IsTerminal, DrawnOn

LEMMA PromptDrawn ==
  ASSUME NEW t, IsTerminal(t), NEW l, NEW line \in BOOLEAN
  PROVE  LET u == Sc!DrawPrompt(t, l, line) IN
         /\ DrawnOn(u, t) /\ u.store = t.store /\ u.grids = t.grids
         /\ u.typedOver = t.typedOver
         /\ u.cursor = IF line THEN Sc!InputRow(l) ELSE t.cursor
         /\ ~line => u = t
  <1> DEFINE s == Sc!Scribble(t)
  <1>1. IsTerminal(s) /\ s.alt = t.alt /\ s.raw = t.raw /\ s.store = t.store
        /\ s.grids = t.grids /\ s.typedOver = t.typedOver
    BY Scribbled DEF DrawnOn
  <1>2. Sc!DrawPrompt(t, l, line) = IF line THEN [s EXCEPT !.cursor = Sc!InputRow(l)] ELSE t
    BY DEF Sc!DrawPrompt
  <1> HIDE DEF s
  <1>3. QED
    BY <1>1, <1>2 DEF IsTerminal, DrawnOn

LEMMA TypedDrawn ==
  ASSUME NEW t, IsTerminal(t), NEW l
  PROVE  LET u == Sc!DrawPrompt(t, l, TRUE) IN
         /\ DrawnOn(u, t) /\ u.store = t.store /\ u.grids = t.grids
         /\ u.typedOver = t.typedOver /\ u.cursor = Sc!InputRow(l)
  <1> DEFINE s == Sc!Scribble(t)
  <1>1. IsTerminal(s) /\ s.alt = t.alt /\ s.raw = t.raw /\ s.store = t.store
        /\ s.grids = t.grids /\ s.typedOver = t.typedOver
    BY Scribbled DEF DrawnOn
  <1>2. Sc!DrawPrompt(t, l, TRUE) = [s EXCEPT !.cursor = Sc!InputRow(l)]
    BY DEF Sc!DrawPrompt
  <1> HIDE DEF s
  <1>3. QED
    BY <1>1, <1>2 DEF IsTerminal, DrawnOn

LEMMA Painted ==
  ASSUME NEW t, IsTerminal(t), NEW l, NEW line \in BOOLEAN
  PROVE  LET u == Sc!Paint(t, l, line) IN
         /\ DrawnOn(u, t) /\ u.grids \subseteq {Sc!GridPlace(l)}
         /\ u.typedOver = t.typedOver
         /\ u.cursor = IF line THEN Sc!InputRow(l) ELSE Sc!LogEnd(l)
         /\ line => u.store = Sc!LogEnd(l)
  <1> DEFINE bare == [t EXCEPT !.grids = {}]
             g == Sc!DrawGrid(bare, l)
             drawn == [[g EXCEPT !.margins = l.logRow] EXCEPT !.cursor = Sc!LogEnd(l)]
             kept == IF line THEN [drawn EXCEPT !.store = Sc!LogEnd(l)] ELSE drawn
  <1>1. Sc!Paint(t, l, line) = Sc!DrawPrompt(kept, l, line)
    BY DEF Sc!Paint
  <1>2. IsTerminal(bare) /\ bare.alt = t.alt /\ bare.raw = t.raw /\ bare.grids = {}
        /\ bare.typedOver = t.typedOver
    BY DEF IsTerminal
  <1> HIDE DEF bare
  <1>3. IsTerminal(g) /\ g.alt = t.alt /\ g.raw = t.raw /\ g.typedOver = t.typedOver
        /\ g.grids \subseteq {Sc!GridPlace(l)}
    BY <1>2, GridDrawn DEF DrawnOn
  <1> HIDE DEF g
  <1>4. IsTerminal(drawn) /\ drawn.alt = t.alt /\ drawn.raw = t.raw
        /\ drawn.typedOver = t.typedOver /\ drawn.grids \subseteq {Sc!GridPlace(l)}
        /\ drawn.cursor = Sc!LogEnd(l)
    BY <1>3 DEF IsTerminal
  <1> HIDE DEF drawn
  <1>5. IsTerminal(kept) /\ kept.alt = t.alt /\ kept.raw = t.raw
        /\ kept.typedOver = t.typedOver /\ kept.grids \subseteq {Sc!GridPlace(l)}
        /\ kept.cursor = Sc!LogEnd(l) /\ (line => kept.store = Sc!LogEnd(l))
    BY <1>4 DEF IsTerminal
  <1> HIDE DEF kept
  <1>6. QED
    BY <1>1, <1>5, PromptDrawn DEF DrawnOn

LEMMA Logged ==
  ASSUME NEW t, IsTerminal(t), IsBar(screen_bar), Shows(t, screen_bar)
  PROVE  LET u == Sc!WriteLog(t) IN
         /\ DrawnOn(u, t) /\ Shows(u, screen_bar) /\ (~screen_bar.line => u = t)
  <1>1. CASE ~screen_bar.line
    BY <1>1 DEF Sc!WriteLog, DrawnOn
  <1>2. CASE screen_bar.line
    <2> DEFINE s == Sc!Scribble(t)
               o == s.typedOver \/ (t.alt /\ t.store[1] = "input")
    <2>1. IsTerminal(s) /\ s.alt = t.alt /\ s.raw = t.raw /\ s.store = t.store
          /\ s.grids = t.grids /\ s.typedOver = t.typedOver
      BY Scribbled DEF DrawnOn
    <2>2. Sc!WriteLog(t) = [[s EXCEPT !.typedOver = o] EXCEPT !.cursor = t.store]
      BY <1>2 DEF Sc!WriteLog
    <2> HIDE DEF s
    <2>3. t.store[1] = "log"
      BY <1>2 DEF Shows, Sc!LogEnd
    <2>4. ~o
      BY <2>1, <2>3 DEF Shows
    <2> HIDE DEF o
    <2>5. QED
      BY <1>2, <2>1, <2>2, <2>4 DEF IsTerminal, DrawnOn, Shows
  <1>3. QED
    BY <1>1, <1>2 DEF IsBar

\* What drawing leaves of a bar but its layout.
SameBar == screen_bar' = [screen_bar EXCEPT !.layout = screen_bar'.layout]

LEMMA PaintStep ==
  ASSUME NEW t, IsTerminal(t), IsBar(screen_bar), Shows(t, screen_bar), NEW c, Sc!DoPaint(t, c)
  PROVE  /\ DrawnOn(screen_tty', t) /\ Shows(screen_tty', screen_bar') /\ SameBar
         /\ IF screen_bar.handedBack THEN screen_tty' = t ELSE InPlace(screen_tty', screen_bar')
  <1>1. CASE screen_bar.handedBack
    <2>1. screen_tty' = t /\ screen_bar' = screen_bar
      BY <1>1 DEF Sc!DoPaint
    <2>2. SameBar
      BY <2>1 DEF SameBar, IsBar
    <2>3. QED
      BY <1>1, <2>1, <2>2 DEF DrawnOn
  <1>2. CASE ~screen_bar.handedBack
    <2> DEFINE want == Sc!WantedFor(screen_window, c, screen_bar.line)
    <2>1. /\ screen_tty' = Sc!Paint(t, want, screen_bar.line)
          /\ screen_bar' = [screen_bar EXCEPT !.layout = want]
      BY <1>2 DEF Sc!DoPaint
    <2> HIDE DEF want
    <2>2. screen_bar'.layout = want /\ screen_bar'.line = screen_bar.line /\ SameBar
      BY <2>1 DEF IsBar, SameBar
    <2>3. /\ DrawnOn(screen_tty', t) /\ screen_tty'.grids \subseteq {Sc!GridPlace(want)}
          /\ screen_tty'.typedOver = t.typedOver
          /\ screen_tty'.cursor = IF screen_bar.line THEN Sc!InputRow(want) ELSE Sc!LogEnd(want)
          /\ screen_bar.line => screen_tty'.store = Sc!LogEnd(want)
      BY <2>1, Painted DEF IsBar
    <2>4. QED
      BY <1>2, <2>2, <2>3 DEF Shows, InPlace
  <1>3. QED
    BY <1>1, <1>2 DEF IsBar

LEMMA RepaintStep ==
  ASSUME NEW t, IsTerminal(t), IsBar(screen_bar), Shows(t, screen_bar), NEW c,
         NEW drawn, DrawnOn(drawn, t), Shows(drawn, screen_bar), Sc!Repaint(t, drawn, c)
  PROVE  /\ DrawnOn(screen_tty', t) /\ Shows(screen_tty', screen_bar') /\ SameBar
         /\ screen_bar.handedBack => screen_tty' = t
         /\ ~screen_bar.handedBack /\ (screen_bar.line \/ InPlace(t, screen_bar)) =>
              InPlace(screen_tty', screen_bar')
  <1>1. CASE screen_bar.handedBack
    <2>1. screen_tty' = t /\ screen_bar' = screen_bar
      BY <1>1 DEF Sc!Repaint
    <2>2. SameBar
      BY <2>1 DEF SameBar, IsBar
    <2>3. QED
      BY <1>1, <2>1, <2>2 DEF DrawnOn
  <1>2. CASE ~screen_bar.handedBack /\ Sc!DoPaint(t, c)
    BY <1>2, PaintStep
  <1>3. CASE ~screen_bar.handedBack /\ Sc!DrawPiece(t, drawn)
    <2>1. screen_bar' = screen_bar
      BY <1>3 DEF Sc!DrawPiece
    <2>2. SameBar
      BY <2>1 DEF SameBar, IsBar
    <2>3. CASE screen_bar.line
      <3>1. screen_tty' = Sc!DrawPrompt(drawn, screen_bar.layout, TRUE)
        BY <1>3, <2>3 DEF Sc!DrawPiece
      <3>2. /\ DrawnOn(screen_tty', drawn) /\ screen_tty'.store = drawn.store
            /\ screen_tty'.grids = drawn.grids /\ screen_tty'.typedOver = drawn.typedOver
            /\ screen_tty'.cursor = Sc!InputRow(screen_bar.layout)
        <4>1. IsTerminal(drawn)
          BY DEF DrawnOn
        <4>2. QED
          BY <3>1, <4>1, TypedDrawn
      <3>3. QED
        BY <1>3, <2>1, <2>2, <2>3, <3>2 DEF DrawnOn, Shows, InPlace
    <2>4. CASE ~screen_bar.line
      <3>1. screen_tty' = [[drawn EXCEPT !.store = t.cursor] EXCEPT !.cursor = t.cursor]
        BY <1>3, <2>4 DEF Sc!DrawPiece
      <3>2. /\ IsTerminal(screen_tty') /\ screen_tty'.alt = drawn.alt
            /\ screen_tty'.raw = drawn.raw /\ screen_tty'.grids = drawn.grids
            /\ screen_tty'.typedOver = drawn.typedOver /\ screen_tty'.cursor = t.cursor
        BY <3>1 DEF DrawnOn, IsTerminal
      <3>3. QED
        BY <1>3, <2>1, <2>2, <2>4, <3>2 DEF DrawnOn, Shows, InPlace
    <2>5. QED
      BY <2>3, <2>4 DEF IsBar
  <1>4. QED
    BY <1>1, <1>2, <1>3 DEF Sc!Repaint

-----------------------------------------------------------------------------
LEMMA ScreenInit == Sc!ConstantsOK /\ Sc!Init => ScreenInv
  <1> SUFFICES ASSUME Sc!ConstantsOK, Sc!Init PROVE ScreenInv
    OBVIOUS
  <1>a. PICK keys \in BOOLEAN :
        LET l == Sc!WantedFor(screen_window, screen_code, keys) IN
        /\ screen_bar = [line |-> keys, keys |-> keys, handedBack |-> FALSE, layout |-> l,
                         panicked |-> FALSE]
        /\ screen_tty = Sc!Paint([alt |-> TRUE, raw |-> keys, margins |-> 0,
                         cursor |-> <<"nowhere", 0>>, store |-> <<"nowhere", 0>>, grids |-> {},
                         scribbled |-> FALSE, typedOver |-> FALSE], l, keys)
    BY DEF Sc!Init
  <1> DEFINE l == Sc!WantedFor(screen_window, screen_code, keys)
             bare == [alt |-> TRUE, raw |-> keys, margins |-> 0, cursor |-> <<"nowhere", 0>>,
                      store |-> <<"nowhere", 0>>, grids |-> {}, scribbled |-> FALSE,
                      typedOver |-> FALSE]
  <1>1. IsTerminal(bare) /\ bare.alt = TRUE /\ bare.raw = keys /\ bare.typedOver = FALSE
    BY DEF IsTerminal
  <1>2. screen_tty = Sc!Paint(bare, l, keys)
    BY <1>a
  <1>3. IsBar(screen_bar) /\ screen_bar.line = keys /\ screen_bar.layout = l
        /\ screen_bar.handedBack = FALSE
    BY <1>a DEF IsBar
  <1> HIDE DEF bare, l
  <1>4. /\ IsTerminal(screen_tty) /\ screen_tty.alt = TRUE /\ screen_tty.raw = keys
        /\ Shows(screen_tty, screen_bar) /\ InPlace(screen_tty, screen_bar)
    BY <1>1, <1>2, <1>3, Painted DEF DrawnOn, Shows, InPlace
  <1>5. /\ screen_window \in Windows /\ screen_code \in ScreenCodes
        /\ screen_taken = TRUE /\ screen_settling = FALSE
        /\ screen_suspend = [pc |-> "idle", taken |-> FALSE]
        /\ screen_ending = [at |-> "running", suspending |-> FALSE] /\ screen_events = 0
    BY DEF Sc!Init
  <1>6. ScreenTyped
    <2>1. screen_suspend \in Answerers /\ screen_ending \in Endings
      BY <1>5 DEF Answerers, Endings
    <2>2. QED
      <3>1. ScreenEvents \in Nat
        BY DEF Sc!ConstantsOK
      <3>2. screen_events \in 0 .. ScreenEvents
        BY <1>5, <3>1
      <3>3. QED
        BY <1>3, <1>4, <1>5, <2>1, <3>2 DEF ScreenTyped
  <1>7. QED
    BY <1>4, <1>5, <1>6 DEF ScreenInv, CursorOK, TakenOK, EndingOK

\* A step that draws and leaves the rest: it only has to leave the cursor in its place.
LEMMA DrawingKeeps ==
  ASSUME ScreenInv, ScreenTyped', Shows(screen_tty, screen_bar)',
         screen_tty'.alt = screen_tty.alt, screen_tty'.raw = screen_tty.raw,
         screen_bar'.handedBack = screen_bar.handedBack,
         UNCHANGED <<screen_taken, screen_suspend, screen_ending>>, CursorOK'
  PROVE  ScreenInv'
  BY DEF ScreenInv, TakenOK, EndingOK

LEMMA DrawnIsTyped ==
  ASSUME ScreenInv, DrawnOn(screen_tty', screen_tty), SameBar
  PROVE  /\ IsTerminal(screen_tty)' /\ IsBar(screen_bar)'
         /\ screen_tty'.alt = screen_tty.alt /\ screen_tty'.raw = screen_tty.raw
         /\ screen_bar'.handedBack = screen_bar.handedBack /\ screen_bar'.line = screen_bar.line
  BY DEF ScreenInv, ScreenTyped, DrawnOn, SameBar, IsBar, IsTerminal

LEMMA GridShown ==
  ASSUME NEW t, IsTerminal(t), Shows(t, screen_bar)
  PROVE  LET g == Sc!DrawGrid(t, screen_bar.layout) IN DrawnOn(g, t) /\ Shows(g, screen_bar)
  <1> DEFINE g == Sc!DrawGrid(t, screen_bar.layout)
  <1>1. /\ DrawnOn(g, t) /\ g.store = t.store /\ g.typedOver = t.typedOver
        /\ g.grids \subseteq t.grids \cup {Sc!GridPlace(screen_bar.layout)}
    BY GridDrawn
  <1> HIDE DEF g
  <1>2. Shows(g, screen_bar)
    BY <1>1 DEF Shows
  <1>3. QED
    BY <1>1, <1>2 DEF g

LEMMA EndsAre ==
  ASSUME NEW b \in BOOLEAN
  PROVE  /\ [at |-> "restored", suspending |-> b] \in Endings
         /\ [at |-> "over", suspending |-> b] \in Endings
  BY DEF Endings

LEMMA ScreenStep == Sc!ConstantsOK /\ ScreenInv /\ [Sc!Next]_(Sc!vars) => ScreenInv'
  <1> SUFFICES ASSUME Sc!ConstantsOK, ScreenInv, [Sc!Next]_(Sc!vars) PROVE ScreenInv'
    OBVIOUS
  <1> USE DEF Sc!ConstantsOK
  <1>0. /\ IsTerminal(screen_tty) /\ IsBar(screen_bar) /\ Shows(screen_tty, screen_bar)
        /\ screen_suspend \in Answerers /\ screen_ending \in Endings
    BY DEF ScreenInv, ScreenTyped
  <1>1. CASE Sc!Refresh
    <2> DEFINE drawn == Sc!DrawGrid(screen_tty, screen_bar.layout)
    <2>1. DrawnOn(drawn, screen_tty) /\ Shows(drawn, screen_bar)
      BY <1>0, GridShown
    <2>2. Sc!Repaint(screen_tty, drawn, screen_code)
          /\ UNCHANGED <<screen_window, screen_code, screen_taken, screen_settling,
                         screen_suspend, screen_ending, screen_events>>
      BY <1>1 DEF Sc!Refresh
    <2> HIDE DEF drawn
    <2>3. QED
      BY <1>0, <2>1, <2>2, RepaintStep, DrawnIsTyped, DrawingKeeps
         DEF ScreenInv, CursorOK, ScreenTyped
  <1>2. CASE Sc!WriteLine
    <2> DEFINE logged == Sc!WriteLog(screen_tty)
               drawn == Sc!DrawGrid(logged, screen_bar.layout)
    <2>1. DrawnOn(logged, screen_tty) /\ Shows(logged, screen_bar)
          /\ (~screen_bar.line => logged = screen_tty)
      BY <1>0, Logged
    <2>2. Sc!Repaint(logged, drawn, screen_code)
          /\ UNCHANGED <<screen_window, screen_code, screen_taken, screen_settling,
                         screen_suspend, screen_ending, screen_events>>
      BY <1>2 DEF Sc!WriteLine
    <2> HIDE DEF logged
    <2>3. DrawnOn(drawn, logged) /\ Shows(drawn, screen_bar) /\ IsTerminal(logged)
      BY <2>1, GridShown DEF DrawnOn
    <2> HIDE DEF drawn
    <2>4. /\ DrawnOn(screen_tty', logged) /\ Shows(screen_tty', screen_bar') /\ SameBar
          /\ screen_bar.handedBack => screen_tty' = logged
          /\ ~screen_bar.handedBack /\ (screen_bar.line \/ InPlace(logged, screen_bar)) =>
               InPlace(screen_tty', screen_bar')
      BY <1>0, <2>1, <2>2, <2>3, RepaintStep
    <2>5. DrawnOn(screen_tty', screen_tty)
      BY <2>1, <2>4 DEF DrawnOn
    <2>6. QED
      BY <1>0, <2>1, <2>2, <2>4, <2>5, DrawnIsTyped, DrawingKeeps
         DEF ScreenInv, CursorOK, ScreenTyped
  <1>3. CASE Sc!ShowQR
    <2> DEFINE drawn == Sc!Scribble(screen_tty)
    <2>1. DrawnOn(drawn, screen_tty) /\ Shows(drawn, screen_bar)
      BY <1>0, Scribbled DEF Shows
    <2>2. PICK c \in ScreenCodes : screen_code' = c /\ Sc!Repaint(screen_tty, drawn, c)
      BY <1>3 DEF Sc!ShowQR
    <2>3. /\ UNCHANGED <<screen_window, screen_taken, screen_settling, screen_suspend,
                         screen_ending>>
          /\ screen_events' = screen_events + 1 /\ screen_events < ScreenEvents
      BY <1>3 DEF Sc!ShowQR
    <2> HIDE DEF drawn
    <2>4. /\ DrawnOn(screen_tty', screen_tty) /\ Shows(screen_tty', screen_bar') /\ SameBar
          /\ ~screen_bar.handedBack /\ (screen_bar.line \/ InPlace(screen_tty, screen_bar)) =>
               InPlace(screen_tty', screen_bar')
      BY <1>0, <2>1, <2>2, RepaintStep
    <2>5. ScreenTyped'
      BY <2>2, <2>3, <2>4, DrawnIsTyped DEF ScreenInv, ScreenTyped
    <2>6. QED
      BY <1>0, <2>3, <2>4, <2>5, DrawnIsTyped, DrawingKeeps DEF ScreenInv, CursorOK
  <1>4. CASE Sc!ApplyKey
    <2>1. /\ screen_tty' = Sc!DrawPrompt(screen_tty, screen_bar.layout, screen_bar.line)
          /\ screen_bar' = [screen_bar EXCEPT !.panicked = screen_bar.panicked \/ ~screen_bar.line]
          /\ UNCHANGED <<screen_window, screen_code, screen_taken, screen_settling,
                         screen_suspend, screen_ending, screen_events>>
      BY <1>4 DEF Sc!ApplyKey
    <2>2. /\ DrawnOn(screen_tty', screen_tty) /\ screen_tty'.store = screen_tty.store
          /\ screen_tty'.grids = screen_tty.grids /\ screen_tty'.typedOver = screen_tty.typedOver
          /\ screen_tty'.cursor = IF screen_bar.line THEN Sc!InputRow(screen_bar.layout)
                                  ELSE screen_tty.cursor
      BY <1>0, <2>1, PromptDrawn DEF IsBar
    <2>3. /\ IsBar(screen_bar') /\ screen_bar'.line = screen_bar.line
          /\ screen_bar'.layout = screen_bar.layout
          /\ screen_bar'.handedBack = screen_bar.handedBack
      BY <1>0, <2>1 DEF IsBar
    <2>4. ScreenTyped'
      BY <2>1, <2>2, <2>3 DEF ScreenInv, ScreenTyped, DrawnOn
    <2>5. QED
      BY <1>0, <2>1, <2>2, <2>3, <2>4, DrawingKeeps
         DEF ScreenInv, CursorOK, InPlace, Shows, DrawnOn
  <1>5. CASE Sc!Resize
    <2>1. (screen_settling \/ screen_ending.at = "running") \in BOOLEAN
      OBVIOUS
    <2>2. QED
      BY <1>0, <1>5, <2>1
         DEF Sc!Resize, ScreenInv, ScreenTyped, Shows, CursorOK, InPlace, TakenOK, EndingOK
  <1>6. CASE Sc!Settle
    <2>1. /\ Sc!DoPaint(screen_tty, screen_code) /\ screen_settling' = FALSE
          /\ UNCHANGED <<screen_window, screen_code, screen_taken, screen_suspend,
                         screen_ending, screen_events>>
      BY <1>6 DEF Sc!Settle
    <2>2. QED
      BY <1>0, <2>1, PaintStep, DrawnIsTyped, DrawingKeeps DEF ScreenInv, CursorOK, ScreenTyped
  <1>7. CASE Sc!SuspendAsked
    <2>1. /\ screen_suspend.pc = "idle" /\ screen_suspend' = [pc |-> "asked", taken |-> screen_taken]
          /\ screen_events < ScreenEvents /\ screen_events' = screen_events + 1
          /\ UNCHANGED <<screen_tty, screen_window, screen_code, screen_taken, screen_bar,
                         screen_settling, screen_ending>>
      BY <1>7 DEF Sc!SuspendAsked
    <2>2. screen_suspend' \in Answerers
      BY <2>1 DEF Answerers, ScreenInv, ScreenTyped
    <2>3. QED
      BY <1>0, <2>1, <2>2
         DEF ScreenInv, ScreenTyped, Shows, CursorOK, InPlace, TakenOK, EndingOK
  <1>8. CASE Sc!Stop
    BY <1>0, <1>8 DEF Sc!Stop, ScreenInv, ScreenTyped, CursorOK, TakenOK, EndingOK, Answerers
  <1>9. CASE Sc!Foreground
    BY <1>0, <1>9 DEF Sc!Foreground, ScreenInv, ScreenTyped, CursorOK, TakenOK, EndingOK, Answerers
  <1>10. CASE Sc!Restore /\ UNCHANGED <<screen_window, screen_code, screen_bar, screen_events>>
              /\ UNCHANGED screen_settling /\ screen_suspend' \in Answerers
              /\ screen_ending' \in Endings /\ (EndingOK' \/ screen_ending'.suspending)
    <2>1. screen_taken' = FALSE
          /\ screen_tty' = IF screen_taken THEN [Sc!LeaveAlt(screen_tty) EXCEPT !.raw = FALSE]
                           ELSE screen_tty
      BY <1>10 DEF Sc!Restore
    <2>2. /\ IsTerminal(screen_tty') /\ screen_tty'.alt = FALSE /\ screen_tty'.raw = FALSE
          /\ Shows(screen_tty', screen_bar)
      <3> DEFINE left == Sc!LeaveAlt(screen_tty)
      <3>1. /\ IsTerminal(left) /\ left.alt = FALSE /\ left.grids = {}
            /\ left.typedOver = screen_tty.typedOver /\ left.store = screen_tty.store
        BY <1>0 DEF Sc!LeaveAlt, IsTerminal
      <3>2. screen_tty' = IF screen_taken THEN [left EXCEPT !.raw = FALSE] ELSE screen_tty
        BY <2>1
      <3> HIDE DEF left
      <3>3. QED
        BY <1>0, <3>1, <3>2 DEF IsTerminal, Shows, ScreenInv, ScreenTyped, TakenOK
    <2>3. QED
      BY <1>10, <2>1, <2>2 DEF ScreenInv, ScreenTyped, CursorOK, TakenOK, EndingOK
  <1>11. CASE Sc!SuspendRestores
    <2>1. screen_suspend' \in Answerers /\ screen_ending' \in Endings
      BY <1>0, <1>11 DEF Sc!SuspendRestores, Answerers
    <2>2. EndingOK'
      BY <1>0, <1>11 DEF Sc!SuspendRestores, Sc!Restore, ScreenInv, EndingOK, Answerers
    <2>3. QED
      BY <1>10, <1>11, <2>1, <2>2 DEF Sc!SuspendRestores
  <1>12. CASE Sc!ShutdownRestores \/ Sc!Fatal
    <2>a. /\ screen_suspend' = screen_suspend /\ screen_taken' = FALSE
          /\ \E at \in {"restored", "over"} :
               screen_ending' = [at |-> at, suspending |-> screen_suspend.pc # "idle"]
      BY <1>12 DEF Sc!ShutdownRestores, Sc!Fatal, Sc!Restore
    <2>1. screen_suspend' \in Answerers /\ screen_ending' \in Endings
      <3> DEFINE b == screen_suspend.pc # "idle"
      <3>1. b \in BOOLEAN
        OBVIOUS
      <3>2. \E at \in {"restored", "over"} : screen_ending' = [at |-> at, suspending |-> b]
        BY <2>a
      <3> HIDE DEF b
      <3>3. screen_ending' \in Endings
        BY <3>1, <3>2, EndsAre
      <3>4. QED
        BY <1>0, <2>a, <3>3
    <2>2. EndingOK' \/ screen_ending'.suspending
      <3>1. CASE screen_suspend.pc = "idle"
        BY <2>a, <3>1 DEF EndingOK
      <3>2. CASE screen_suspend.pc # "idle"
        <4> DEFINE b == screen_suspend.pc # "idle"
        <4>1. b = TRUE
          BY <3>2
        <4>2. \E at \in {"restored", "over"} : screen_ending' = [at |-> at, suspending |-> b]
          BY <2>a
        <4> HIDE DEF b
        <4>3. QED
          BY <4>1, <4>2
      <3>3. QED
        BY <3>1, <3>2
    <2>3. QED
      BY <1>10, <1>12, <2>1, <2>2 DEF Sc!ShutdownRestores, Sc!Fatal
  <1>13. CASE Sc!Close
    <2>1. screen_suspend' \in Answerers /\ screen_ending' \in Endings
      BY <1>0, <1>13 DEF Sc!Close, Endings
    <2>2. EndingOK'
      BY <1>0, <1>13 DEF Sc!Close, Sc!Restore, ScreenInv, EndingOK, Answerers, Endings
    <2>3. QED
      BY <1>10, <1>13, <2>1, <2>2 DEF Sc!Close
  <1>14. CASE Sc!SuspendEnters
    <2>1. /\ screen_suspend.pc = "resumed" /\ screen_taken' = TRUE
          /\ screen_tty' = IF screen_taken THEN screen_tty
                           ELSE [Sc!EnterAlt(screen_tty) EXCEPT !.raw = screen_bar.keys]
          /\ screen_suspend' = [screen_suspend EXCEPT !.pc = "entered"]
          /\ UNCHANGED <<screen_window, screen_code, screen_bar, screen_settling,
                         screen_ending, screen_events>>
      BY <1>14 DEF Sc!SuspendEnters, Sc!Enter
    <2>2. /\ IsTerminal(screen_tty') /\ screen_tty'.alt = TRUE
          /\ Shows(screen_tty', screen_bar)
      <3> DEFINE on == Sc!EnterAlt(screen_tty)
      <3>1. /\ IsTerminal(on) /\ on.alt = TRUE /\ on.grids = {}
            /\ on.typedOver = screen_tty.typedOver /\ on.store = screen_tty.store
        BY <1>0 DEF Sc!EnterAlt, IsTerminal
      <3>2. screen_tty' = IF screen_taken THEN screen_tty ELSE [on EXCEPT !.raw = screen_bar.keys]
        BY <2>1
      <3> HIDE DEF on
      <3>3. QED
        BY <1>0, <3>1, <3>2 DEF IsTerminal, IsBar, Shows, ScreenInv, ScreenTyped, TakenOK
    <2>3. screen_suspend' \in Answerers /\ screen_suspend'.pc = "entered"
      BY <1>0, <2>1 DEF Answerers
    <2>4. screen_ending.at # "running" => screen_ending.suspending
      BY <1>0, <2>1 DEF ScreenInv, EndingOK, Endings
    <2>5. QED
      BY <2>1, <2>2, <2>3, <2>4 DEF ScreenInv, ScreenTyped, CursorOK, TakenOK, EndingOK
  <1>15. CASE Sc!SuspendRepaints
    <2>1. /\ Sc!DoPaint(screen_tty, screen_code)
          /\ screen_suspend' = [pc |-> "idle", taken |-> FALSE]
          /\ UNCHANGED <<screen_window, screen_code, screen_taken, screen_settling,
                         screen_ending, screen_events>>
      BY <1>15 DEF Sc!SuspendRepaints
    <2>2. screen_suspend' \in Answerers /\ screen_suspend'.pc = "idle"
      BY <2>1 DEF Answerers
    <2>3. /\ DrawnOn(screen_tty', screen_tty) /\ Shows(screen_tty', screen_bar') /\ SameBar
          /\ IF screen_bar.handedBack THEN screen_tty' = screen_tty
             ELSE InPlace(screen_tty', screen_bar')
      BY <1>0, <2>1, PaintStep
    <2>4. /\ IsTerminal(screen_tty') /\ IsBar(screen_bar')
          /\ screen_tty'.alt = screen_tty.alt /\ screen_tty'.raw = screen_tty.raw
          /\ screen_bar'.handedBack = screen_bar.handedBack
      BY <2>3, DrawnIsTyped
    <2>5. QED
      BY <2>1, <2>2, <2>3, <2>4 DEF ScreenInv, ScreenTyped, CursorOK, TakenOK, EndingOK
  <1>16. CASE Sc!HandBack
    <2>1. /\ screen_bar' = [[screen_bar EXCEPT !.handedBack = TRUE] EXCEPT !.line = FALSE]
          /\ screen_ending.at = "restored"
          /\ screen_ending' = [screen_ending EXCEPT !.at = "handed back"]
          /\ UNCHANGED <<screen_tty, screen_window, screen_code, screen_taken, screen_settling,
                         screen_suspend, screen_events>>
      BY <1>16 DEF Sc!HandBack
    <2>2. /\ IsBar(screen_bar') /\ screen_bar'.handedBack = TRUE /\ screen_bar'.line = FALSE
          /\ screen_bar'.layout = screen_bar.layout
      BY <1>0, <2>1 DEF IsBar
    <2>3. screen_ending' \in Endings /\ screen_ending'.suspending = screen_ending.suspending
      BY <1>0, <2>1 DEF Endings
    <2>4. QED
      BY <1>0, <2>1, <2>2, <2>3 DEF ScreenInv, ScreenTyped, Shows, CursorOK, TakenOK, EndingOK
  <1>17. CASE Sc!Cancel \/ Sc!Exit
    <2>1. screen_ending' \in Endings /\ screen_ending'.suspending = screen_ending.suspending
          /\ screen_ending.at # "running"
      BY <1>0, <1>17 DEF Sc!Cancel, Sc!Exit, Endings
    <2>2. QED
      BY <1>0, <1>17, <2>1 DEF Sc!Cancel, Sc!Exit, ScreenInv, ScreenTyped, CursorOK, TakenOK, EndingOK
  <1>18. CASE UNCHANGED Sc!vars
    BY <1>18 DEF Sc!vars, ScreenInv, ScreenTyped, Shows, CursorOK, InPlace, TakenOK, EndingOK
  <1>19. QED
    BY <1>1, <1>2, <1>3, <1>4, <1>5, <1>6, <1>7, <1>8, <1>9, <1>11, <1>12, <1>13, <1>14, <1>15,
       <1>16, <1>17, <1>18 DEF Sc!Next

LEMMA SameCount == \A S : Sc!Cardinality(S) = Cardinality(S)
  BY DEF Sc!Cardinality, Cardinality

\* A set of at most one place has at most one member to count.
LEMMA AtMostOne ==
  ASSUME NEW S, NEW e, S \subseteq {e}
  PROVE  Sc!Cardinality(S) <= 1
  <1>1. S = {} \/ S = {e}
    OBVIOUS
  <1>2. QED
    <2>1. Cardinality({}) = 0 /\ Cardinality({e}) = 1
      BY FS_EmptySet, FS_Singleton
    <2>2. QED
      BY <1>1, <2>1, SameCount

LEMMA ScreenIsKept == ScreenInv => Sc!TerminalIsKept /\ Sc!TypeOK
  <1> SUFFICES ASSUME ScreenInv PROVE Sc!TerminalIsKept /\ Sc!TypeOK
    OBVIOUS
  <1>1. Sc!OneGrid
    <2>1. screen_tty.grids \subseteq {Sc!GridPlace(screen_bar.layout)}
      BY DEF ScreenInv, Shows
    <2>2. Sc!Cardinality(screen_tty.grids) <= 1
      BY <2>1, AtMostOne
    <2>3. QED
      BY <2>2 DEF Sc!OneGrid
  <1>2. Sc!TypingIsUndisturbed
    BY DEF ScreenInv, Shows, CursorOK, InPlace, Sc!TypingIsUndisturbed
  <1>3. Sc!LeavesTheTerminal
    <2>1. screen_tty.alt \in BOOLEAN /\ screen_taken \in BOOLEAN
      BY DEF ScreenInv, ScreenTyped, IsTerminal
    <2>2. QED
      BY <2>1 DEF ScreenInv, EndingOK, TakenOK, Sc!LeavesTheTerminal
  <1>4. Sc!TypeOK
    BY DEF ScreenInv, ScreenTyped, Answerers, Endings, IsTerminal, IsBar, Sc!TypeOK
  <1>5. QED
    BY <1>1, <1>2, <1>3, <1>4 DEF Sc!TerminalIsKept

\* Once the terminal was handed back no draw reaches it; giving it back and taking it
\* again leave what was scribbled.
LEMMA QuietStep ==
  ScreenInv /\ Sc!Next /\ screen_bar.handedBack =>
    screen_tty'.scribbled = screen_tty.scribbled
  <1> SUFFICES ASSUME ScreenInv, Sc!Next, screen_bar.handedBack
               PROVE  screen_tty'.scribbled = screen_tty.scribbled
    OBVIOUS
  <1>1. /\ IsTerminal(screen_tty) /\ IsBar(screen_bar) /\ ~screen_bar.line
    BY DEF ScreenInv, ScreenTyped, IsBar
  <1>2. \A t, drawn, c : Sc!Repaint(t, drawn, c) => screen_tty' = t
    BY DEF Sc!Repaint
  <1>3. \A c : Sc!DoPaint(screen_tty, c) => screen_tty' = screen_tty
    BY DEF Sc!DoPaint
  <1>4. CASE Sc!Refresh \/ Sc!ShowQR
    BY <1>2, <1>4 DEF Sc!Refresh, Sc!ShowQR
  <1>5. CASE Sc!WriteLine
    BY <1>1, <1>2, <1>5 DEF Sc!WriteLine, Sc!WriteLog
  <1>6. CASE Sc!ApplyKey
    BY <1>1, <1>6 DEF Sc!ApplyKey, Sc!DrawPrompt
  <1>7. CASE Sc!Settle \/ Sc!SuspendRepaints
    BY <1>3, <1>7 DEF Sc!Settle, Sc!SuspendRepaints
  <1>8. CASE Sc!Restore
    <2> DEFINE left == Sc!LeaveAlt(screen_tty)
    <2>1. IsTerminal(left) /\ left.scribbled = screen_tty.scribbled
      BY <1>1 DEF Sc!LeaveAlt, IsTerminal
    <2>2. screen_tty' = IF screen_taken THEN [left EXCEPT !.raw = FALSE] ELSE screen_tty
      BY <1>8 DEF Sc!Restore
    <2> HIDE DEF left
    <2>3. QED
      BY <2>1, <2>2 DEF IsTerminal
  <1>9. CASE Sc!SuspendRestores \/ Sc!ShutdownRestores \/ Sc!Close \/ Sc!Fatal
    BY <1>8, <1>9 DEF Sc!SuspendRestores, Sc!ShutdownRestores, Sc!Close, Sc!Fatal
  <1>10. CASE Sc!SuspendEnters
    <2> DEFINE on == Sc!EnterAlt(screen_tty)
    <2>1. IsTerminal(on) /\ on.scribbled = screen_tty.scribbled
      BY <1>1 DEF Sc!EnterAlt, IsTerminal
    <2>2. screen_tty' = IF screen_taken THEN screen_tty ELSE [on EXCEPT !.raw = screen_bar.keys]
      BY <1>10 DEF Sc!SuspendEnters, Sc!Enter
    <2> HIDE DEF on
    <2>3. QED
      BY <2>1, <2>2 DEF IsTerminal
  <1>11. CASE UNCHANGED screen_tty
    BY <1>11
  <1>12. QED
    BY <1>4, <1>5, <1>6, <1>7, <1>9, <1>10, <1>11
       DEF Sc!Next, Sc!Resize, Sc!SuspendAsked, Sc!Stop, Sc!Foreground, Sc!HandBack, Sc!Cancel,
           Sc!Exit

\* The whole of what is known of the terminal: what is on it is drawn from the layout the
\* status bar has, and whoever has taken it knows.  (main.go, terminal.go.)
THEOREM ScreenInvariant == ASSUME Sc!ConstantsOK PROVE Sc!Spec => []ScreenInv
  BY ScreenInit, ScreenStep, PTL DEF Sc!Spec

\* One drawing, undisturbed typing, and a terminal that is the user's again at the end,
\* whatever the layouts are; and nothing is drawn once it was handed back.  (statusBar,
\* suspend_unix.go, shutdown.)
THEOREM TerminalKept ==
  ASSUME Sc!ConstantsOK
  PROVE  Sc!Spec => []Sc!TypeOK /\ []Sc!TerminalIsKept /\ Sc!HandedBackIsQuiet
  <1>1. Sc!Spec => []ScreenInv
    BY ScreenInvariant
  <1>2. ScreenInv /\ [Sc!Next]_(Sc!vars) =>
          [screen_bar.handedBack => screen_tty'.scribbled = screen_tty.scribbled]_(Sc!vars)
    BY QuietStep
  <1>3. QED
    BY <1>1, <1>2, ScreenIsKept, PTL DEF Sc!Spec, Sc!HandedBackIsQuiet

-----------------------------------------------------------------------------
(***************************************************************************)
(* Window.                                                                 *)
(***************************************************************************)
\* A room with numbers in it.
IsRoom(r) ==
  /\ r = [f \in {"termW", "termH", "qrW", "qrH", "gridH", "head", "foot"} |-> r[f]]
  /\ r.termW \in Int /\ r.termH \in Int /\ r.qrW \in Nat /\ r.qrH \in Nat /\ r.gridH \in Nat
  /\ r.head \in Int /\ r.foot \in Int

\* An attempt: the window and the code it is for, and what it allows the banner and the
\* command list.
IsAttempt(a, r) ==
  /\ IsRoom(a) /\ a.termW = r.termW /\ a.termH = r.termH
  /\ a.qrW = r.qrW /\ a.qrH = r.qrH /\ a.gridH = r.gridH
  /\ a.head \in {2, Wi!BannerHeight(r.termW)} /\ a.foot \in {0, 3}

LEMMA AttemptsAre ==
  ASSUME NEW r, IsRoom(r)
  PROVE  /\ \A i \in 1 .. 4 : IsAttempt(Wi!Attempts(r)[i], r)
         /\ Wi!Attempts(r)[1].head = Wi!BannerHeight(r.termW) /\ Wi!Attempts(r)[1].foot = 3
         /\ Wi!Attempts(r)[4].head = 2 /\ Wi!Attempts(r)[4].foot = 0
         /\ Wi!Attempts(r)[2].head = 2
  <1> DEFINE tall == Wi!BannerHeight(r.termW)
             With(head, foot) == [[r EXCEPT !.head = head] EXCEPT !.foot = foot]
             a == <<With(tall, 3), With(2, 3), With(tall, 0), With(2, 0)>>
  <1>1. Wi!Attempts(r) = a
    BY DEF Wi!Attempts, Wi!footerRows, Wi!shortBannerRows
  <1>2. tall \in Int
    BY DEF Wi!BannerHeight, Wi!shortBannerRows, Wi!bannerRows, IsRoom
  <1> HIDE DEF tall
  <1>3. ASSUME NEW head \in Int, NEW foot \in Int
        PROVE  /\ IsRoom(With(head, foot)) /\ With(head, foot).head = head
               /\ With(head, foot).foot = foot /\ With(head, foot).termW = r.termW
               /\ With(head, foot).termH = r.termH /\ With(head, foot).qrW = r.qrW
               /\ With(head, foot).qrH = r.qrH /\ With(head, foot).gridH = r.gridH
    BY DEF IsRoom
  <1> HIDE DEF With
  <1>4. /\ a[1] = With(tall, 3) /\ a[2] = With(2, 3) /\ a[3] = With(tall, 0) /\ a[4] = With(2, 0)
    OBVIOUS
  <1> HIDE DEF a
  <1>5. \A i \in 1 .. 4 : i = 1 \/ i = 2 \/ i = 3 \/ i = 4
    OBVIOUS
  <1>6. \A i \in 1 .. 4 : IsAttempt(a[i], r)
    BY <1>2, <1>3, <1>4, <1>5 DEF IsAttempt, tall
  <1>7. QED
    BY <1>1, <1>2, <1>3, <1>4, <1>6 DEF tall

\* What a layout is: everything is a number but whether the command list is shown.
LEMMA LayoutIsOneOf ==
  ASSUME NEW r, IsRoom(r)
  PROVE  \/ /\ \A i \in 1 .. 4 : /\ ~Wi!FitsSideBySide(Wi!Attempts(r)[i])
                                 /\ ~Wi!FitsStacked(Wi!Attempts(r)[i])
            /\ Wi!ComputeLayout(r) = Wi!PlaceWithoutCode(Wi!Attempts(r)[1])
         \/ \E a : /\ IsAttempt(a, r)
                  /\ \/ Wi!FitsSideBySide(a) /\ Wi!ComputeLayout(r) = Wi!PlaceSideBySide(a)
                     \/ Wi!FitsStacked(a) /\ Wi!ComputeLayout(r) = Wi!PlaceStacked(a)
  <1> DEFINE a == Wi!Attempts(r)
             first == {i \in 1 .. 4 : Wi!FitsSideBySide(a[i]) \/ Wi!FitsStacked(a[i])}
             n == CHOOSE i \in first : \A j \in first : i <= j
  <1>1. Wi!ComputeLayout(r) =
          IF first = {} THEN Wi!PlaceWithoutCode(a[1])
          ELSE IF Wi!FitsSideBySide(a[n]) THEN Wi!PlaceSideBySide(a[n]) ELSE Wi!PlaceStacked(a[n])
    BY DEF Wi!ComputeLayout
  <1>2. CASE first = {}
    BY <1>1, <1>2
  <1>3. CASE first # {}
    <2>1. first \subseteq 1 .. 4
      OBVIOUS
    <2>2. \E i \in first : \A j \in first : i <= j
      <3> HIDE DEF first
      <3>1. CASE 1 \in first
        BY <2>1, <3>1
      <3>2. CASE 1 \notin first /\ 2 \in first
        BY <2>1, <3>2
      <3>3. CASE 1 \notin first /\ 2 \notin first /\ 3 \in first
        <4>1. \A j \in first : j = 3 \/ j = 4
          BY <2>1, <3>3
        <4>2. \A j \in first : 3 <= j
          BY <4>1
        <4>3. 3 \in first
          BY <3>3
        <4>4. QED
          BY <4>2, <4>3
      <3>4. CASE 1 \notin first /\ 2 \notin first /\ 3 \notin first
        <4>1. \A j \in first : j = 4
          BY <2>1, <3>4
        <4>2. 4 \in first /\ \A j \in first : 4 <= j
          BY <1>3, <4>1
        <4>3. QED
          BY <4>2
      <3>5. QED
        BY <3>1, <3>2, <3>3, <3>4
    <2>3. n \in first
      <3> HIDE DEF first
      <3>1. QED
        BY <2>2
    <2>4. n \in 1 .. 4 /\ (Wi!FitsSideBySide(a[n]) \/ Wi!FitsStacked(a[n]))
      BY <2>3
    <2>5. IsAttempt(a[n], r)
      <3> HIDE DEF n
      <3>1. QED
        BY <2>4, AttemptsAre
    <2> HIDE DEF n
    <2>6. QED
      BY <1>1, <1>3, <2>4, <2>5
  <1>4. QED
    BY <1>2, <1>3

\* The shapes, field by field.
Shape(l, r, qrRow, qrCol, qrBoxW, qrBoxH, gridRow, gridCol, gridRows, shown, logRow) ==
  /\ l.termW = r.termW /\ l.termH = r.termH /\ l.headRows = r.head
  /\ l.labelRow = r.head + 2 /\ l.logRow = logRow /\ l.footerShown = shown
  /\ l.qrRow = qrRow /\ l.qrCol = qrCol /\ l.qrBoxW = qrBoxW /\ l.qrBoxH = qrBoxH
  /\ l.gridRow = gridRow /\ l.gridCol = gridCol /\ l.gridRows = gridRows
  /\ l.gridWidth = Wi!ClampGridWidth(r.termW - gridCol)

\* What the placements begin with.
IsBlank(l, r) ==
  /\ l = [f \in {"termW", "termH", "headRows", "labelRow", "logRow", "footerShown", "qrRow", "qrCol",
                 "qrBoxW", "qrBoxH", "gridRow", "gridCol", "gridWidth", "gridRows"} |-> l[f]]
  /\ l.termW = r.termW /\ l.termH = r.termH /\ l.headRows = r.head /\ l.labelRow = r.head + 2
  /\ l.footerShown = (r.foot > 0) /\ l.qrRow = 0 /\ l.qrCol = 0 /\ l.qrBoxW = 0 /\ l.qrBoxH = 0

LEMMA NewLayoutIsBlank ==
  ASSUME NEW r, IsRoom(r)
  PROVE  IsBlank(Wi!NewLayout(r), r)
  <1> DEFINE label == Wi!BlockRow(r) - 1
             row == Wi!BlockRow(r)
             shown == r.foot > 0
  <1>1. label = r.head + 2
    BY DEF Wi!BlockRow, Wi!scanLabelRows, IsRoom
  <1>2. Wi!NewLayout(r) =
          [termW |-> r.termW, termH |-> r.termH, headRows |-> r.head, labelRow |-> label,
           logRow |-> row, footerShown |-> shown, qrRow |-> 0, qrCol |-> 0, qrBoxW |-> 0,
           qrBoxH |-> 0, gridRow |-> 0, gridCol |-> 0, gridWidth |-> 0, gridRows |-> 0]
    BY DEF Wi!NewLayout
  <1>3. shown = (r.foot > 0)
    OBVIOUS
  <1> HIDE DEF label, row, shown
  <1>4. QED
    BY <1>1, <1>2, <1>3 DEF IsBlank

LEMMA SideBySideIs ==
  ASSUME NEW r, IsRoom(r)
  PROVE  LET block == Wi!Most(r.qrH, r.gridH) IN
         Shape(Wi!PlaceSideBySide(r), r, r.head + 3 + (block - r.qrH) \div 2, 3, r.qrW, r.qrH,
               r.head + 3 + (block - r.gridH) \div 2, r.qrW + 6, r.gridH, r.foot > 0,
               r.head + 3 + block + r.foot)
  <1> DEFINE bare == Wi!NewLayout(r)
             block == Wi!Most(r.qrH, r.gridH)
             col == Wi!qrIndent + r.qrW + Wi!gap + 1
             qrCol == Wi!qrIndent + 1
             width == Wi!ClampGridWidth(r.termW - col)
             qrRow == Wi!BlockRow(r) + (block - r.qrH) \div 2
             gridRow == Wi!BlockRow(r) + (block - r.gridH) \div 2
             log == Wi!BlockRow(r) + block + r.foot
             l == [[[[[[[[[bare EXCEPT !.qrCol = qrCol] EXCEPT !.qrBoxW = r.qrW]
                    EXCEPT !.qrBoxH = r.qrH] EXCEPT !.gridCol = col] EXCEPT !.gridWidth = width]
                    EXCEPT !.qrRow = qrRow] EXCEPT !.gridRow = gridRow] EXCEPT !.logRow = log]
                    EXCEPT !.gridRows = r.gridH]
  <1>1. Wi!PlaceSideBySide(r) = l
    BY DEF Wi!PlaceSideBySide
  <1>2. /\ Wi!BlockRow(r) = r.head + 3 /\ col = r.qrW + 6 /\ qrCol = 3
    BY DEF Wi!BlockRow, Wi!scanLabelRows, IsRoom, Wi!qrIndent, Wi!gap
  <1>3. IsBlank(bare, r)
    BY NewLayoutIsBlank
  <1> HIDE DEF bare
  <1>4. Shape(l, r, qrRow, qrCol, r.qrW, r.qrH, gridRow, col, r.gridH, r.foot > 0, log)
    <2>1. width = Wi!ClampGridWidth(r.termW - col)
      OBVIOUS
    <2> HIDE DEF col, qrCol, width, qrRow, gridRow, log
    <2>2. QED
      BY <1>3, <2>1 DEF IsBlank, Shape
  <1> HIDE DEF l, col, qrCol
  <1>5. QED
    BY <1>1, <1>2, <1>4

LEMMA StackedIs ==
  ASSUME NEW r, IsRoom(r)
  PROVE  Shape(Wi!PlaceStacked(r), r, r.head + 3, 3, r.qrW, r.qrH, r.head + 3 + r.qrH + 1, 3,
               r.gridH, r.foot > 0, r.head + 3 + r.qrH + 1 + r.gridH + r.foot)
  <1> DEFINE bare == Wi!NewLayout(r)
             row == Wi!BlockRow(r) + r.qrH + 1
             col == Wi!qrIndent + 1
             width == Wi!ClampGridWidth(r.termW - col)
             qrRow == Wi!BlockRow(r)
             log == row + r.gridH + r.foot
             l == [[[[[[[[[bare EXCEPT !.qrCol = col] EXCEPT !.qrRow = qrRow]
                    EXCEPT !.qrBoxW = r.qrW] EXCEPT !.qrBoxH = r.qrH] EXCEPT !.gridCol = col]
                    EXCEPT !.gridWidth = width] EXCEPT !.gridRow = row] EXCEPT !.logRow = log]
                    EXCEPT !.gridRows = r.gridH]
  <1>1. Wi!PlaceStacked(r) = l
    BY DEF Wi!PlaceStacked
  <1>2. /\ qrRow = r.head + 3 /\ col = 3 /\ row = r.head + 3 + r.qrH + 1
        /\ log = r.head + 3 + r.qrH + 1 + r.gridH + r.foot
    BY DEF Wi!BlockRow, Wi!scanLabelRows, IsRoom, Wi!qrIndent
  <1>3. IsBlank(bare, r)
    BY NewLayoutIsBlank
  <1> HIDE DEF bare
  <1>4. Shape(l, r, qrRow, col, r.qrW, r.qrH, row, col, r.gridH, r.foot > 0, log)
    <2>1. width = Wi!ClampGridWidth(r.termW - col)
      OBVIOUS
    <2> HIDE DEF col, width, qrRow, row, log
    <2>2. QED
      BY <1>3, <2>1 DEF IsBlank, Shape
  <1> HIDE DEF l, col, qrRow, row, log
  <1>5. QED
    BY <1>1, <1>2, <1>4

\* The rows a layout without the code gives the command list, and the row its log begins in.
FootLeft(r) == IF r.head + 3 + r.gridH + r.foot > Wi!LastDrawableRow(r.termH) THEN 0 ELSE r.foot
LogLeft(r) == Wi!Least(r.head + 3 + r.gridH + FootLeft(r), Wi!LastDrawableRow(r.termH) + 1)

LEMMA WithoutCodeIs ==
  ASSUME NEW r, IsRoom(r)
  PROVE  Shape(Wi!PlaceWithoutCode(r), r, 0, 0, 0, 0, r.head + 3, 3,
               Wi!Most(Wi!Least(r.gridH, LogLeft(r) - FootLeft(r) - (r.head + 3)), 0),
               FootLeft(r) > 0, LogLeft(r))
  <1> DEFINE bare == Wi!NewLayout(r)
             row == Wi!BlockRow(r)
             foot == IF row + r.gridH + r.foot > Wi!LastDrawableRow(r.termH) THEN 0 ELSE r.foot
             log == Wi!Least(row + r.gridH + foot, Wi!LastDrawableRow(r.termH) + 1)
             rows == Wi!Most(Wi!Least(r.gridH, log - foot - row), 0)
             col == Wi!qrIndent + 1
             shown == foot > 0
             width == Wi!ClampGridWidth(r.termW - col)
             l == [[[[[[bare EXCEPT !.gridCol = col] EXCEPT !.gridWidth = width]
                    EXCEPT !.gridRow = row] EXCEPT !.footerShown = shown] EXCEPT !.logRow = log]
                    EXCEPT !.gridRows = rows]
  <1>1. Wi!PlaceWithoutCode(r) = l
    BY DEF Wi!PlaceWithoutCode
  <1>2. row = r.head + 3 /\ col = 3
    BY DEF Wi!BlockRow, Wi!scanLabelRows, IsRoom, Wi!qrIndent
  <1>3. IsBlank(bare, r)
    BY NewLayoutIsBlank
  <1>4. Shape(l, r, 0, 0, 0, 0, row, col, rows, shown, log)
    <2>1. width = Wi!ClampGridWidth(r.termW - col)
      OBVIOUS
    <2> HIDE DEF bare, col, width, row, rows, log, shown
    <2>2. QED
      BY <1>3, <2>1 DEF IsBlank, Shape
  <1> HIDE DEF row
  <1>5. /\ foot = FootLeft(r) /\ log = LogLeft(r) /\ shown = (FootLeft(r) > 0)
        /\ rows = Wi!Most(Wi!Least(r.gridH, LogLeft(r) - FootLeft(r) - (r.head + 3)), 0)
    BY <1>2 DEF FootLeft, LogLeft
  <1> HIDE DEF l, col, rows, log, shown
  <1>6. QED
    BY <1>1, <1>2, <1>4, <1>5

-----------------------------------------------------------------------------
\* The row in which the code and the grid have to have ended.
BodyEnd(l) == l.logRow - (IF l.footerShown THEN 2 ELSE 0)

\* What keeps the parts apart: the banner and the label above, then the code and the grid,
\* next to each other or one below the other, then the command list, then the log.
Placed(l) ==
  /\ l.headRows \in {2, 8} /\ l.labelRow = l.headRows + 2 /\ l.headRows + 6 <= l.termH
  /\ l.termW \in Int /\ l.termH \in Int /\ l.termW >= 15
  /\ l.footerShown \in BOOLEAN /\ l.logRow \in Int
  /\ l.headRows + 3 <= BodyEnd(l) /\ l.logRow <= l.termH + 1
  /\ l.qrRow \in Int /\ l.qrCol \in Int /\ l.qrBoxW \in Int /\ l.qrBoxH \in Int
  /\ l.qrBoxH > 0 => /\ l.headRows + 3 <= l.qrRow /\ l.qrRow + l.qrBoxH <= BodyEnd(l)
                     /\ 1 <= l.qrCol /\ l.qrCol + l.qrBoxW - 1 <= l.termW
  /\ l.gridRow \in Int /\ l.gridCol \in Int /\ l.gridWidth \in Int /\ l.gridRows \in Int
  /\ l.gridRows > 0 => /\ l.headRows + 3 <= l.gridRow /\ l.gridRow + l.gridRows <= BodyEnd(l)
                       /\ 1 <= l.gridCol /\ l.gridCol + l.gridWidth - 1 <= l.termW
  /\ l.qrBoxH > 0 => \/ l.qrCol + l.qrBoxW <= l.gridCol
                     \/ l.qrRow + l.qrBoxH <= l.gridRow

LEMMA PlacedIsApart ==
  ASSUME NEW l, Placed(l)
  PROVE  Wi!NoOverlap(l) /\ Wi!AllInWindow(l)
  <1> DEFINE p == Wi!Pieces(l)
  <1>1. /\ p[1] = Wi!Header(l) /\ p[2] = Wi!ScanLabel(l) /\ p[3] = Wi!QR(l)
        /\ p[4] = Wi!Grid(l) /\ p[5] = Wi!Footer(l) /\ p[6] = Wi!Log(l) /\ DOMAIN p = 1 .. 6
    BY DEF Wi!Pieces
  <1>2. /\ p[1].top = 1 /\ p[1].rows = l.headRows /\ p[1].left = 1 /\ p[1].cols = l.termW
    BY <1>1 DEF Wi!Header, Wi!Box, Placed, Wi!bannerRows, Wi!shortBannerRows
  <1>3. /\ p[2].top = l.labelRow /\ p[2].rows = 1 /\ p[2].left = 1 /\ p[2].cols = l.termW
    BY <1>1 DEF Wi!ScanLabel, Wi!Box
  <1>4. /\ p[3].top = l.qrRow /\ p[3].rows = l.qrBoxH /\ p[3].left = l.qrCol
        /\ p[3].cols = l.qrBoxW
    BY <1>1 DEF Wi!QR, Wi!Box
  <1>5. /\ p[4].top = l.gridRow /\ p[4].rows = l.gridRows /\ p[4].left = l.gridCol
        /\ p[4].cols = l.gridWidth
    BY <1>1 DEF Wi!Grid, Wi!Box
  <1>6. /\ p[5].top = l.logRow - 2 /\ p[5].rows = (IF l.footerShown THEN 2 ELSE 0)
        /\ p[5].left = 1 /\ p[5].cols = l.termW
    BY <1>1 DEF Wi!Footer, Wi!Box
  <1>7. /\ p[6].top = l.logRow /\ p[6].rows = l.termH - l.logRow + 1 /\ p[6].left = 1
        /\ p[6].cols = l.termW
    BY <1>1 DEF Wi!Log, Wi!Box
  <1> HIDE DEF p
  <1>8. Wi!NoOverlap(l)
    <2>1. /\ Wi!Apart(p[1], p[2]) /\ Wi!Apart(p[1], p[3]) /\ Wi!Apart(p[1], p[4])
          /\ Wi!Apart(p[1], p[5]) /\ Wi!Apart(p[1], p[6])
      BY <1>2, <1>3, <1>4, <1>5, <1>6, <1>7 DEF Wi!Apart, Placed, BodyEnd
    <2>2. /\ Wi!Apart(p[2], p[3]) /\ Wi!Apart(p[2], p[4])
          /\ Wi!Apart(p[2], p[5]) /\ Wi!Apart(p[2], p[6])
      BY <1>3, <1>4, <1>5, <1>6, <1>7 DEF Wi!Apart, Placed, BodyEnd
    <2>3. /\ Wi!Apart(p[3], p[4]) /\ Wi!Apart(p[3], p[5]) /\ Wi!Apart(p[3], p[6])
      BY <1>4, <1>5, <1>6, <1>7 DEF Wi!Apart, Placed, BodyEnd
    <2>4. /\ Wi!Apart(p[4], p[5]) /\ Wi!Apart(p[4], p[6]) /\ Wi!Apart(p[5], p[6])
      BY <1>5, <1>6, <1>7 DEF Wi!Apart, Placed, BodyEnd
    <2>5. \A i \in 1 .. 6 : i = 1 \/ i = 2 \/ i = 3 \/ i = 4 \/ i = 5 \/ i = 6
      OBVIOUS
    <2>6. ASSUME NEW i \in 1 .. 6, NEW j \in 1 .. 6, i < j PROVE Wi!Apart(p[i], p[j])
      BY <2>1, <2>2, <2>3, <2>4, <2>5, <2>6
    <2>7. QED
      BY <1>1, <2>6 DEF Wi!NoOverlap, p
  <1>9. Wi!AllInWindow(l)
    <2>1. /\ Wi!InWindow(l, p[1]) /\ Wi!InWindow(l, p[2]) /\ Wi!InWindow(l, p[3])
          /\ Wi!InWindow(l, p[4]) /\ Wi!InWindow(l, p[5]) /\ Wi!InWindow(l, p[6])
      BY <1>2, <1>3, <1>4, <1>5, <1>6, <1>7 DEF Wi!InWindow, Placed, BodyEnd
    <2>2. \A i \in 1 .. 6 : i = 1 \/ i = 2 \/ i = 3 \/ i = 4 \/ i = 5 \/ i = 6
      OBVIOUS
    <2>3. QED
      BY <1>1, <2>1, <2>2 DEF Wi!AllInWindow, p
  <1>10. QED
    BY <1>8, <1>9

LEMMA SideBySideIsPlaced ==
  ASSUME NEW r, IsRoom(r), Wi!FitsSideBySide(r), r.head \in {2, 8}, r.foot \in {0, 3},
         r.head + 6 <= r.termH, r.termW >= 15
  PROVE  Placed(Wi!PlaceSideBySide(r)) /\ Wi!PlaceSideBySide(r).qrBoxH > 0
  <1> DEFINE l == Wi!PlaceSideBySide(r)
             block == Wi!Most(r.qrH, r.gridH)
             above == (block - r.qrH) \div 2
             over == (block - r.gridH) \div 2
  <1>1. Shape(l, r, r.head + 3 + above, 3, r.qrW, r.qrH, r.head + 3 + over, r.qrW + 6, r.gridH,
              r.foot > 0, r.head + 3 + block + r.foot)
    BY SideBySideIs
  <1>2. /\ block \in Int /\ block >= r.qrH /\ block >= r.gridH
    BY DEF Wi!Most, IsRoom
  <1> HIDE DEF block
  <1>3. /\ above \in Int /\ 0 <= above /\ above <= block - r.qrH
        /\ over \in Int /\ 0 <= over /\ over <= block - r.gridH
    BY <1>2 DEF IsRoom
  <1>4. /\ r.qrH > 0 /\ r.qrW + 39 <= r.termW
        /\ r.head + 3 + block + r.foot <= Wi!LastDrawableRow(r.termH)
    BY DEF Wi!FitsSideBySide, block, Wi!BlockRow, Wi!scanLabelRows, Wi!qrIndent, Wi!gap,
           Wi!minGridWidth, IsRoom
  <1>5. Wi!LastDrawableRow(r.termH) = r.termH - 3
    BY DEF Wi!LastDrawableRow, Wi!Most, Wi!minLogRows, IsRoom
  <1>6. /\ l.gridWidth \in Int /\ r.qrW + 6 + l.gridWidth - 1 <= r.termW
    BY <1>1, <1>4 DEF Shape, Wi!ClampGridWidth, Wi!Most, Wi!Least, Wi!maxGridWidth,
                      Wi!floorGridWidth, IsRoom
  <1> HIDE DEF l, above, over
  <1>7. /\ l.footerShown \in BOOLEAN
        /\ BodyEnd(l) = l.logRow - (IF r.foot = 3 THEN 2 ELSE 0)
    <2>1. l.footerShown = (r.foot > 0)
      BY <1>1 DEF Shape
    <2>2. CASE r.foot = 3
      <3> DEFINE shown == r.foot > 0
      <3>1. shown = TRUE
        BY <2>2
      <3>2. l.footerShown = shown
        BY <2>1
      <3> HIDE DEF shown
      <3>3. l.footerShown = TRUE
        BY <3>1, <3>2
      <3>4. BodyEnd(l) = l.logRow - 2
        BY <3>3, Zenon DEF BodyEnd
      <3>5. QED
        BY <2>2, <3>3, <3>4
    <2>3. CASE r.foot = 0
      <3> DEFINE shown == r.foot > 0
      <3>1. shown = FALSE
        BY <2>3
      <3>2. l.footerShown = shown
        BY <2>1
      <3> HIDE DEF shown
      <3>3. l.footerShown = FALSE
        BY <3>1, <3>2
      <3>4. BodyEnd(l) = l.logRow - 0
        BY <3>3, Zenon DEF BodyEnd
      <3>5. l.footerShown \in BOOLEAN
        BY <3>3, Zenon
      <3>6. (IF r.foot = 3 THEN 2 ELSE 0) = 0
        BY <2>3
      <3>7. QED
        BY <3>4, <3>5, <3>6, Zenon
    <2>4. QED
      BY <2>2, <2>3
  <1>8. Placed(l)
    BY <1>1, <1>2, <1>3, <1>4, <1>5, <1>6, <1>7 DEF Placed, Shape, IsRoom
  <1>9. QED
    BY <1>1, <1>4, <1>8 DEF Shape, l

LEMMA StackedIsPlaced ==
  ASSUME NEW r, IsRoom(r), Wi!FitsStacked(r), r.head \in {2, 8}, r.foot \in {0, 3},
         r.head + 6 <= r.termH, r.termW >= 15
  PROVE  Placed(Wi!PlaceStacked(r)) /\ Wi!PlaceStacked(r).qrBoxH > 0
  <1> DEFINE l == Wi!PlaceStacked(r)
  <1>1. Shape(l, r, r.head + 3, 3, r.qrW, r.qrH, r.head + 3 + r.qrH + 1, 3,
              r.gridH, r.foot > 0, r.head + 3 + r.qrH + 1 + r.gridH + r.foot)
    BY StackedIs
  <1>2. /\ r.qrH > 0 /\ r.qrW + 2 <= r.termW
        /\ r.head + 3 + r.qrH + 1 + r.gridH + r.foot <= Wi!LastDrawableRow(r.termH)
    BY DEF Wi!FitsStacked, Wi!BlockRow, Wi!scanLabelRows, Wi!qrIndent, IsRoom
  <1>3. Wi!LastDrawableRow(r.termH) = r.termH - 3
    BY DEF Wi!LastDrawableRow, Wi!Most, Wi!minLogRows, IsRoom
  <1>4. /\ l.gridWidth \in Int /\ 3 + l.gridWidth - 1 <= r.termW
    BY <1>1 DEF Shape, Wi!ClampGridWidth, Wi!Most, Wi!Least, Wi!maxGridWidth,
                Wi!floorGridWidth, IsRoom
  <1> HIDE DEF l
  <1>5. /\ l.footerShown \in BOOLEAN
        /\ BodyEnd(l) = l.logRow - (IF r.foot = 3 THEN 2 ELSE 0)
    <2>1. l.footerShown = (r.foot > 0)
      BY <1>1 DEF Shape
    <2>2. CASE r.foot = 3
      <3> DEFINE shown == r.foot > 0
      <3>1. shown = TRUE
        BY <2>2
      <3>2. l.footerShown = shown
        BY <2>1
      <3> HIDE DEF shown
      <3>3. l.footerShown = TRUE
        BY <3>1, <3>2
      <3>4. BodyEnd(l) = l.logRow - 2
        BY <3>3, Zenon DEF BodyEnd
      <3>5. QED
        BY <2>2, <3>3, <3>4
    <2>3. CASE r.foot = 0
      <3> DEFINE shown == r.foot > 0
      <3>1. shown = FALSE
        BY <2>3
      <3>2. l.footerShown = shown
        BY <2>1
      <3> HIDE DEF shown
      <3>3. l.footerShown = FALSE
        BY <3>1, <3>2
      <3>4. BodyEnd(l) = l.logRow - 0
        BY <3>3, Zenon DEF BodyEnd
      <3>5. l.footerShown \in BOOLEAN
        BY <3>3, Zenon
      <3>6. (IF r.foot = 3 THEN 2 ELSE 0) = 0
        BY <2>3
      <3>7. QED
        BY <3>4, <3>5, <3>6, Zenon
    <2>4. QED
      BY <2>2, <2>3
  <1>6. Placed(l)
    BY <1>1, <1>2, <1>3, <1>4, <1>5 DEF Placed, Shape, IsRoom
  <1>7. QED
    BY <1>1, <1>2, <1>6 DEF Shape, l

LEMMA WithoutCodeIsPlaced ==
  ASSUME NEW r, IsRoom(r), r.head \in {2, 8}, r.foot = 3, r.head + 6 <= r.termH, r.termW >= 15
  PROVE  Placed(Wi!PlaceWithoutCode(r))
  <1> DEFINE l == Wi!PlaceWithoutCode(r)
             rows == Wi!Most(Wi!Least(r.gridH, LogLeft(r) - FootLeft(r) - (r.head + 3)), 0)
  <1>1. Shape(l, r, 0, 0, 0, 0, r.head + 3, 3, rows, FootLeft(r) > 0, LogLeft(r))
    BY WithoutCodeIs
  <1>2. Wi!LastDrawableRow(r.termH) = r.termH - 3
    BY DEF Wi!LastDrawableRow, Wi!Most, Wi!minLogRows, IsRoom
  <1>3. \/ /\ FootLeft(r) = 3 /\ LogLeft(r) = r.head + 6 + r.gridH /\ LogLeft(r) <= r.termH - 3
           /\ rows = r.gridH
        \/ /\ FootLeft(r) = 0 /\ LogLeft(r) <= r.termH - 2 /\ r.head + 3 <= LogLeft(r)
           /\ rows <= LogLeft(r) - (r.head + 3)
    BY <1>2 DEF FootLeft, LogLeft, Wi!Least, Wi!Most, IsRoom
  <1>4. LogLeft(r) \in Int /\ rows \in Int
    BY <1>2 DEF FootLeft, LogLeft, Wi!Least, Wi!Most, IsRoom
  <1>5. /\ l.gridWidth \in Int /\ 3 + l.gridWidth - 1 <= r.termW
    BY <1>1 DEF Shape, Wi!ClampGridWidth, Wi!Most, Wi!Least, Wi!maxGridWidth,
                Wi!floorGridWidth, IsRoom
  <1> HIDE DEF l, rows
  <1>6. /\ l.footerShown \in BOOLEAN
        /\ BodyEnd(l) = l.logRow - (IF FootLeft(r) = 3 THEN 2 ELSE 0)
    <2>1. l.footerShown = (FootLeft(r) > 0)
      BY <1>1 DEF Shape
    <2>2. CASE FootLeft(r) = 3
      <3> DEFINE shown == FootLeft(r) > 0
      <3>1. shown = TRUE
        BY <2>2
      <3>2. l.footerShown = shown
        BY <2>1
      <3> HIDE DEF shown
      <3>3. l.footerShown = TRUE
        BY <3>1, <3>2
      <3>4. BodyEnd(l) = l.logRow - 2
        BY <3>3, Zenon DEF BodyEnd
      <3>5. QED
        BY <2>2, <3>3, <3>4
    <2>3. CASE FootLeft(r) = 0
      <3> DEFINE shown == FootLeft(r) > 0
      <3>1. shown = FALSE
        BY <2>3
      <3>2. l.footerShown = shown
        BY <2>1
      <3> HIDE DEF shown
      <3>3. l.footerShown = FALSE
        BY <3>1, <3>2
      <3>4. BodyEnd(l) = l.logRow - 0
        BY <3>3, Zenon DEF BodyEnd
      <3>5. l.footerShown \in BOOLEAN
        BY <3>3, Zenon
      <3>6. (IF FootLeft(r) = 3 THEN 2 ELSE 0) = 0
        BY <2>3
      <3>7. QED
        BY <3>4, <3>5, <3>6, Zenon
    <2>4. QED
      BY <2>2, <2>3, <1>3
  <1>7. Placed(l)
    BY <1>1, <1>3, <1>4, <1>5, <1>6 DEF Placed, Shape, IsRoom
  <1>8. QED
    BY <1>7 DEF l

-----------------------------------------------------------------------------
LEMMA RoomsAre ==
  ASSUME Wi!ConstantsOK, NEW r \in Wi!Rooms
  PROVE  IsRoom(r)
  <1>1. Widths \cup Heights \subseteq Int /\ Grids \subseteq Nat
        /\ \A c \in WindowCodes : c[1] \in Nat /\ c[2] \in Nat
    BY DEF Wi!ConstantsOK
  <1>2. /\ r = [f \in {"termW", "termH", "qrW", "qrH", "gridH", "head", "foot"} |-> r[f]]
        /\ r.termW \in Widths /\ r.termH \in Heights
        /\ r.qrW \in {c[1] : c \in WindowCodes} /\ r.qrH \in {c[2] : c \in WindowCodes}
        /\ r.gridH \in Grids /\ r.head = 0 /\ r.foot = 0
    BY DEF Wi!Rooms
  <1>3. QED
    BY <1>1, <1>2 DEF IsRoom

LEMMA RoomIs ==
  ASSUME Wi!ConstantsOK, Wi!TypeOK
  PROVE  IsRoom(window_room)
  BY RoomsAre DEF Wi!TypeOK

LEMMA PartsApart == Wi!ConstantsOK /\ Wi!TypeOK => Wi!PartsStayApart
  <1> SUFFICES ASSUME Wi!ConstantsOK, Wi!TypeOK, Wi!Roomy
               PROVE  Wi!NoOverlap(Wi!ComputeLayout(window_room))
                      /\ Wi!AllInWindow(Wi!ComputeLayout(window_room))
    BY DEF Wi!PartsStayApart, Wi!layout
  <1> DEFINE r == window_room
  <1>1. IsRoom(r)
    BY RoomIs
  <1>2. /\ Wi!BannerHeight(r.termW) \in {2, 8} /\ r.termW >= 15
        /\ Wi!BannerHeight(r.termW) + 6 <= r.termH /\ 8 <= r.termH
    BY <1>1 DEF Wi!Roomy, Wi!BlockRow, Wi!BannerHeight, Wi!shortBannerRows, Wi!bannerRows,
                Wi!scanLabelRows, Wi!minLogRows, IsRoom
  <1>3. ASSUME NEW a, IsAttempt(a, r)
        PROVE  /\ IsRoom(a) /\ a.head \in {2, 8} /\ a.foot \in {0, 3} /\ a.head + 6 <= a.termH
               /\ a.termW >= 15
    BY <1>2, <1>3 DEF IsAttempt
  <1>4. Placed(Wi!ComputeLayout(r))
    <2>1. IsAttempt(Wi!Attempts(r)[1], r) /\ Wi!Attempts(r)[1].foot = 3
      BY <1>1, AttemptsAre
    <2>2. Placed(Wi!PlaceWithoutCode(Wi!Attempts(r)[1]))
      BY <1>3, <2>1, WithoutCodeIsPlaced
    <2>3. ASSUME NEW a, IsAttempt(a, r), Wi!FitsSideBySide(a) PROVE Placed(Wi!PlaceSideBySide(a))
      BY <1>3, <2>3, SideBySideIsPlaced
    <2>4. ASSUME NEW a, IsAttempt(a, r), Wi!FitsStacked(a) PROVE Placed(Wi!PlaceStacked(a))
      BY <1>3, <2>4, StackedIsPlaced
    <2>5. QED
      BY <1>1, <2>2, <2>3, <2>4, LayoutIsOneOf
  <1>5. QED
    BY <1>4, PlacedIsApart

\* The fourth attempt asks the least: what fits in any of them fits in it.
LEMMA LastAttemptFits ==
  ASSUME NEW r, IsRoom(r), NEW q, IsRoom(q), NEW a, IsAttempt(a, r), NEW b, IsAttempt(b, q),
         b.head = 2, b.foot = 0, q.termW >= r.termW, q.termH >= r.termH, q.qrW = r.qrW,
         q.qrH = r.qrH, q.gridH = r.gridH, Wi!FitsSideBySide(a) \/ Wi!FitsStacked(a)
  PROVE  Wi!FitsSideBySide(b) \/ Wi!FitsStacked(b)
  <1>1. /\ a.head >= b.head /\ a.foot >= b.foot /\ a.termW <= b.termW /\ a.termH <= b.termH
        /\ a.qrW = b.qrW /\ a.qrH = b.qrH /\ a.gridH = b.gridH /\ IsRoom(a) /\ IsRoom(b)
    BY DEF IsAttempt, Wi!BannerHeight, Wi!shortBannerRows, Wi!bannerRows
  <1>2. Wi!LastDrawableRow(a.termH) <= Wi!LastDrawableRow(b.termH)
        /\ Wi!LastDrawableRow(a.termH) \in Int /\ Wi!LastDrawableRow(b.termH) \in Int
    BY <1>1 DEF Wi!LastDrawableRow, Wi!Most, Wi!minLogRows, IsRoom
  <1>3. CASE Wi!FitsSideBySide(a)
    BY <1>1, <1>2, <1>3 DEF Wi!FitsSideBySide, Wi!BlockRow, Wi!scanLabelRows, Wi!qrIndent, Wi!gap,
       Wi!minGridWidth, Wi!Most, IsRoom
  <1>4. CASE Wi!FitsStacked(a)
    BY <1>1, <1>2, <1>4 DEF Wi!FitsStacked, Wi!BlockRow, Wi!scanLabelRows, Wi!qrIndent, IsRoom
  <1>5. QED
    BY <1>3, <1>4

\* A layout has its code only if one of the attempts fits, and has it if the last one does.
LEMMA CodeShown ==
  ASSUME NEW r, IsRoom(r)
  PROVE  /\ Wi!ComputeLayout(r).qrBoxH > 0 =>
              \E a : IsAttempt(a, r) /\ (Wi!FitsSideBySide(a) \/ Wi!FitsStacked(a))
         /\ Wi!FitsSideBySide(Wi!Attempts(r)[4]) \/ Wi!FitsStacked(Wi!Attempts(r)[4]) =>
              Wi!ComputeLayout(r).qrBoxH > 0
  <1>1. \A i \in 1 .. 4 : IsAttempt(Wi!Attempts(r)[i], r)
    BY AttemptsAre
  <1>2. Wi!PlaceWithoutCode(Wi!Attempts(r)[1]).qrBoxH = 0
    BY <1>1, WithoutCodeIs DEF IsAttempt, Shape
  <1>3. ASSUME NEW a, IsAttempt(a, r), Wi!FitsSideBySide(a) PROVE Wi!PlaceSideBySide(a).qrBoxH > 0
    BY <1>3, SideBySideIs DEF IsAttempt, IsRoom, Shape, Wi!FitsSideBySide
  <1>4. ASSUME NEW a, IsAttempt(a, r), Wi!FitsStacked(a) PROVE Wi!PlaceStacked(a).qrBoxH > 0
    BY <1>4, StackedIs DEF IsAttempt, IsRoom, Shape, Wi!FitsStacked
  <1>5. CASE \E a : /\ IsAttempt(a, r)
                   /\ \/ Wi!FitsSideBySide(a) /\ Wi!ComputeLayout(r) = Wi!PlaceSideBySide(a)
                      \/ Wi!FitsStacked(a) /\ Wi!ComputeLayout(r) = Wi!PlaceStacked(a)
    BY <1>3, <1>4, <1>5
  <1>6. QED
    BY <1>2, <1>5, LayoutIsOneOf

LEMMA CodeStays ==
  ASSUME NEW r, IsRoom(r), NEW q, IsRoom(q), q.termW >= r.termW, q.termH >= r.termH,
         q.qrW = r.qrW, q.qrH = r.qrH, q.gridH = r.gridH, Wi!ComputeLayout(r).qrBoxH > 0
  PROVE  Wi!ComputeLayout(q).qrBoxH > 0
  <1>2. PICK a : IsAttempt(a, r) /\ (Wi!FitsSideBySide(a) \/ Wi!FitsStacked(a))
    BY CodeShown
  <1> DEFINE b == Wi!Attempts(q)[4]
  <1>3. IsAttempt(b, q) /\ b.head = 2 /\ b.foot = 0
    BY AttemptsAre
  <1>4. Wi!FitsSideBySide(b) \/ Wi!FitsStacked(b)
    <2> HIDE DEF b
    <2>1. QED
      BY <1>2, <1>3, LastAttemptFits
  <1>5. QED
    BY <1>4, CodeShown

LEMMA WindowStep == Wi!TypeOK /\ [Wi!Next]_(Wi!vars) => Wi!TypeOK'
  <1> SUFFICES ASSUME Wi!TypeOK, [Wi!Next]_(Wi!vars) PROVE Wi!TypeOK'
    OBVIOUS
  <1> DEFINE Wide == {c[1] : c \in WindowCodes}
             High == {c[2] : c \in WindowCodes}
             R == [termW : Widths, termH : Heights, qrW : Wide, qrH : High, gridH : Grids,
                   head : {0}, foot : {0}]
  <1>1. Wi!Rooms = R
    BY DEF Wi!Rooms
  <1>2. CASE Wi!Drag
    <2>1. PICK dw, dh \in {-1, 0, 1} :
            /\ window_room.termW + dw \in Widths /\ window_room.termH + dh \in Heights
            /\ window_room' = [[window_room EXCEPT !.termW = window_room.termW + dw]
                                 EXCEPT !.termH = window_room.termH + dh]
      BY <1>2 DEF Wi!Drag
    <2> HIDE DEF Wide, High
    <2>2. window_room' \in R
      BY <1>1, <2>1 DEF Wi!TypeOK
    <2>3. QED
      BY <1>1, <2>2 DEF Wi!TypeOK
  <1>3. CASE Wi!ShowQR
    <2>1. PICK c \in WindowCodes :
            window_room' = [[window_room EXCEPT !.qrW = c[1]] EXCEPT !.qrH = c[2]]
      BY <1>3 DEF Wi!ShowQR
    <2>2. c[1] \in Wide /\ c[2] \in High
      OBVIOUS
    <2> HIDE DEF Wide, High
    <2>3. window_room' \in R
      BY <1>1, <2>1, <2>2 DEF Wi!TypeOK
    <2>4. QED
      BY <1>1, <2>3 DEF Wi!TypeOK
  <1>4. CASE UNCHANGED window_room
    BY <1>4 DEF Wi!TypeOK
  <1>5. QED
    BY <1>2, <1>3, <1>4 DEF Wi!Next, Wi!vars

\* A window that grows keeps the code it had.
LEMMA GrowingStep ==
  Wi!ConstantsOK /\ Wi!TypeOK /\ Wi!TypeOK' =>
    (window_room'.termW >= window_room.termW /\ window_room'.termH >= window_room.termH
       /\ window_room'.qrW = window_room.qrW /\ window_room'.qrH = window_room.qrH
       /\ window_room'.gridH = window_room.gridH /\ Wi!layout.qrBoxH > 0 => Wi!layout'.qrBoxH > 0)
  <1> SUFFICES ASSUME Wi!ConstantsOK, Wi!TypeOK, Wi!TypeOK',
                      window_room'.termW >= window_room.termW,
                      window_room'.termH >= window_room.termH,
                      window_room'.qrW = window_room.qrW, window_room'.qrH = window_room.qrH,
                      window_room'.gridH = window_room.gridH, Wi!layout.qrBoxH > 0
               PROVE  Wi!layout'.qrBoxH > 0
    OBVIOUS
  <1>1. IsRoom(window_room)
    BY RoomIs
  <1>2. IsRoom(window_room')
    <2>1. \A r : r \in Wi!Rooms => IsRoom(r)
      BY RoomsAre
    <2>2. QED
      BY <2>1 DEF Wi!TypeOK
  <1>3. Wi!layout = Wi!ComputeLayout(window_room) /\ Wi!layout' = Wi!ComputeLayout(window_room')
    BY DEF Wi!layout
  <1>4. Wi!ComputeLayout(window_room).qrBoxH > 0
    BY <1>3
  <1>5. Wi!ComputeLayout(window_room').qrBoxH > 0
    BY <1>1, <1>2, <1>4, CodeStays
  <1>6. QED
    BY <1>3, <1>5

\* No two parts of the dashboard share a place in any window with room for its header and
\* log, whatever the sizes of the code and the grid; and a window that grows keeps its
\* code.  (layout.go: computeLayout.)
THEOREM WindowsHold ==
  ASSUME Wi!ConstantsOK
  PROVE  Wi!Spec => []Wi!TypeOK /\ []Wi!PartsStayApart /\ Wi!GrowingKeepsTheCode
  <1>1. Wi!Init => Wi!TypeOK
    BY DEF Wi!Init, Wi!TypeOK
  <1>2. Wi!TypeOK /\ Wi!TypeOK' /\ [Wi!Next]_(Wi!vars) =>
          [window_room'.termW >= window_room.termW /\ window_room'.termH >= window_room.termH
             /\ window_room'.qrW = window_room.qrW /\ window_room'.qrH = window_room.qrH
             /\ window_room'.gridH = window_room.gridH
             /\ Wi!layout.qrBoxH > 0 => Wi!layout'.qrBoxH > 0]_(Wi!vars)
    BY GrowingStep
  <1>3. QED
    BY <1>1, <1>2, WindowStep, PartsApart, PTL DEF Wi!Spec, Wi!GrowingKeepsTheCode

-----------------------------------------------------------------------------
(***************************************************************************)
(* Pairing: what is shown, and what a phone is handed.  Addresses come out *)
(* of a list of lists, so the lists come first; induction is by the least  *)
(* of the numbers for which something fails.                               *)
(***************************************************************************)
\* Induction along an interval, on the set of the numbers for which something holds.
LEMMA Upward ==
  ASSUME NEW n \in Nat, NEW T, 0 \in T, \A i \in 1 .. n : i - 1 \in T => i \in T
  PROVE  \A i \in 0 .. n : i \in T
  <1>. DEFINE Bad == {i \in 0 .. n : i \notin T}
  <1>1. SUFFICES ASSUME Bad # {} PROVE FALSE
    OBVIOUS
  <1>2. PICK i \in Bad : \A j \in Bad : ~(<<j, i>> \in OpToRel(<, Nat))
    <2>1. Bad \subseteq Nat
      OBVIOUS
    <2>2. ASSUME NEW B, B \subseteq Nat, B # {}
          PROVE  \E k \in B : \A j \in B : ~(<<j, k>> \in OpToRel(<, Nat))
      BY <2>2, NatLessThanWellFounded, WFMin
    <2>. HIDE DEF Bad
    <2>3. QED
      BY <1>1, <2>1, <2>2
  <1>3. i \in 1 .. n /\ i \notin T
    <2>1. i \in 0 .. n /\ i \notin T
      BY <1>2
    <2>2. QED
      BY <2>1
  <1>4. i - 1 \in 0 .. n /\ i - 1 < i /\ i - 1 \in Nat /\ i \in Nat
    BY <1>3
  <1>5. <<i - 1, i>> \in OpToRel(<, Nat)
    BY <1>4 DEF OpToRel
  <1>6. i - 1 \in T
    BY <1>2, <1>4, <1>5
  <1>7. QED
    BY <1>3, <1>6

\* A function that is worked out one after another.
WorkedOut(f, b, G, n) == f[0] = b /\ \A i \in 1 .. n : f[i] = G[i][f[i - 1]]

\* What is worked out one after another exists.
LEMMA Recursion ==
  ASSUME NEW n \in Nat, NEW V, NEW b \in V, NEW G, G \in [1 .. n -> [V -> V]]
  PROVE  \E f \in [0 .. n -> V] : WorkedOut(f, b, G, n)
  <1>. DEFINE Grown(k, f) == WorkedOut(f, b, G, k)
              T == {k \in 0 .. n : \E f \in [0 .. k -> V] : Grown(k, f)}
  <1>1. 0 \in T
    <2>. DEFINE g == [i \in 0 .. 0 |-> b]
    <2>1. g \in [0 .. 0 -> V]
      OBVIOUS
    <2>2. g[0] = b /\ 1 .. 0 = {}
      OBVIOUS
    <2>3. Grown(0, g)
      BY <2>2 DEF WorkedOut
    <2>4. 0 \in 0 .. n
      OBVIOUS
    <2>. HIDE DEF g, Grown
    <2>5. QED
      BY <2>1, <2>3, <2>4
  <1>2. ASSUME NEW i \in 1 .. n, i - 1 \in T PROVE i \in T
    <2>1. PICK f \in [0 .. i - 1 -> V] : Grown(i - 1, f)
      BY <1>2
    <2>. DEFINE g == [j \in 0 .. i |-> IF j = i THEN G[i][f[i - 1]] ELSE f[j]]
    <2>2. f[i - 1] \in V /\ G[i][f[i - 1]] \in V
      OBVIOUS
    <2>3. g \in [0 .. i -> V]
      BY <2>2
    <2>4. g[0] = b
      BY <2>1 DEF WorkedOut
    <2>5. ASSUME NEW j \in 1 .. i PROVE g[j] = G[j][g[j - 1]]
      <3>1. j - 1 \in 0 .. i - 1 /\ j - 1 # i /\ j - 1 \in 0 .. i /\ j \in 0 .. i
        OBVIOUS
      <3>2. g[j - 1] = f[j - 1]
        BY <3>1
      <3>3. g[j] = IF j = i THEN G[i][f[i - 1]] ELSE f[j]
        BY <3>1
      <3>. HIDE DEF g
      <3>4. CASE j = i
        BY <3>2, <3>3, <3>4
      <3>5. CASE j # i
        <4>1. j \in 1 .. i - 1 /\ g[j] = f[j]
          BY <3>3, <3>5
        <4>2. QED
          BY <2>1, <3>2, <4>1 DEF WorkedOut
      <3>6. QED
        BY <3>4, <3>5
    <2>6. Grown(i, g)
      BY <2>4, <2>5 DEF WorkedOut
    <2>7. i \in 0 .. n
      OBVIOUS
    <2>. HIDE DEF g, Grown
    <2>8. QED
      BY <2>3, <2>6, <2>7
  <1>3. n \in T
    <2>. HIDE DEF T
    <2>1. n \in 0 .. n
      OBVIOUS
    <2>2. QED
      BY <1>1, <1>2, <2>1, Upward
  <1>4. QED
    BY <1>3

\* ... and there is one of them.
InStep(f, g, n) == f[0] = g[0] /\ \A i \in 1 .. n : f[i - 1] = g[i - 1] => f[i] = g[i]
Equal(f, g, n) == \A i \in 0 .. n : f[i] = g[i]

LEMMA OneResult ==
  ASSUME NEW n \in Nat, NEW f, NEW g, InStep(f, g, n) PROVE Equal(f, g, n)
  <1>. DEFINE T == {i \in 0 .. n : f[i] = g[i]}
  <1>1. 0 \in T /\ \A i \in 1 .. n : i - 1 \in T => i \in T
    BY DEF InStep
  <1>. HIDE DEF T
  <1>2. \A i \in 0 .. n : i \in T
    BY <1>1, Upward
  <1>3. QED
    BY <1>2 DEF T, Equal

\* A sequence of sequences is flattened one after another.
Flattens(f, seqs) ==
  /\ f[0] = <<>>
  /\ \A i \in 1 .. Len(seqs) : f[i] = f[i - 1] \o seqs[i]
  /\ Pa!FlattenSeq(seqs) = f[Len(seqs)]

LEMMA FlattenedInTurn ==
  ASSUME NEW A, NEW seqs \in Seq(Seq(A))
  PROVE  \E f \in [0 .. Len(seqs) -> Seq(A)] : Flattens(f, seqs)
  <1>. DEFINE n == Len(seqs)
              V == Seq(A)
              G == [i \in 1 .. n |-> [x \in V |-> x \o seqs[i]]]
  <1>1. n \in Nat /\ (\A i \in 1 .. n : seqs[i] \in V) /\ <<>> \in V
    BY LenProperties
  <1>2. G \in [1 .. n -> [V -> V]]
    <2>1. ASSUME NEW i \in 1 .. n, NEW x \in V PROVE x \o seqs[i] \in V
      BY <1>1, ConcatProperties
    <2>2. QED
      BY <2>1
  <1>3. \A i \in 1 .. n, x \in V : G[i][x] = x \o seqs[i]
    OBVIOUS
  <1>4. \E f \in [0 .. n -> V] : WorkedOut(f, <<>>, G, n)
    <2>. HIDE DEF G, n, V
    <2>1. QED
      BY <1>1, <1>2, Recursion
  <1>5. PICK f \in [0 .. n -> V] : f[0] = <<>> /\ \A i \in 1 .. n : f[i] = G[i][f[i - 1]]
    <2>. HIDE DEF G, n, V
    <2>1. QED
      BY <1>4 DEF WorkedOut
  <1>6. ASSUME NEW i \in 1 .. n PROVE f[i - 1] \in V /\ f[i] = f[i - 1] \o seqs[i]
    <2>. HIDE DEF G, n, V
    <2>1. i - 1 \in 0 .. n
      BY <1>1
    <2>2. f[i - 1] \in V
      BY <1>5, <2>1
    <2>3. QED
      BY <1>3, <1>5, <2>2
  <1>7. Pa!FlattenSeq(seqs) = f[n]
    <2>1. CASE n = 0
      <3>1. Pa!FlattenSeq(seqs) = seqs /\ seqs = <<>>
        BY <2>1 DEF Pa!FlattenSeq
      <3>2. QED
        BY <1>5, <2>1, <3>1
    <2>2. CASE n # 0
      <3>. DEFINE Grown(g) == [i \in 1 .. n |-> IF i = 1 THEN seqs[i] ELSE g[i - 1] \o seqs[i]]
                  up == CHOOSE g : g = Grown(g)
                  h == [i \in 1 .. n |-> f[i]]
                  e == [i \in 0 .. n |-> IF i = 0 THEN <<>> ELSE up[i]]
      <3>. HIDE DEF V, G
      <3>1. 1 \in 1 .. n /\ n \in 1 .. n /\ n \in 0 .. n /\ n # 0
        BY <1>1, <2>2
      <3>2. f[1] = seqs[1]
        <4>1. f[1] = <<>> \o seqs[1]
          <5>1. f[1] = f[1 - 1] \o seqs[1]
            BY <1>6, <3>1
          <5>2. f[1 - 1] = <<>>
            BY <1>5
          <5>3. QED
            BY <5>1, <5>2
        <4>2. seqs[1] \in Seq(A)
          BY <1>1, <3>1 DEF V
        <4>3. QED
          BY <4>1, <4>2, ConcatEmptySeq
      <3>3. h = Grown(h)
        <4>1. ASSUME NEW i \in 1 .. n PROVE h[i] = Grown(h)[i]
          <5>1. CASE i = 1
            BY <3>2, <5>1
          <5>2. CASE i # 1
            <6>1. i - 1 \in 1 .. n
              BY <1>1, <5>2
            <6>2. h[i - 1] = f[i - 1] /\ Grown(h)[i] = h[i - 1] \o seqs[i] /\ h[i] = f[i]
              BY <5>2, <6>1
            <6>3. QED
              BY <1>6, <6>2
          <5>3. QED
            BY <5>1, <5>2
        <4>2. Grown(h) = [i \in 1 .. n |-> Grown(h)[i]] /\ h = [i \in 1 .. n |-> h[i]]
          OBVIOUS
        <4>. HIDE DEF Grown, h
        <4>3. QED
          BY <4>1, <4>2
      <3>4. up = Grown(up)
        <4>. HIDE DEF Grown, h
        <4>1. QED
          BY <3>3
      <3>5. Pa!FlattenSeq(seqs) = up[n]
        BY <2>2 DEF Pa!FlattenSeq, n
      <3>. HIDE DEF up, n
      <3>6. \A i \in 1 .. n : up[i] = Grown(up)[i]
        <4>. HIDE DEF Grown
        <4>1. QED
          BY <3>4
      <3>7. ASSUME NEW i \in 1 .. n, e[i - 1] = f[i - 1] PROVE e[i] = f[i]
        <4>1. i \in 0 .. n /\ i # 0 /\ i - 1 \in 0 .. n
          BY <1>1
        <4>2. e[i] = up[i]
          BY <4>1
        <4>3. CASE i = 1
          <5>1. up[i] = seqs[1]
            BY <3>6, <4>3
          <5>2. QED
            BY <3>2, <4>2, <4>3, <5>1
        <4>4. CASE i # 1
          <5>1. i - 1 # 0
            BY <4>4
          <5>2. e[i - 1] = up[i - 1]
            BY <4>1, <5>1
          <5>3. up[i] = up[i - 1] \o seqs[i]
            BY <3>6, <4>4
          <5>4. QED
            BY <1>6, <3>7, <4>2, <5>2, <5>3
        <4>5. QED
          BY <4>3, <4>4
      <3>8. e[0] = <<>>
        <4>1. 0 \in 0 .. n
          BY <1>1
        <4>2. QED
          BY <4>1
      <3>9. e[n] = up[n]
        BY <3>1
      <3>. HIDE DEF e
      <3>10. InStep(e, f, n)
        BY <1>5, <3>7, <3>8 DEF InStep
      <3>11. e[n] = f[n]
        BY <1>1, <3>1, <3>10, OneResult DEF Equal
      <3>12. QED
        BY <3>5, <3>9, <3>11
    <2>3. QED
      BY <2>1, <2>2
  <1>8. Flattens(f, seqs)
    BY <1>5, <1>6, <1>7 DEF Flattens
  <1>9. QED
    BY <1>8

LEMMA FlatIs == ASSUME NEW A, NEW seqs \in Seq(Seq(A)) PROVE Pa!FlattenSeq(seqs) \in Seq(A)
  <1>1. PICK f \in [0 .. Len(seqs) -> Seq(A)] : Flattens(f, seqs)
    BY FlattenedInTurn
  <1>2. Len(seqs) \in 0 .. Len(seqs)
    BY LenProperties
  <1>3. QED
    BY <1>1, <1>2 DEF Flattens

Address == Pa!SomeAddresses \cup {Pa!Loopback}
Bars == [urls : Seq(Address), shown : Nat, rawKey : Keys, qr : Seq(Pa!Targets)]

BarOK(b) == b \in Bars /\ b.shown \in DOMAIN b.urls /\ DOMAIN b.qr = DOMAIN b.urls

PairingInv ==
  /\ pairing_network \in Networks /\ pairing_key \in Keys
  /\ pairing_port \in Ports \cup {0} /\ pairing_remembered \in Ports \cup {0}
  /\ IF pairing_port = 0 THEN pairing_bar = Pa!NoBar ELSE BarOK(pairing_bar)
  /\ pairing_typed = Pa!NotTyped \/ pairing_typed.shown \in Pa!Targets
  /\ \A i \in DOMAIN pairing_given : pairing_given[i] \in Pa!Targets
  /\ pairing_events \in 0 .. PairingEvents
  /\ Pa!QrCarriesTheKey

LEMMA SeqOf ==
  ASSUME NEW A, NEW B, NEW s \in Seq(A), \A i \in 1 .. Len(s) : s[i] \in B
  PROVE  s \in Seq(B)
  <1>1. Len(s) \in Nat /\ s \in [1 .. Len(s) -> B]
    BY LenProperties
  <1>2. QED
    BY <1>1 

\* There is always an address to show.
LEMMA LocalAddresses ==
  ASSUME Pa!ConstantsOK, NEW n \in Networks
  PROVE  Pa!LocalIPs(n) \in Seq(Address) /\ 1 \in DOMAIN Pa!LocalIPs(n)
  <1>. DEFINE seqs == [i \in DOMAIN n |-> Pa!Reachable(n[i])]
  <1>1. n \in Seq([kind : STRING, addrs : Seq(Seq(0 .. 255))])
    BY DEF Pa!ConstantsOK
  <1>2. Len(n) \in Nat /\ DOMAIN n = 1 .. Len(n)
    BY <1>1, LenProperties
  <1>3. ASSUME NEW i \in 1 .. Len(n) PROVE Pa!Reachable(n[i]) \in Seq(Pa!SomeAddresses)
    <2>1. n[i] \in [kind : STRING, addrs : Seq(Seq(0 .. 255))] /\ n[i] \in Pa!Interfaces
      <3>1. n[i] \in [kind : STRING, addrs : Seq(Seq(0 .. 255))]
        BY <1>1, <1>3, ElementOfSeq
      <3>2. n[i] \in Pa!Interfaces
        BY <1>2, <1>3 DEF Pa!Interfaces
      <3>3. QED
        BY <3>1, <3>2
    <2>2. n[i].addrs \in Seq(Seq(0 .. 255))
      BY <2>1
    <2>3. \A j \in 1 .. Len(n[i].addrs) : n[i].addrs[j] \in Pa!SomeAddresses
      <3>1. DOMAIN n[i].addrs = 1 .. Len(n[i].addrs)
        BY <2>2, LenProperties
      <3>. DEFINE of(x) == {x.addrs[j] : j \in DOMAIN x.addrs}
      <3>2. \A j \in 1 .. Len(n[i].addrs) : n[i].addrs[j] \in of(n[i])
        BY <3>1
      <3>3. Pa!SomeAddresses = UNION {of(x) : x \in Pa!Interfaces}
        BY DEF Pa!SomeAddresses
      <3>. HIDE DEF of
      <3>4. of(n[i]) \in {of(x) : x \in Pa!Interfaces}
        BY <2>1
      <3>5. \A a \in of(n[i]) : a \in UNION {of(x) : x \in Pa!Interfaces}
        BY <3>4
      <3>6. of(n[i]) \subseteq Pa!SomeAddresses
        BY <3>3, <3>5
      <3>7. QED
        BY <3>2, <3>6
    <2>4. n[i].addrs \in Seq(Pa!SomeAddresses)
      <3>. DEFINE addrs == n[i].addrs
                  A == Seq(0 .. 255)
      <3>1. addrs \in Seq(A) /\ \A j \in 1 .. Len(addrs) : addrs[j] \in Pa!SomeAddresses
        BY <2>2, <2>3
      <3>. HIDE DEF addrs, A
      <3>2. addrs \in Seq(Pa!SomeAddresses)
        BY <3>1, SeqOf
      <3>3. QED
        BY <3>2 DEF addrs
    <2>5. <<>> \in Seq(Pa!SomeAddresses)
      OBVIOUS
    <2>6. QED
      BY <2>4, <2>5 DEF Pa!Reachable
  <1>4. seqs \in Seq(Seq(Pa!SomeAddresses))
    BY <1>2, <1>3
  <1>. DEFINE ips == Pa!FlattenSeq(seqs)
  <1>5. ips \in Seq(Pa!SomeAddresses) /\ Pa!LocalIPs(n) = (IF ips = <<>> THEN <<Pa!Loopback>> ELSE ips)
    <2>1. ips \in Seq(Pa!SomeAddresses)
      <3>. HIDE DEF seqs
      <3>1. QED
        BY <1>4, FlatIs
    <2>2. QED
      BY <2>1 DEF Pa!LocalIPs
  <1>. HIDE DEF ips, seqs
  <1>6. CASE ips = <<>>
    <2>1. Pa!Loopback \in Address
      BY DEF Address
    <2>2. Pa!LocalIPs(n) = <<Pa!Loopback>>
      BY <1>5, <1>6
    <2>3. QED
      BY <2>1, <2>2
  <1>7. CASE ips # <<>>
    <2>1. Pa!LocalIPs(n) = ips
      BY <1>5, <1>7
    <2>2. \A i \in 1 .. Len(ips) : ips[i] \in Address
      BY <1>5, ElementOfSeq DEF Address
    <2>3. ips \in Seq(Address)
      BY <1>5, <2>2, SeqOf
    <2>4. Len(ips) \in Nat /\ Len(ips) # 0 /\ DOMAIN ips = 1 .. Len(ips)
      BY <1>5, <1>7, EmptySeq, LenProperties
    <2>5. QED
      BY <2>1, <2>3, <2>4
  <1>8. QED
    BY <1>6, <1>7

\* The codes of some addresses are of them, of the port and of the key.
LEMMA Rendered ==
  ASSUME NEW urls \in Seq(Address), NEW p \in Ports, NEW k \in Keys
  PROVE  /\ Pa!Render(urls, p, k) \in Seq(Pa!Targets) /\ DOMAIN Pa!Render(urls, p, k) = DOMAIN urls
         /\ \A i \in DOMAIN urls : Pa!Render(urls, p, k)[i] = Pa!Target(urls[i], p, k)
  <1>1. DOMAIN urls = 1 .. Len(urls) /\ Len(urls) \in Nat
    BY LenProperties
  <1>2. ASSUME NEW i \in 1 .. Len(urls) PROVE Pa!Target(urls[i], p, k) \in Pa!Targets
    <2>1. urls[i] \in Address
      BY <1>2, ElementOfSeq
    <2>2. QED
      BY <2>1 DEF Pa!Target, Pa!Targets, Address
  <1>3. Pa!Render(urls, p, k) = [i \in 1 .. Len(urls) |-> Pa!Target(urls[i], p, k)]
    BY <1>1 DEF Pa!Render
  <1>4. QED
    BY <1>1, <1>2, <1>3

LEMMA BarIs ==
  ASSUME PairingInv, pairing_port # 0
  PROVE  /\ pairing_port \in Ports /\ BarOK(pairing_bar)
         /\ pairing_bar.urls \in Seq(Address) /\ pairing_bar.rawKey \in Keys
         /\ \A i \in DOMAIN pairing_bar.urls : pairing_bar.urls[i] \in Address
  <1>1. pairing_port \in Ports /\ BarOK(pairing_bar)
    BY DEF PairingInv
  <1>2. pairing_bar.urls \in Seq(Address) /\ pairing_bar.rawKey \in Keys
    BY <1>1 DEF BarOK, Bars
  <1>3. DOMAIN pairing_bar.urls = 1 .. Len(pairing_bar.urls)
    BY <1>2, LenProperties
  <1>4. QED
    BY <1>1, <1>2, <1>3, ElementOfSeq

LEMMA PairingInit == ASSUME Pa!ConstantsOK, Pa!Init PROVE PairingInv
  <1>1. /\ pairing_network \in Networks /\ pairing_key \in Keys /\ pairing_port = 0
        /\ pairing_remembered = 0 /\ pairing_bar = Pa!NoBar /\ pairing_typed = Pa!NotTyped
        /\ pairing_given = <<>> /\ pairing_events = 0
    BY DEF Pa!Init
  <1>2. PairingEvents \in Nat
    BY DEF Pa!ConstantsOK
  <1>3. Pa!QrCarriesTheKey
    <2>1. pairing_bar.qr = <<>>
      BY <1>1 DEF Pa!NoBar
    <2>2. DOMAIN pairing_bar.qr = {}
      BY <2>1
    <2>3. QED
      BY <2>2 DEF Pa!QrCarriesTheKey
  <1>4. DOMAIN pairing_given = {}
    BY <1>1
  <1>5. QED
    BY <1>1, <1>2, <1>3, <1>4 DEF PairingInv

LEMMA CountedOn == ASSUME Pa!ConstantsOK, PairingInv, Pa!Count PROVE pairing_events' \in 0 .. PairingEvents
  BY DEF Pa!ConstantsOK, PairingInv, Pa!Count

LEMMA StartsOK ==
  ASSUME Pa!ConstantsOK, PairingInv, NEW asked \in Ports \cup {0}, NEW busy, Pa!Start(asked, busy)
  PROVE  PairingInv'
  <1>1. pairing_events' \in 0 .. PairingEvents
    BY CountedOn DEF Pa!Start
  <1>2. pairing_port' \in Ports /\ pairing_remembered' = pairing_port' /\ pairing_port' # 0
    <2>1. pairing_port' \in Pa!Bind(asked, busy) /\ pairing_remembered' = pairing_port'
      BY DEF Pa!Start
    <2>2. pairing_remembered \in Ports \cup {0}
      BY DEF PairingInv
    <2>3. pairing_port' \in Ports
      BY <2>1, <2>2 DEF Pa!Bind
    <2>4. QED
      BY <2>1, <2>3 DEF Pa!ConstantsOK
  <1>. DEFINE urls == Pa!LocalIPs(pairing_network)
              qr == Pa!Render(urls, pairing_port', pairing_key)
  <1>3. /\ pairing_bar' = [urls |-> urls, shown |-> 1, rawKey |-> pairing_key, qr |-> qr]
        /\ pairing_network' = pairing_network /\ pairing_key' = pairing_key
        /\ pairing_typed' = pairing_typed /\ pairing_given' = pairing_given
    BY DEF Pa!Start
  <1>4. pairing_network \in Networks /\ pairing_key \in Keys
    BY DEF PairingInv
  <1>5. urls \in Seq(Address) /\ 1 \in DOMAIN urls
    BY <1>4, LocalAddresses
  <1>. HIDE DEF urls
  <1>6. qr \in Seq(Pa!Targets) /\ DOMAIN qr = DOMAIN urls
        /\ \A i \in DOMAIN urls : qr[i] = Pa!Target(urls[i], pairing_port', pairing_key)
    BY <1>2, <1>4, <1>5, Rendered
  <1>. HIDE DEF qr
  <1>7. BarOK(pairing_bar')
    BY <1>3, <1>4, <1>5, <1>6 DEF BarOK, Bars
  <1>8. Pa!QrCarriesTheKey'
    <2>1. pairing_bar'.qr = qr
      BY <1>3
    <2>2. \A i \in DOMAIN qr : qr[i].key = pairing_key /\ qr[i].port = pairing_port'
      BY <1>6 DEF Pa!Target
    <2>3. QED
      BY <1>3, <2>1, <2>2 DEF Pa!QrCarriesTheKey
  <1>9. QED
    BY <1>1, <1>2, <1>3, <1>4, <1>7, <1>8
       DEF PairingInv, BarOK, Bars, Address, Pa!NotTyped, Pa!Targets, Pa!SomeAddresses, Pa!Interfaces,
           Pa!Loopback, Pa!NotACode

LEMMA RotatesOK ==
  ASSUME Pa!ConstantsOK, PairingInv, NEW k \in Keys, Pa!RotateKey(k) PROVE PairingInv'
  <1>1. pairing_events' \in 0 .. PairingEvents
    BY CountedOn DEF Pa!RotateKey
  <1>. DEFINE qr == Pa!Render(pairing_bar.urls, pairing_port, k)
  <1>2. /\ pairing_port # 0 /\ pairing_key' = k /\ pairing_bar' = [pairing_bar EXCEPT !.qr = qr]
        /\ pairing_network' = pairing_network /\ pairing_port' = pairing_port
        /\ pairing_remembered' = pairing_remembered
        /\ pairing_typed' = pairing_typed /\ pairing_given' = pairing_given
    BY DEF Pa!RotateKey, Pa!Rekey
  <1>3. pairing_port \in Ports /\ BarOK(pairing_bar) /\ pairing_bar.urls \in Seq(Address)
    BY <1>2, BarIs
  <1>4. qr \in Seq(Pa!Targets) /\ DOMAIN qr = DOMAIN pairing_bar.urls
        /\ \A i \in DOMAIN pairing_bar.urls : qr[i] = Pa!Target(pairing_bar.urls[i], pairing_port, k)
    BY <1>3, Rendered
  <1>. HIDE DEF qr
  <1>5. BarOK(pairing_bar') /\ pairing_bar'.qr = qr
    <2>1. pairing_bar \in Bars
      BY <1>3 DEF BarOK
    <2>2. /\ pairing_bar' \in Bars /\ pairing_bar'.qr = qr
          /\ pairing_bar'.urls = pairing_bar.urls /\ pairing_bar'.shown = pairing_bar.shown
      BY <1>2, <1>4, <2>1 DEF Bars
    <2>3. QED
      BY <1>3, <1>4, <2>2 DEF BarOK
  <1>6. Pa!QrCarriesTheKey'
    <2>1. \A i \in DOMAIN qr : qr[i].key = k /\ qr[i].port = pairing_port
      <3>1. \A u : Pa!Target(u, pairing_port, k).key = k /\ Pa!Target(u, pairing_port, k).port = pairing_port
        BY DEF Pa!Target
      <3>2. QED
        BY <1>4, <3>1
    <2>2. QED
      BY <1>2, <1>5, <2>1 DEF Pa!QrCarriesTheKey
  <1>7. QED
    BY <1>1, <1>2, <1>5, <1>6
       DEF PairingInv, BarOK, Bars, Address, Pa!NotTyped, Pa!Targets, Pa!SomeAddresses, Pa!Interfaces,
           Pa!Loopback, Pa!NotACode

\* The steps that leave the codes as they are.
LEMMA CodesStay ==
  ASSUME PairingInv, pairing_network' \in Networks, pairing_key' = pairing_key, pairing_port' = pairing_port,
         pairing_remembered' = pairing_remembered, pairing_events' \in 0 .. PairingEvents,
         pairing_bar' = pairing_bar
           \/ \E i \in DOMAIN pairing_bar.urls : pairing_port # 0 /\ pairing_bar' = [pairing_bar EXCEPT !.shown = i],
         pairing_typed' = pairing_typed \/ pairing_typed'.shown \in Pa!Targets,
         pairing_given' = pairing_given \/ \A i \in DOMAIN pairing_given' : pairing_given'[i] \in Pa!Targets
  PROVE  PairingInv'
  <1>1. IF pairing_port = 0 THEN pairing_bar' = Pa!NoBar ELSE BarOK(pairing_bar')
    <2>1. CASE pairing_bar' = pairing_bar
      BY <2>1 DEF PairingInv
    <2>2. CASE \E i \in DOMAIN pairing_bar.urls : pairing_port # 0 /\ pairing_bar' = [pairing_bar EXCEPT !.shown = i]
      <3>1. PICK i \in DOMAIN pairing_bar.urls : pairing_port # 0 /\ pairing_bar' = [pairing_bar EXCEPT !.shown = i]
        BY <2>2
      <3>2. BarOK(pairing_bar) /\ pairing_bar.urls \in Seq(Address)
        BY <3>1, BarIs
      <3>3. i \in Nat
        BY <3>2, LenProperties
      <3>4. QED
        BY <3>1, <3>2, <3>3 DEF BarOK, Bars
    <2>3. QED
      BY <2>1, <2>2
  <1>2. pairing_bar'.qr = pairing_bar.qr
    <2>1. CASE pairing_bar' = pairing_bar
      BY <2>1
    <2>2. CASE \E i \in DOMAIN pairing_bar.urls : pairing_port # 0 /\ pairing_bar' = [pairing_bar EXCEPT !.shown = i]
      <3>1. pairing_bar \in Bars
        BY <2>2, BarIs DEF BarOK
      <3>2. QED
        BY <2>2, <3>1 DEF Bars
    <2>3. QED
      BY <2>1, <2>2
  <1>3. Pa!QrCarriesTheKey'
    BY <1>2 DEF PairingInv, Pa!QrCarriesTheKey
  <1>4. pairing_typed' = Pa!NotTyped \/ pairing_typed'.shown \in Pa!Targets
    BY DEF PairingInv
  <1>5. \A i \in DOMAIN pairing_given' : pairing_given'[i] \in Pa!Targets
    BY DEF PairingInv
  <1>6. QED
    BY <1>1, <1>3, <1>4, <1>5
       DEF PairingInv, BarOK, Bars, Address, Pa!NotTyped, Pa!Targets, Pa!SomeAddresses, Pa!Interfaces,
           Pa!Loopback, Pa!NotACode

LEMMA StopsOK == ASSUME Pa!ConstantsOK, PairingInv, Pa!Stop PROVE PairingInv'
  <1>1. pairing_events' \in 0 .. PairingEvents
    BY CountedOn DEF Pa!Stop
  <1>2. /\ pairing_port' = 0 /\ pairing_bar' = Pa!NoBar
        /\ pairing_network' = pairing_network /\ pairing_key' = pairing_key
        /\ pairing_remembered' = pairing_remembered
        /\ pairing_typed' = pairing_typed /\ pairing_given' = pairing_given
    BY DEF Pa!Stop
  <1>3. Pa!QrCarriesTheKey'
    <2>1. pairing_bar'.qr = <<>>
      BY <1>2 DEF Pa!NoBar
    <2>2. DOMAIN pairing_bar'.qr = {}
      BY <2>1
    <2>3. QED
      BY <2>2 DEF Pa!QrCarriesTheKey
  <1>4. QED
    BY <1>1, <1>2, <1>3
       DEF PairingInv, BarOK, Bars, Address, Pa!NotTyped, Pa!Targets, Pa!SomeAddresses, Pa!Interfaces,
           Pa!Loopback, Pa!NotACode, Pa!NoBar

LEMMA TypesIt ==
  ASSUME Pa!ConstantsOK, PairingInv, NEW zero, NEW one, NEW spaced, Pa!Type(zero, one, spaced)
  PROVE  PairingInv'
  <1>1. pairing_events' \in 0 .. PairingEvents /\ pairing_port # 0
    BY CountedOn DEF Pa!Type
  <1>2. pairing_typed'.shown = Pa!Shown
    BY DEF Pa!Type
  <1>3. Pa!Shown \in Pa!Targets
    <2>1. pairing_bar.shown \in DOMAIN pairing_bar.urls
      BY <1>1, BarIs DEF BarOK
    <2>2. pairing_bar.urls[pairing_bar.shown] \in Address /\ pairing_port \in Ports /\ pairing_bar.rawKey \in Keys
      BY <1>1, <2>1, BarIs
    <2>3. QED
      BY <2>2 DEF Pa!Shown, Pa!Target, Pa!Targets, Address
  <1>4. /\ pairing_network' = pairing_network /\ pairing_port' = pairing_port
        /\ pairing_remembered' = pairing_remembered /\ pairing_key' = pairing_key
        /\ pairing_bar' = pairing_bar /\ pairing_given' = pairing_given
    BY DEF Pa!Type
  <1>5. pairing_network \in Networks
    BY DEF PairingInv
  <1>6. QED
    BY <1>1, <1>2, <1>3, <1>4, <1>5, CodesStay

\* A phone that pairs is handed what it could dial.
LEMMA PairsOK ==
  ASSUME Pa!ConstantsOK, PairingInv, NEW t, Pa!Pair(t)
  PROVE  PairingInv' /\ \A i \in DOMAIN pairing_given' : Pa!Dials(pairing_given'[i])
  <1>. DEFINE ips == Pa!LocalIPs(pairing_network)
  <1>1. pairing_events' \in 0 .. PairingEvents /\ pairing_port # 0
    BY CountedOn DEF Pa!Pair, Pa!Dials
  <1>2. pairing_network \in Networks /\ pairing_key \in Keys /\ pairing_port \in Ports
    BY <1>1, BarIs DEF PairingInv
  <1>3. ips \in Seq(Address)
    BY <1>2, LocalAddresses
  <1>4. pairing_given' = [i \in DOMAIN ips |-> Pa!Target(ips[i], pairing_port, pairing_key)]
    BY DEF Pa!Pair, Pa!Addresses
  <1>5. ASSUME NEW i \in DOMAIN ips
        PROVE  /\ Pa!Target(ips[i], pairing_port, pairing_key) \in Pa!Targets
               /\ Pa!Dials(Pa!Target(ips[i], pairing_port, pairing_key))
    <2>1. ips[i] \in Address
      <3>. HIDE DEF ips
      <3>1. i \in 1 .. Len(ips)
        BY <1>3, <1>5, LenProperties
      <3>2. QED
        BY <1>3, <3>1, ElementOfSeq
    <2>2. Pa!Target(ips[i], pairing_port, pairing_key) \in Pa!Targets
      BY <1>2, <2>1 DEF Pa!Target, Pa!Targets, Address
    <2>3. Pa!Dials(Pa!Target(ips[i], pairing_port, pairing_key))
      BY <1>1 DEF Pa!Dials, Pa!Target
    <2>4. QED
      BY <2>2, <2>3
  <1>. HIDE DEF ips
  <1>6. \A i \in DOMAIN pairing_given' : pairing_given'[i] \in Pa!Targets /\ Pa!Dials(pairing_given'[i])
    BY <1>4, <1>5
  <1>7. /\ pairing_network' = pairing_network /\ pairing_port' = pairing_port
        /\ pairing_remembered' = pairing_remembered /\ pairing_key' = pairing_key
        /\ pairing_bar' = pairing_bar /\ pairing_typed' = pairing_typed
    BY DEF Pa!Pair
  <1>8. PairingInv'
    BY <1>1, <1>2, <1>6, <1>7, CodesStay
  <1>9. QED
    BY <1>6, <1>8

LEMMA PairingStep ==
  ASSUME Pa!ConstantsOK, PairingInv, [Pa!Next]_(Pa!vars)
  PROVE  PairingInv' /\ \A i \in DOMAIN pairing_given' : pairing_given' = pairing_given \/ Pa!Dials(pairing_given'[i])
  <1>0. pairing_network \in Networks /\ pairing_events \in 0 .. PairingEvents
    BY DEF PairingInv
  <1>1. ASSUME NEW asked \in Ports \cup {0}, NEW busy, Pa!Start(asked, busy)
        PROVE  PairingInv' /\ pairing_given' = pairing_given
    BY <1>1, StartsOK DEF Pa!Start
  <1>2. CASE Pa!Stop
    BY <1>2, StopsOK DEF Pa!Stop
  <1>3. ASSUME NEW n \in Networks, Pa!Move(n) PROVE PairingInv' /\ pairing_given' = pairing_given
    <2>1. /\ pairing_network' \in Networks /\ pairing_port' = pairing_port
          /\ pairing_remembered' = pairing_remembered /\ pairing_key' = pairing_key
          /\ pairing_bar' = pairing_bar /\ pairing_typed' = pairing_typed /\ pairing_given' = pairing_given
      BY <1>3 DEF Pa!Move
    <2>2. pairing_events' \in 0 .. PairingEvents
      BY <1>3, CountedOn DEF Pa!Move
    <2>3. QED
      BY <2>1, <2>2, CodesStay
  <1>4. ASSUME NEW k \in Keys, Pa!RotateKey(k) PROVE PairingInv' /\ pairing_given' = pairing_given
    BY <1>4, RotatesOK DEF Pa!RotateKey
  <1>5. ASSUME NEW i, Pa!ShowQR(i) PROVE PairingInv' /\ pairing_given' = pairing_given
    <2>1. /\ pairing_network' = pairing_network /\ pairing_port' = pairing_port
          /\ pairing_remembered' = pairing_remembered /\ pairing_key' = pairing_key
          /\ i \in DOMAIN pairing_bar.urls /\ pairing_port # 0
          /\ pairing_bar' = [pairing_bar EXCEPT !.shown = i]
          /\ pairing_typed' = pairing_typed /\ pairing_given' = pairing_given
      BY <1>5 DEF Pa!ShowQR
    <2>2. pairing_events' \in 0 .. PairingEvents
      BY <1>5, CountedOn DEF Pa!ShowQR
    <2>3. QED
      BY <1>0, <2>1, <2>2, CodesStay
  <1>6. ASSUME NEW zero, NEW one, NEW spaced, Pa!Type(zero, one, spaced)
        PROVE  PairingInv' /\ pairing_given' = pairing_given
    BY <1>6, TypesIt DEF Pa!Type
  <1>7. CASE UNCHANGED Pa!vars
    <2>1. /\ pairing_network' = pairing_network /\ pairing_port' = pairing_port
          /\ pairing_remembered' = pairing_remembered /\ pairing_key' = pairing_key
          /\ pairing_bar' = pairing_bar /\ pairing_typed' = pairing_typed
          /\ pairing_given' = pairing_given /\ pairing_events' = pairing_events
      BY <1>7 DEF Pa!vars
    <2>2. QED
      BY <1>0, <2>1, CodesStay
  <1>8. QED
    BY <1>1, <1>2, <1>3, <1>4, <1>5, <1>6, <1>7, PairsOK DEF Pa!Next

\* No code on screen is of a key or a port that is over, whichever is shown and whatever the
\* networks and keys; and a phone that pairs is handed addresses at which it finds the
\* laptop there and then.  (rekeyQR, renderQRCodes, SetAddresses.)
THEOREM PairingHolds ==
  ASSUME Pa!ConstantsOK
  PROVE  Pa!Spec => []Pa!TypeOK /\ []Pa!QrCarriesTheKey /\ Pa!GivenAddressesAnswer
  <1>1. PairingInv /\ [Pa!Next]_(Pa!vars) => PairingInv'
    BY PairingStep
  <1>2. PairingInv /\ [Pa!Next]_(Pa!vars)
          => [\A i \in DOMAIN pairing_given' : pairing_given' = pairing_given \/ Pa!Dials(pairing_given'[i])]_(Pa!vars)
    BY PairingStep
  <1>3. ASSUME PairingInv PROVE Pa!TypeOK /\ Pa!QrCarriesTheKey
    <2>1. pairing_bar = Pa!NoBar \/ BarOK(pairing_bar)
      BY <1>3 DEF PairingInv
    <2>2. ASSUME BarOK(pairing_bar)
          PROVE  /\ pairing_bar.shown \in DOMAIN pairing_bar.urls /\ pairing_bar.rawKey \in Keys
                 /\ DOMAIN pairing_bar.qr = DOMAIN pairing_bar.urls
                 /\ \A i \in DOMAIN pairing_bar.qr : pairing_bar.qr[i] \in Pa!Targets
      <3>1. pairing_bar.qr \in Seq(Pa!Targets)
        BY <2>2 DEF BarOK, Bars
      <3>2. \A i \in DOMAIN pairing_bar.qr : pairing_bar.qr[i] \in Pa!Targets
        BY <3>1, LenProperties, ElementOfSeq
      <3>3. QED
        BY <2>2, <3>2 DEF BarOK, Bars
    <2>3. QED
      BY <1>3, <2>1, <2>2 DEF PairingInv, Pa!TypeOK
  <1>4. QED
    BY <1>1, <1>2, <1>3, PairingInit, PTL DEF Pa!Spec, Pa!GivenAddressesAnswer

-----------------------------------------------------------------------------
(***************************************************************************)
(* The six of them in one behaviour of the rules.                         *)
(***************************************************************************)
\* A behaviour of the rules is one of each of its parts, which starts as the part does
\* and takes its steps or none.
LEMMA PartsOfTheRules == AllSpec => Tr!Spec /\ Mo!Spec /\ De!Spec /\ Sc!Spec /\ Wi!Spec /\ Pa!Spec
  <1>1. AllInit => Tr!Init /\ Mo!Init /\ De!Init /\ Sc!Init /\ Wi!Init /\ Pa!Init
    BY DEF AllInit
  <1>2. [AllNext]_all => [Tr!Next]_Tr!vars
    BY DEF AllNext, all, trackerVars, Tr!vars
  <1>3. [AllNext]_all => [Mo!Next]_Mo!vars
    BY DEF AllNext, all, motionVars, Mo!vars
  <1>4. [AllNext]_all => [De!Next]_De!vars
    BY DEF AllNext, all, detectorsVars, De!vars
  <1>5. [AllNext]_all => [Sc!Next]_Sc!vars
    BY DEF AllNext, all, screenVars, Sc!vars
  <1>6. [AllNext]_all => [Wi!Next]_Wi!vars
    BY DEF AllNext, all, windowVars, Wi!vars
  <1>7. [AllNext]_all => [Pa!Next]_Pa!vars
    BY DEF AllNext, all, pairingVars, Pa!vars
  <1>8. QED
    BY <1>1, <1>2, <1>3, <1>4, <1>5, <1>6, <1>7, PTL
       DEF AllSpec, Tr!Spec, Mo!Spec, De!Spec, Sc!Spec, Wi!Spec, Pa!Spec

\* The position is looked up with the watch and stops with it, a run speaks once more at
\* most, and what the phones are shown and the alarm of a machine that was moved are true,
\* while one person has the phone.  (tracker.go, hub.go: StartTracking, StopTracking.)
THEOREM LocationIsTrueHolds == ASSUME OneUser PROVE AllSpec => []LocationIsTrue
  <1>1. Tr!ConstantsOK
    BY RulesConstants
  <1>2. AllSpec => []Tr!LocationIsTrue
    BY <1>1, PartsOfTheRules, PositionWithTheWatch, PTL
  <1>3. Tr!LocationIsTrue => LocationIsTrue
    BY DEF LocationIsTrue
  <1>4. QED
    BY <1>2, <1>3, PTL

\* Every alert of a detector is of an event its readings hold, and every event they hold
\* is alerted once; motion is alerted only while the watch is on, once a watch, and on the
\* readings it asks for.  (internal/monitor.)
THEOREM AlertsAreEventsHolds == AllSpec => []AlertsAreEvents
  <1>1. Mo!ConstantsOK /\ De!ConstantsOK
    BY RulesConstants
  <1>2. AllSpec => []De!AlertsAreEvents /\ []Mo!MotionIsReal
    BY <1>1, PartsOfTheRules, DetectorsAlertOnEvents, MotionAlertsAreReal, PTL
  <1>3. De!AlertsAreEvents /\ Mo!MotionIsReal => AlertsAreEvents
    BY DEF AlertsAreEvents
  <1>4. QED
    BY <1>2, <1>3, PTL

\* The dashboard is one drawing, nothing in it is drawn over what is typed, its parts have
\* places of their own, a code is dropped only for want of room, and the terminal is given
\* back.  (terminal.go, main.go, layout.go.)
THEOREM ScreenIsWholeHolds == AllSpec => ScreenIsWhole
  <1>1. Sc!ConstantsOK /\ Wi!ConstantsOK
    BY RulesConstants
  <1>2. AllSpec => []Sc!TerminalIsKept /\ Sc!HandedBackIsQuiet
    BY <1>1, PartsOfTheRules, TerminalKept, PTL
  <1>3. AllSpec => []Wi!PartsStayApart /\ Wi!GrowingKeepsTheCode
    BY <1>1, PartsOfTheRules, WindowsHold, PTL
  <1>4. QED
    BY <1>2, <1>3, PTL DEF ScreenIsWhole

-----------------------------------------------------------------------------
(***************************************************************************)
(* Lockout, for any number of addresses, any policy, any size of the table *)
(* and any clock.                                                          *)
(*                                                                         *)
(* LockedForItsOwn needs to know where a record's count came from: Charged *)
(* says that every failure in it is a wrong guess in the history.          *)
(***************************************************************************)
USE PolicyIsPositive, ClockIsBounded

NewRecord == [failures |-> 0, until |-> 0, seen |-> now]
SeenAgain(r) == [r EXCEPT !.seen = now]

Charged == \A h \in DOMAIN table : table[h].failures <= Len(tries[h])

LInv == TypeOK /\ TableIsBounded /\ Charged /\ LockedForItsOwn

-----------------------------------------------------------------------------
(***************************************************************************)
(* What record leaves of the table.                                        *)
(***************************************************************************)
LEMMA NowIsATime ==
  ASSUME TypeOK
  PROVE  /\ now \in Nat /\ now \in Time /\ now + Period \in Time
         /\ 0 \in Time /\ 0 \in 0 .. MaxAttempts - 1
         /\ \A x \in Time : x \in Nat
  BY DEF TypeOK, Time

LEMMA RecordsAreAttempts ==
  ASSUME TypeOK, NEW g \in DOMAIN table
  PROVE  table[g] \in Attempts
  BY DEF TypeOK

LEMMA EvictableIsSome ==
  ASSUME NEW E \in Evictable
  PROVE  E \subseteq DOMAIN table /\ E # {}
  <1>1. CASE Stale # {}
    BY <1>1 DEF Evictable, Stale
  <1>2. CASE Stale = {} /\ Unlocked # {}
    BY <1>2 DEF Evictable, LeastRecentlySeen, Unlocked
  <1>3. CASE Stale = {} /\ Unlocked = {}
    BY <1>3 DEF Evictable, SoonestOut
  <1>4. QED
    BY <1>1, <1>2, <1>3

\* A record that was there is only seen again.
LEMMA RecordedKnown ==
  ASSUME NEW h \in DOMAIN table, NEW t \in Recorded(h)
  PROVE  t = [table EXCEPT ![h] = SeenAgain(table[h])]
  BY DEF Recorded, SeenAgain

\* One that was not is fresh, and of the others some are kept as they are.
Keeps(h, t, K) ==
  /\ t = [g \in K \cup {h} |-> IF g = h THEN NewRecord ELSE table[g]]
  /\ \/ K = DOMAIN table /\ Cardinality(DOMAIN table) < TableSize
     \/ \E E \in Evictable : /\ K = DOMAIN table \ E
                             /\ Cardinality(DOMAIN table) >= TableSize

LEMMA RecordedNew ==
  ASSUME TypeOK, NEW h \in Hosts, h \notin DOMAIN table, NEW t \in Recorded(h)
  PROVE  \E K \in SUBSET DOMAIN table : Keeps(h, t, K)
  <1>1. Cardinality(DOMAIN table) \in Nat
    BY HostsAreFinite, FS_Subset, FS_CardinalityType DEF TypeOK
  <1>2. CASE Cardinality(DOMAIN table) < TableSize
    BY <1>2 DEF Recorded, NewRecord, Keeps
  <1>3. CASE ~(Cardinality(DOMAIN table) < TableSize)
    <2>1. PICK K \in {DOMAIN table \ E : E \in Evictable} :
            t = [g \in K \cup {h} |-> IF g = h THEN NewRecord ELSE table[g]]
      BY <1>3 DEF Recorded, NewRecord
    <2>2. Cardinality(DOMAIN table) >= TableSize
      BY <1>1, <1>3
    <2>3. QED
      BY <2>1, <2>2 DEF Keeps
  <1>4. QED
    BY <1>2, <1>3

\* All that the other lemmas need of it.
LEMMA RecordedShape ==
  ASSUME TypeOK, NEW h \in Hosts, NEW t \in Recorded(h)
  PROVE  /\ h \in DOMAIN t /\ DOMAIN t \subseteq DOMAIN table \cup {h}
         /\ t = [g \in DOMAIN t |-> t[g]]
         /\ \A g \in DOMAIN t : g # h => t[g] = table[g]
         /\ h \in DOMAIN table => /\ DOMAIN t = DOMAIN table
                                  /\ t[h] = SeenAgain(table[h])
         /\ h \notin DOMAIN table => t[h] = NewRecord
  <1>1. CASE h \in DOMAIN table
    <2>1. t = [table EXCEPT ![h] = SeenAgain(table[h])]
      BY <1>1, RecordedKnown
    <2>2. table = [g \in DOMAIN table |-> table[g]]
      BY DEF TypeOK
    <2>3. DOMAIN t = DOMAIN table /\ t[h] = SeenAgain(table[h])
          /\ \A g \in DOMAIN table : g # h => t[g] = table[g]
      BY <1>1, <2>1, <2>2
    <2>4. t = [g \in DOMAIN t |-> t[g]]
      BY <2>1, <2>2
    <2>5. QED
      BY <1>1, <2>3, <2>4
  <1>2. CASE h \notin DOMAIN table
    <2>1. PICK K \in SUBSET DOMAIN table : Keeps(h, t, K)
      BY <1>2, RecordedNew
    <2>2. DOMAIN t = K \cup {h} /\ h \notin K
      BY <1>2, <2>1 DEF Keeps
    <2>3. \A g \in DOMAIN t : t[g] = IF g = h THEN NewRecord ELSE table[g]
      BY <2>1, <2>2 DEF Keeps
    <2>4. t = [g \in DOMAIN t |-> t[g]]
      BY <2>1, <2>2 DEF Keeps
    <2>5. QED
      BY <1>2, <2>2, <2>3, <2>4
  <1>3. QED
    BY <1>1, <1>2

LEMMA RecordedType ==
  ASSUME TypeOK, NEW h \in Hosts, NEW t \in Recorded(h)
  PROVE  DOMAIN t \subseteq Hosts /\ t \in [DOMAIN t -> Attempts]
  <1>1. NewRecord \in Attempts
    BY NowIsATime DEF NewRecord, Attempts
  <1>2. \A g \in DOMAIN t : t[g] \in Attempts
    <2>1. TAKE g \in DOMAIN t
    <2>2. CASE g # h
      <3>1. g \in DOMAIN table /\ t[g] = table[g]
        BY <2>1, <2>2, RecordedShape
      <3>2. QED
        BY <3>1, RecordsAreAttempts
    <2>3. CASE g = h /\ h \in DOMAIN table
      <3>1. t[g] = SeenAgain(table[h]) /\ table[h] \in Attempts
        BY <2>3, RecordedShape, RecordsAreAttempts
      <3>2. QED
        BY <3>1, NowIsATime DEF Attempts, SeenAgain
    <2>4. CASE g = h /\ h \notin DOMAIN table
      BY <2>4, RecordedShape, <1>1
    <2>5. QED
      BY <2>2, <2>3, <2>4
  <1>3. t = [g \in DOMAIN t |-> t[g]] /\ DOMAIN t \subseteq DOMAIN table \cup {h}
    BY RecordedShape
  <1>4. QED
    BY <1>2, <1>3 DEF TypeOK

LEMMA RecordedBounded ==
  ASSUME TypeOK, TableIsBounded, NEW h \in Hosts, NEW t \in Recorded(h)
  PROVE  IsFiniteSet(DOMAIN t) /\ Cardinality(DOMAIN t) <= TableSize
  <1>1. IsFiniteSet(DOMAIN table) /\ Cardinality(DOMAIN table) \in Nat
    BY HostsAreFinite, FS_Subset, FS_CardinalityType DEF TypeOK
  <1>2. CASE h \in DOMAIN table
    BY <1>1, <1>2, RecordedShape DEF TableIsBounded
  <1>3. CASE h \notin DOMAIN table
    <2>1. PICK K \in SUBSET DOMAIN table : Keeps(h, t, K)
      BY <1>3, RecordedNew
    <2>2. IsFiniteSet(K) /\ Cardinality(K) \in Nat
      BY <1>1, FS_Subset, FS_CardinalityType
    <2>3. Cardinality(K) < TableSize
      <3>1. CASE K = DOMAIN table /\ Cardinality(DOMAIN table) < TableSize
        BY <3>1
      <3>2. CASE \E E \in Evictable : K = DOMAIN table \ E
        <4>1. K # DOMAIN table
          BY <3>2, EvictableIsSome
        <4>2. Cardinality(K) <= Cardinality(DOMAIN table)
              /\ Cardinality(K) # Cardinality(DOMAIN table)
          BY <1>1, <4>1, FS_Subset
        <4>3. QED
          BY <1>1, <2>2, <4>2 DEF TableIsBounded
      <3>3. QED
        BY <2>1, <3>1, <3>2 DEF Keeps
    <2>4. DOMAIN t = K \cup {h} /\ h \notin K
      BY <1>3, <2>1 DEF Keeps
    <2>5. IsFiniteSet(DOMAIN t) /\ Cardinality(DOMAIN t) = Cardinality(K) + 1
      BY <2>2, <2>4, FS_AddElement
    <2>6. QED
      BY <2>2, <2>3, <2>5
  <1>4. QED
    BY <1>2, <1>3

-----------------------------------------------------------------------------
(***************************************************************************)
(* What the history leaves of an address's guesses.                        *)
(***************************************************************************)
LEMMA RecentProperties ==
  ASSUME NEW s \in Seq(Time)
  PROVE  /\ Recent(s) \in Seq(Time)
         /\ Len(Recent(s)) = IF Len(s) > MaxAttempts THEN MaxAttempts ELSE Len(s)
  <1> DEFINE lo == IF Len(s) > MaxAttempts THEN Len(s) - MaxAttempts + 1 ELSE 1
  <1>1. Len(s) \in Nat /\ lo \in Int /\ Len(s) \in Int
    BY LenProperties
  <1>2. \A i \in lo .. Len(s) : s[i] \in Time
    BY <1>1, ElementOfSeq
  <1>3. Recent(s) = SubSeq(s, lo, Len(s))
    BY DEF Recent
  <1>4. /\ SubSeq(s, lo, Len(s)) \in Seq(Time)
        /\ Len(SubSeq(s, lo, Len(s))) = IF lo <= Len(s) THEN Len(s) - lo + 1 ELSE 0
    BY <1>1, <1>2, SubSeqProperties
  <1>5. lo <= Len(s) => Len(s) - lo + 1 = IF Len(s) > MaxAttempts THEN MaxAttempts ELSE Len(s)
    BY <1>1
  <1>6. ~(lo <= Len(s)) => Len(s) = 0
    BY <1>1
  <1> HIDE DEF lo
  <1>7. Recent(s) \in Seq(Time)
    BY <1>3, <1>4
  <1>8. Len(Recent(s)) = IF lo <= Len(s) THEN Len(s) - lo + 1 ELSE 0
    BY <1>3, <1>4
  <1>9. Len(Recent(s)) = IF Len(s) > MaxAttempts THEN MaxAttempts ELSE Len(s)
    <2>1. CASE lo <= Len(s)
      BY <1>5, <1>8, <2>1
    <2>2. CASE ~(lo <= Len(s))
      <3>1. Len(s) = 0 /\ ~(Len(s) > MaxAttempts)
        BY <1>6, <2>2
      <3>2. Len(Recent(s)) = 0
        BY <1>8, <2>2
      <3>3. QED
        BY <3>1, <3>2
    <2>3. QED
      BY <2>1, <2>2
  <1>10. QED
    BY <1>7, <1>9

\* A wrong guess is the last of the history, which holds what the record charges
\* for and this one.
LEMMA GuessAppended ==
  ASSUME TypeOK, NEW s \in Seq(Time)
  PROVE  LET n == Append(Recent(s), now) IN
           /\ n \in Seq(Time) /\ n[Len(n)] = now
           /\ Len(n) = 1 + IF Len(s) > MaxAttempts THEN MaxAttempts ELSE Len(s)
  <1>1. Len(Recent(s)) \in Nat
    BY RecentProperties, LenProperties
  <1>2. QED
    BY SMTT(30), <1>1, RecentProperties, NowIsATime, AppendProperties

LEMMA HistoryType ==
  ASSUME TypeOK, NEW t, NEW h \in Hosts, NEW new \in Seq(Time), History(t, h, new)
  PROVE  /\ tries' \in [Hosts -> Seq(Time)] /\ tries'[h] = new
         /\ \A g \in DOMAIN t \cap Hosts : g # h => tries'[g] = tries[g]
  BY DEF TypeOK, History, Forgotten

\* What the invariant says of an address holds of what record left, too.
Own(t, g) ==
  /\ Len(tries[g]) >= MaxAttempts
  /\ tries[g][Len(tries[g])] = t[g].until - Period

LEMMA RecordedKeeps ==
  ASSUME LInv, NEW h \in Hosts, NEW t \in Recorded(h)
  PROVE  \A g \in DOMAIN t : /\ t[g].failures <= Len(tries[g])
                             /\ now < t[g].until => Own(t, g)
  <1>1. TAKE g \in DOMAIN t
  <1>2. g \in Hosts /\ tries[g] \in Seq(Time) /\ Len(tries[g]) \in Nat
    BY RecordedType, LenProperties DEF LInv, TypeOK
  <1>3. CASE g \in DOMAIN table
    <2>1. t[g].failures = table[g].failures /\ t[g].until = table[g].until
      <3>1. CASE g # h
        BY <3>1, RecordedShape DEF LInv
      <3>2. CASE g = h
        <4>1. t[g] = SeenAgain(table[g]) /\ table[g] \in Attempts
          BY <1>3, <3>2, RecordedShape, RecordsAreAttempts DEF LInv
        <4>2. QED
          BY <4>1 DEF SeenAgain, Attempts
      <3>3. QED
        BY <3>1, <3>2
    <2>2. table[g].failures <= Len(tries[g])
      BY <1>3 DEF LInv, Charged
    <2>3. now < table[g].until => Own(table, g)
      BY <1>3 DEF LInv, LockedForItsOwn, Locked, LockedIn, Own
    <2>4. QED
      BY <2>1, <2>2, <2>3 DEF Own
  <1>4. CASE g \notin DOMAIN table
    <2>1. g = h /\ t[g] = NewRecord
      BY <1>1, <1>4, RecordedShape DEF LInv
    <2>2. t[g].failures = 0 /\ t[g].until = 0
      BY <2>1 DEF NewRecord
    <2>3. QED
      BY <1>2, <2>2, NowIsATime DEF LInv
  <1>5. QED
    BY <1>3, <1>4

-----------------------------------------------------------------------------
(***************************************************************************)
(* The steps.                                                              *)
(***************************************************************************)
LEMMA RefusedStep ==
  ASSUME LInv, NEW h \in Hosts, Refused(h)
  PROVE  LInv'
  <1>1. PICK t \in Recorded(h) :
          table' = t /\ History(t, h, tries[h]) /\ now' = now
    BY DEF Refused
  <1>2. DOMAIN t \subseteq Hosts /\ t \in [DOMAIN t -> Attempts]
    BY RecordedType DEF LInv
  <1>3. tries' \in [Hosts -> Seq(Time)] /\ \A g \in DOMAIN t : tries'[g] = tries[g]
    BY <1>1, <1>2, HistoryType DEF LInv, TypeOK
  <1>4. TypeOK'
    BY <1>1, <1>2, <1>3 DEF LInv, TypeOK
  <1>5. TableIsBounded'
    BY <1>1, RecordedBounded DEF LInv, TableIsBounded
  <1>6. Charged'
    BY <1>1, <1>3, RecordedKeeps DEF Charged
  <1>7. LockedForItsOwn'
    BY <1>1, <1>3, RecordedKeeps DEF LockedForItsOwn, Locked, LockedIn, Own
  <1>8. QED
    BY <1>4, <1>5, <1>6, <1>7 DEF LInv

LEMMA RightStep ==
  ASSUME LInv, NEW h \in Hosts, Right(h)
  PROVE  LInv'
  <1>1. PICK t \in Recorded(h) : /\ table' = [g \in DOMAIN t \ {h} |-> t[g]]
                                 /\ History(t, h, <<>>) /\ now' = now
    BY DEF Right
  <1>2. DOMAIN t \subseteq Hosts /\ t \in [DOMAIN t -> Attempts]
    BY RecordedType DEF LInv
  <1>3. /\ tries' \in [Hosts -> Seq(Time)]
        /\ \A g \in DOMAIN table' : tries'[g] = tries[g] /\ table'[g] = t[g]
        /\ DOMAIN table' = DOMAIN t \ {h}
    <2>1. <<>> \in Seq(Time)
      BY EmptySeq
    <2>2. /\ tries' \in [Hosts -> Seq(Time)]
          /\ \A g \in DOMAIN t \cap Hosts : g # h => tries'[g] = tries[g]
      BY <1>1, <2>1, HistoryType DEF LInv
    <2>3. DOMAIN table' = DOMAIN t \ {h} /\ \A g \in DOMAIN table' : table'[g] = t[g]
      BY <1>1
    <2>4. QED
      BY <1>2, <2>2, <2>3
  <1>4. TypeOK'
    <2>1. table' \in [DOMAIN table' -> Attempts]
      BY <1>1, <1>2
    <2>2. QED
      BY <1>1, <1>2, <1>3, <2>1 DEF LInv, TypeOK
  <1>5. TableIsBounded'
    <2>1. IsFiniteSet(DOMAIN t) /\ Cardinality(DOMAIN t) <= TableSize
          /\ Cardinality(DOMAIN t) \in Nat
      BY RecordedBounded, FS_CardinalityType DEF LInv
    <2>2. /\ Cardinality(DOMAIN table') <= Cardinality(DOMAIN t)
          /\ Cardinality(DOMAIN table') \in Nat
      BY <1>3, <2>1, FS_Subset, FS_CardinalityType
    <2>3. QED
      BY <2>1, <2>2 DEF TableIsBounded
  <1>6. Charged'
    BY <1>3, RecordedKeeps DEF Charged
  <1>7. LockedForItsOwn'
    BY <1>1, <1>3, RecordedKeeps DEF LockedForItsOwn, Locked, LockedIn, Own
  <1>8. QED
    BY <1>4, <1>5, <1>6, <1>7 DEF LInv

\* What a wrong guess leaves of its own record: one more failure, or none and a
\* lockout from now.
Charge(r) ==
  IF r.failures + 1 >= MaxAttempts
  THEN [r EXCEPT !.failures = 0, !.until = now + Period]
  ELSE [r EXCEPT !.failures = @ + 1]

LEMMA ChargeProperties ==
  ASSUME TypeOK, NEW r \in Attempts
  PROVE  /\ Charge(r) \in Attempts
         /\ Charge(r).failures <= r.failures + 1
         /\ \/ Charge(r).until = r.until
            \/ Charge(r).until = now + Period /\ r.failures + 1 >= MaxAttempts
  <1>1. r.failures \in Nat /\ r.failures <= MaxAttempts - 1
    BY DEF Attempts
  <1>2. CASE r.failures + 1 >= MaxAttempts
    <2>1. Charge(r) = [failures |-> 0, until |-> now + Period, seen |-> r.seen]
      BY <1>2 DEF Charge, Attempts
    <2>2. Charge(r) \in Attempts
      BY <2>1, NowIsATime DEF Attempts
    <2>3. Charge(r).until = now + Period /\ Charge(r).failures = 0
      BY <2>1
    <2>4. QED
      BY <1>1, <1>2, <2>2, <2>3
  <1>3. CASE ~(r.failures + 1 >= MaxAttempts)
    <2>1. Charge(r) = [failures |-> r.failures + 1, until |-> r.until, seen |-> r.seen]
      BY <1>3 DEF Charge, Attempts
    <2>2. r.failures + 1 \in 0 .. MaxAttempts - 1
      BY <1>1, <1>3
    <2>3. Charge(r) \in Attempts
      BY <2>1, <2>2 DEF Attempts
    <2>4. Charge(r).until = r.until /\ Charge(r).failures = r.failures + 1
      BY <2>1
    <2>5. QED
      BY <2>2, <2>3, <2>4
  <1>4. QED
    BY <1>2, <1>3

LEMMA WrongStep ==
  ASSUME LInv, NEW h \in Hosts, Wrong(h)
  PROVE  LInv'
  <1> DEFINE new == Append(Recent(tries[h]), now)
  <1>1. PICK t \in Recorded(h) :
          /\ h \notin LockedIn(t)
          /\ table' = IF t[h].failures + 1 >= MaxAttempts
                      THEN [t EXCEPT ![h].failures = 0, ![h].until = now + Period]
                      ELSE [t EXCEPT ![h].failures = @ + 1]
          /\ History(t, h, new) /\ now' = now
    BY DEF Wrong
  <1>2. DOMAIN t \subseteq Hosts /\ t \in [DOMAIN t -> Attempts] /\ h \in DOMAIN t
    BY RecordedType, RecordedShape DEF LInv
  <1>3. table' = [t EXCEPT ![h] = Charge(t[h])]
    BY <1>1 DEF Charge
  <1>4. /\ DOMAIN table' = DOMAIN t /\ table'[h] = Charge(t[h])
        /\ \A g \in DOMAIN t : g # h => table'[g] = t[g]
    BY <1>2, <1>3
  <1>5. t[h] \in Attempts /\ Charge(t[h]) \in Attempts
    BY <1>2, ChargeProperties DEF LInv
  <1>6. tries[h] \in Seq(Time) /\ Len(tries[h]) \in Nat
    BY LenProperties DEF LInv, TypeOK
  <1>7. /\ new \in Seq(Time) /\ new[Len(new)] = now
        /\ Len(new) = 1 + IF Len(tries[h]) > MaxAttempts THEN MaxAttempts
                                                       ELSE Len(tries[h])
    BY <1>6, GuessAppended DEF LInv
  <1> HIDE DEF new
  <1>8. /\ tries' \in [Hosts -> Seq(Time)] /\ tries'[h] = new
        /\ \A g \in DOMAIN t \cap Hosts : g # h => tries'[g] = tries[g]
    BY <1>1, <1>7, HistoryType DEF LInv
  <1>9. TypeOK'
    <2>1. table' \in [DOMAIN table' -> Attempts]
      BY <1>2, <1>3, <1>5
    <2>2. QED
      BY <1>1, <1>2, <1>4, <1>8, <2>1 DEF LInv, TypeOK
  <1>10. TableIsBounded'
    BY <1>4, RecordedBounded DEF LInv, TableIsBounded
  <1>11. t[h].failures <= Len(tries[h]) /\ t[h].failures \in 0 .. MaxAttempts - 1
    BY <1>2, <1>5, RecordedKeeps DEF Attempts
  <1>12. Charged'
    <2>1. SUFFICES ASSUME NEW g \in DOMAIN table'
                   PROVE  table'[g].failures <= Len(tries'[g])
      BY DEF Charged
    <2>2. CASE g # h
      BY <1>2, <1>4, <1>8, <2>1, <2>2, RecordedKeeps
    <2>3. CASE g = h
      <3>1. Charge(t[h]).failures <= t[h].failures + 1 /\ Charge(t[h]).failures \in Nat
        BY <1>5, ChargeProperties DEF LInv, Attempts
      <3>2. t[h].failures + 1 <= Len(new)
        BY <1>6, <1>7, <1>11
      <3>3. Charge(t[h]).failures <= Len(new)
        BY <1>6, <1>7, <1>11, <3>1, <3>2
      <3>4. QED
        BY <1>4, <1>8, <2>3, <3>3
    <2>4. QED
      BY <2>2, <2>3
  <1>13. LockedForItsOwn'
    <2>1. SUFFICES ASSUME NEW g \in DOMAIN table', now < table'[g].until
                   PROVE  /\ Len(tries'[g]) >= MaxAttempts
                          /\ tries'[g][Len(tries'[g])] = table'[g].until - Period
      BY <1>1 DEF LockedForItsOwn, Locked, LockedIn
    <2>2. CASE g # h
      BY <1>2, <1>4, <1>8, <2>1, <2>2, RecordedKeeps DEF Own
    <2>3. CASE g = h
      <3>1. table'[h].until = now + Period /\ t[h].failures + 1 >= MaxAttempts
        <4>1. ~(now < t[h].until)
          BY <1>1, <1>2 DEF LockedIn
        <4>2. table'[h].until # t[h].until
          BY <2>1, <2>3, <4>1
        <4>3. QED
          BY <1>4, <1>5, <4>2, ChargeProperties DEF LInv
      <3>2. Len(new) >= MaxAttempts
        BY <1>6, <1>7, <1>11, <3>1
      <3>3. now \in Nat
        BY NowIsATime DEF LInv
      <3>4. tries'[g] = new /\ table'[g].until = now + Period
        BY <1>8, <2>3, <3>1
      <3>5. Len(tries'[g]) = Len(new) /\ tries'[g][Len(tries'[g])] = now
        BY <1>7, <3>4
      <3>6. table'[g].until - Period = now
        BY <3>3, <3>4
      <3>7. QED
        BY <3>2, <3>5, <3>6
    <2>4. QED
      BY <2>2, <2>3
  <1>14. QED
    BY <1>9, <1>10, <1>12, <1>13 DEF LInv

LEMMA OtherStep ==
  ASSUME LInv, Regenerate \/ Tick \/ UNCHANGED vars
  PROVE  LInv'
  <1>1. CASE Regenerate
    <2>1. DOMAIN table' = {} /\ table' = [h \in {} |-> 0] /\ now' = now
          /\ tries' = [h \in Hosts |-> <<>>]
      BY <1>1 DEF Regenerate
    <2>2. TypeOK'
      <3>1. table' \in [DOMAIN table' -> Attempts] /\ tries' \in [Hosts -> Seq(Time)]
        BY <2>1, EmptySeq
      <3>2. QED
        BY <2>1, <3>1 DEF LInv, TypeOK
    <2>3. TableIsBounded'
      BY <2>1, FS_EmptySet DEF TableIsBounded
    <2>4. QED
      BY <2>1, <2>2, <2>3 DEF LInv, Charged, LockedForItsOwn, Locked, LockedIn
  <1>2. CASE Tick
    <2>1. TypeOK'
      BY <1>2 DEF LInv, Tick, TypeOK, Time
    <2>2. Locked' \subseteq Locked
      <3>1. \A h \in DOMAIN table : now' < table[h].until => now < table[h].until
        BY <1>2, RecordsAreAttempts, NowIsATime DEF Tick, LInv, Attempts, Time
      <3>2. QED
        BY <1>2, <3>1 DEF Tick, Locked, LockedIn
    <2>3. QED
      BY <1>2, <2>1, <2>2 DEF Tick, LInv, TableIsBounded, Charged, LockedForItsOwn
  <1>3. CASE UNCHANGED vars
    BY <1>3 DEF vars, LInv, TypeOK, TableIsBounded, Charged, LockedForItsOwn, Locked, LockedIn
  <1>4. QED
    BY <1>1, <1>2, <1>3

-----------------------------------------------------------------------------
(***************************************************************************)
(* The theorems.                                                           *)
(***************************************************************************)
\* LInv is inductive: the table keeps its types and its bound, and whatever
\* record charges an address with is a wrong guess of its own.
THEOREM LockoutInvariant == Spec => []LInv
  <1>1. Init => LInv
    <2>1. SUFFICES ASSUME Init PROVE LInv
      OBVIOUS
    <2>2. DOMAIN table = {} /\ table = [h \in {} |-> 0] /\ now = 1
          /\ tries = [h \in Hosts |-> <<>>]
      BY <2>1 DEF Init
    <2>3. TypeOK
      <3>1. table \in [DOMAIN table -> Attempts] /\ tries \in [Hosts -> Seq(Time)]
        BY <2>2, EmptySeq
      <3>2. QED
        BY <2>2, <3>1 DEF TypeOK
    <2>4. TableIsBounded
      BY <2>2, FS_EmptySet DEF TableIsBounded
    <2>5. QED
      BY <2>2, <2>3, <2>4 DEF LInv, Charged, LockedForItsOwn, Locked, LockedIn
  <1>2. LInv /\ [Next]_vars => LInv'
    BY RefusedStep, WrongStep, RightStep, OtherStep DEF Next
  <1>3. QED
    BY <1>1, <1>2, PTL DEF Spec

\* Every reachable state has its types.
THEOREM TypeCorrect == Spec => []TypeOK
  <1>1. LInv => TypeOK
    BY DEF LInv
  <1>2. QED
    BY <1>1, LockoutInvariant, PTL

\* The table never outgrows its bound, whatever addresses the guesses come from.
THEOREM TableIsBoundedHolds == Spec => []TableIsBounded
  <1>1. LInv => TableIsBounded
    BY DEF LInv
  <1>2. QED
    BY <1>1, LockoutInvariant, PTL

\* An address is locked out for its own wrong guesses, counted from the last.
THEOREM LockedForItsOwnHolds == Spec => []LockedForItsOwn
  <1>1. LInv => LockedForItsOwn
    BY DEF LInv
  <1>2. QED
    BY <1>1, LockoutInvariant, PTL

-----------------------------------------------------------------------------
(***************************************************************************)
(* A lockout is the last thing to go.                                      *)
(***************************************************************************)
LEMMA EvictedLock ==
  ASSUME TypeOK, NEW E \in Evictable, NEW h \in E \cap Locked
  PROVE  /\ DOMAIN table \subseteq Locked
         /\ \A g \in DOMAIN table : table[h].until <= table[g].until
  <1>1. h \notin Stale
    <2>1. h \in DOMAIN table /\ now < table[h].until
      BY DEF Locked, LockedIn
    <2>2. now \in Nat /\ table[h].until \in Nat
      BY <2>1, RecordsAreAttempts, NowIsATime DEF Attempts
    <2>3. QED
      BY <2>1, <2>2 DEF Stale
  <1>2. h \notin Unlocked
    BY DEF Unlocked
  <1>3. Stale = {}
    BY <1>1 DEF Evictable
  <1>4. Unlocked = {}
    BY <1>2, <1>3 DEF Evictable, LeastRecentlySeen
  <1>5. h \in SoonestOut
    BY <1>3, <1>4 DEF Evictable
  <1>6. QED
    BY <1>4, <1>5 DEF Unlocked, SoonestOut

\* record drops a lockout only from a full table of them, the soonest over first.
LEMMA RecordedDrops ==
  ASSUME TypeOK, NEW k \in Hosts, NEW t \in Recorded(k), NEW h \in Locked \ DOMAIN t
  PROVE  /\ DOMAIN table \subseteq Locked
         /\ Cardinality(DOMAIN table) >= TableSize
         /\ \A g \in DOMAIN table : table[h].until <= table[g].until
  <1>1. h \in DOMAIN table
    BY DEF Locked, LockedIn
  <1>2. k \notin DOMAIN table
    BY <1>1, RecordedShape
  <1>3. PICK K \in SUBSET DOMAIN table : Keeps(k, t, K)
    BY <1>2, RecordedNew
  <1>4. h \notin K
    BY <1>3 DEF Keeps
  <1>5. PICK E \in Evictable : K = DOMAIN table \ E /\ Cardinality(DOMAIN table) >= TableSize
    BY <1>1, <1>3, <1>4 DEF Keeps
  <1>6. h \in E \cap Locked
    BY <1>1, <1>4, <1>5
  <1>7. QED
    BY <1>5, <1>6, EvictedLock

\* A right guess clears the guesser's own record, which is not a lockout.
LEMMA RightIsUnlocked ==
  ASSUME LInv, NEW k \in Hosts, NEW t \in Recorded(k), k \notin LockedIn(t)
  PROVE  k \notin Locked
  <1>1. SUFFICES ASSUME k \in Locked PROVE FALSE
    OBVIOUS
  <1>2. k \in DOMAIN table /\ now < table[k].until
    BY <1>1 DEF Locked, LockedIn
  <1>3. k \in DOMAIN t /\ t[k] = SeenAgain(table[k]) /\ table[k] \in Attempts
    BY <1>2, RecordedShape, RecordsAreAttempts DEF LInv
  <1>4. t[k].until = table[k].until
    BY <1>3 DEF SeenAgain, Attempts
  <1>5. QED
    BY <1>2, <1>3, <1>4 DEF LockedIn

\* A lockout is given up before its time only to a rotation, or when every address
\* in a full table is serving one, and then it is the one with the least left.
THEOREM LockoutIsLastToGoHolds == Spec => LockoutIsLastToGo
  <1> DEFINE Last(h) == \/ DOMAIN table' = {}
                        \/ /\ DOMAIN table \subseteq Locked
                           /\ Cardinality(DOMAIN table) >= TableSize
                           /\ \A g \in DOMAIN table : table[h].until <= table[g].until
  <1>1. ASSUME LInv, Next, NEW h \in Locked \ DOMAIN table'
        PROVE  Last(h)
    <2>1. h \in DOMAIN table
      BY <1>1 DEF Locked, LockedIn
    <2>2. ASSUME NEW k \in Hosts, Refused(k) PROVE Last(h)
      <3>1. PICK t \in Recorded(k) : table' = t
        BY <2>2 DEF Refused
      <3>2. QED
        BY <1>1, <3>1, RecordedDrops DEF LInv
    <2>3. ASSUME NEW k \in Hosts, Wrong(k) PROVE Last(h)
      <3>1. PICK t \in Recorded(k) :
              table' = IF t[k].failures + 1 >= MaxAttempts
                       THEN [t EXCEPT ![k].failures = 0, ![k].until = now + Period]
                       ELSE [t EXCEPT ![k].failures = @ + 1]
        BY <2>3 DEF Wrong
      <3>2. DOMAIN table' = DOMAIN t
        BY <3>1
      <3>3. QED
        BY <1>1, <3>2, RecordedDrops DEF LInv
    <2>4. ASSUME NEW k \in Hosts, Right(k) PROVE Last(h)
      <3>1. PICK t \in Recorded(k) : /\ k \notin LockedIn(t)
                                     /\ table' = [g \in DOMAIN t \ {k} |-> t[g]]
        BY <2>4 DEF Right
      <3>2. DOMAIN table' = DOMAIN t \ {k} /\ h # k
        BY <1>1, <3>1, RightIsUnlocked
      <3>3. QED
        BY <1>1, <3>2, RecordedDrops DEF LInv
    <2>5. CASE Regenerate
      BY <2>5 DEF Regenerate
    <2>6. CASE Tick
      BY <1>1, <2>1, <2>6 DEF Tick
    <2>7. QED
      BY <1>1, <2>2, <2>3, <2>4, <2>5, <2>6 DEF Next
  <1>2. LInv /\ [Next]_vars => [\A h \in Locked \ DOMAIN table' : Last(h)]_vars
    BY <1>1
  <1>3. QED
    BY <1>2, LockoutInvariant, PTL DEF Spec, LockoutIsLastToGo

\* The table of lockouts, for any number of addresses, attempts and seconds: no larger
\* than it may be, nobody locked out for another's guesses, and nobody let off.
THEOREM LockoutHoldsInEveryRun == Spec => LockoutHolds
  BY TableIsBoundedHolds, LockedForItsOwnHolds, LockoutIsLastToGoHolds, PTL DEF LockoutHolds
-----------------------------------------------------------------------------
(***************************************************************************)
(* The budget of guesses.                                                  *)
(*                                                                         *)
(* The guesses a record does not charge for are a period old, or will be   *)
(* when its lockout is over; those of an address without a record are a    *)
(* period old, for a record is only dropped, with its history kept, when   *)
(* the address was quiet for longer than that.  So when a guess is one too *)
(* many for a period, the first of the stretch is before the stretch.      *)
(***************************************************************************)
Bygone(s) == \A i \in 1 .. Len(s) : s[i] + Period <= now

Spent(s, r) ==
  \A i \in 1 .. Len(s) : i <= Len(s) - r.failures =>
    s[i] + Period <= now \/ s[i] + Period <= r.until

Noticed(s, r) == \A i \in 1 .. Len(s) : s[i] <= r.seen

Spaced(s) ==
  /\ Len(s) <= MaxAttempts + 1
  /\ \A i \in 1 .. Len(s) : s[i] <= now
  /\ Len(s) = MaxAttempts + 1 => s[1] + Period <= s[Len(s)]

BudgetInv ==
  /\ \A h \in Hosts : Spaced(tries[h])
  /\ \A h \in Hosts \ DOMAIN table : Bygone(tries[h])
  /\ \A h \in DOMAIN table : Spent(tries[h], table[h]) /\ Noticed(tries[h], table[h])

LEMMA NothingTried == Spaced(<<>>) /\ Bygone(<<>>)
  BY DEF Spaced, Bygone

LEMMA TriesAreTimes ==
  ASSUME TypeOK, NEW h \in Hosts
  PROVE  /\ tries[h] \in Seq(Time) /\ Len(tries[h]) \in Nat
         /\ \A i \in 1 .. Len(tries[h]) : tries[h][i] \in Nat
  <1>1. tries[h] \in Seq(Time)
    BY DEF TypeOK
  <1>2. QED
    BY <1>1, LenProperties, ElementOfSeq, NowIsATime

\* The guesses that are kept are the last ones.
LEMMA RecentElements ==
  ASSUME NEW s \in Seq(Time), NEW i \in 1 .. Len(Recent(s))
  PROVE  /\ Len(s) > MaxAttempts => Recent(s)[i] = s[i + Len(s) - MaxAttempts]
         /\ ~(Len(s) > MaxAttempts) => Recent(s)[i] = s[i]
  <1> DEFINE lo == IF Len(s) > MaxAttempts THEN Len(s) - MaxAttempts + 1 ELSE 1
  <1>1. Len(s) \in Nat /\ lo \in Int /\ Len(s) \in Int /\ 1 <= lo
    BY LenProperties
  <1>2. \A j \in lo .. Len(s) : s[j] \in Time
    BY <1>1, ElementOfSeq
  <1>3. \A j \in 1 .. Len(s) - lo + 1 : SubSeq(s, lo, Len(s))[j] = s[lo + j - 1]
    BY <1>1, <1>2, SubSeqProperties
  <1>4. i \in 1 .. Len(s) - lo + 1
    BY <1>1, RecentProperties
  <1>5. Recent(s)[i] = s[lo + i - 1]
    BY <1>3, <1>4 DEF Recent
  <1>6. QED
    BY <1>1, <1>5

\* An address the guess is not from keeps its record and its history, or what it
\* tried is forgotten, or over.
LEMMA OthersKeep ==
  ASSUME TypeOK, BudgetInv, NEW h \in Hosts, NEW t \in Recorded(h), NEW new,
         History(t, h, new), NEW g \in Hosts, g # h
  PROVE  /\ Spaced(tries'[g])
         /\ g \in DOMAIN t => /\ g \in DOMAIN table /\ t[g] = table[g]
                              /\ tries'[g] = tries[g]
         /\ g \notin DOMAIN t => Bygone(tries'[g])
  <1>1. tries'[g] = IF g \in Forgotten(t) THEN <<>> ELSE tries[g]
    BY DEF History
  <1>2. Spaced(tries'[g])
    BY <1>1, NothingTried DEF BudgetInv
  <1>3. CASE g \in DOMAIN t
    BY <1>1, <1>2, <1>3, RecordedShape DEF Forgotten
  <1>4. CASE g \notin DOMAIN t /\ g \notin DOMAIN table
    BY <1>1, <1>2, <1>4 DEF Forgotten, BudgetInv
  <1>5. CASE g \notin DOMAIN t /\ g \in DOMAIN table /\ Stale = {}
    BY <1>1, <1>5, NothingTried DEF Forgotten
  <1>6. CASE g \notin DOMAIN t /\ g \in DOMAIN table /\ Stale # {}
    <2>1. h \notin DOMAIN table
      BY <1>6, RecordedShape
    <2>2. PICK K \in SUBSET DOMAIN table : Keeps(h, t, K)
      BY <2>1, RecordedNew
    <2>3. g \notin K
      BY <1>6, <2>2 DEF Keeps
    <2>4. g \in Stale
      BY <1>6, <2>2, <2>3 DEF Keeps, Evictable
    <2>5. now - table[g].seen > Period /\ table[g].seen \in Nat
      BY <1>6, <2>4, RecordsAreAttempts, NowIsATime DEF Stale, Attempts
    <2>6. Noticed(tries[g], table[g])
      BY <1>6 DEF BudgetInv
    <2>7. Bygone(tries[g])
      BY SMTT(30), <2>5, <2>6, TriesAreTimes, NowIsATime DEF Bygone, Noticed
    <2>8. QED
      BY <1>1, <1>2, <1>6, <2>7 DEF Forgotten
  <1>7. QED
    BY <1>3, <1>4, <1>5, <1>6

\* The guesser's own record, seen now, charges for no less than it did.
LEMMA OwnKeeps ==
  ASSUME TypeOK, BudgetInv, NEW h \in Hosts, NEW t \in Recorded(h)
  PROVE  Spent(tries[h], t[h]) /\ Noticed(tries[h], t[h])
  <1>1. \A i \in 1 .. Len(tries[h]) : tries[h][i] <= now
    BY DEF BudgetInv, Spaced
  <1>2. CASE h \in DOMAIN table
    <2>1. t[h] = SeenAgain(table[h]) /\ table[h] \in Attempts
      BY <1>2, RecordedShape, RecordsAreAttempts
    <2>2. t[h].seen = now /\ t[h].until = table[h].until
          /\ t[h].failures = table[h].failures
      BY <2>1 DEF SeenAgain, Attempts
    <2>3. QED
      BY <1>1, <1>2, <2>2 DEF BudgetInv, Spent, Noticed
  <1>3. CASE h \notin DOMAIN table
    <2>1. t[h] = NewRecord
      BY <1>3, RecordedShape
    <2>2. t[h].seen = now
      BY <2>1 DEF NewRecord
    <2>3. Bygone(tries[h])
      BY <1>3 DEF BudgetInv
    <2>4. QED
      BY <1>1, <2>2, <2>3 DEF Bygone, Spent, Noticed
  <1>4. QED
    BY <1>2, <1>3

LEMMA BudgetOfRefused ==
  ASSUME LInv, BudgetInv, NEW h \in Hosts, Refused(h)
  PROVE  BudgetInv'
  <1> USE DEF LInv
  <1>1. PICK t \in Recorded(h) :
          table' = t /\ History(t, h, tries[h]) /\ now' = now
    BY DEF Refused
  <1>2. tries'[h] = tries[h] /\ h \in DOMAIN t /\ DOMAIN t \subseteq Hosts
    BY <1>1, RecordedShape, RecordedType DEF History
  <1>3. ASSUME NEW g \in Hosts, g # h
        PROVE  /\ Spaced(tries[g])'
               /\ g \notin DOMAIN table' => Bygone(tries[g])'
               /\ g \in DOMAIN table' => /\ Spent(tries[g], table[g])'
                                         /\ Noticed(tries[g], table[g])'
    BY <1>1, <1>3, OthersKeep DEF BudgetInv, Spaced, Bygone, Spent, Noticed
  <1>4. Spaced(tries[h])'
    BY <1>1, <1>2 DEF BudgetInv, Spaced
  <1>5. Spent(tries[h], table[h])' /\ Noticed(tries[h], table[h])'
    BY <1>1, <1>2, OwnKeeps DEF Spent, Noticed
  <1>6. QED
    BY <1>1, <1>2, <1>3, <1>4, <1>5 DEF BudgetInv

LEMMA BudgetOfRight ==
  ASSUME LInv, BudgetInv, NEW h \in Hosts, Right(h)
  PROVE  BudgetInv'
  <1> USE DEF LInv
  <1>1. PICK t \in Recorded(h) : /\ table' = [g \in DOMAIN t \ {h} |-> t[g]]
                                 /\ History(t, h, <<>>) /\ now' = now
    BY DEF Right
  <1>2. /\ tries'[h] = <<>> /\ DOMAIN t \subseteq Hosts /\ DOMAIN table' = DOMAIN t \ {h}
        /\ \A g \in DOMAIN table' : table'[g] = t[g]
    BY <1>1, RecordedType DEF History
  <1>3. ASSUME NEW g \in Hosts, g # h
        PROVE  /\ Spaced(tries[g])'
               /\ g \notin DOMAIN table' => Bygone(tries[g])'
               /\ g \in DOMAIN table' => /\ Spent(tries[g], table[g])'
                                         /\ Noticed(tries[g], table[g])'
    <2>1. /\ Spaced(tries'[g])
          /\ g \in DOMAIN t => g \in DOMAIN table /\ t[g] = table[g] /\ tries'[g] = tries[g]
          /\ g \notin DOMAIN t => Bygone(tries'[g])
      BY <1>1, <1>3, OthersKeep
    <2>2. CASE g \in DOMAIN t
      BY <1>1, <1>2, <1>3, <2>1, <2>2 DEF BudgetInv, Spaced, Spent, Noticed
    <2>3. CASE g \notin DOMAIN t
      BY <1>1, <1>2, <2>1, <2>3 DEF Spaced, Bygone
    <2>4. QED
      BY <2>2, <2>3
  <1>4. Spaced(tries[h])' /\ Bygone(tries[h])'
    BY <1>2 DEF Spaced, Bygone
  <1>5. QED
    BY <1>2, <1>3, <1>4 DEF BudgetInv

\* One guess more: if it is one too many for a period, the first is a period old.
LEMMA OneMore ==
  ASSUME TypeOK, BudgetInv, NEW h \in Hosts, NEW r \in Attempts,
         Spent(tries[h], r), ~(now < r.until)
  PROVE  LET new == Append(Recent(tries[h]), now) IN
           /\ Spaced(new)
           /\ Spent(new, Charge(r))
           /\ \A i \in 1 .. Len(new) : new[i] <= now
  <1> DEFINE s == tries[h]
             new == Append(Recent(s), now)
             n == Len(s)
             k == IF n > MaxAttempts THEN n - MaxAttempts ELSE 0
  <1>1. /\ s \in Seq(Time) /\ n \in Nat /\ \A i \in 1 .. n : s[i] \in Nat
        /\ n <= MaxAttempts + 1 /\ \A i \in 1 .. n : s[i] <= now
    BY TriesAreTimes DEF BudgetInv, Spaced
  <1>2. k \in {0, 1} /\ (k = 1 => n = MaxAttempts + 1) /\ (k = 0 => n <= MaxAttempts)
    BY <1>1
  <1>3. /\ Recent(s) \in Seq(Time) /\ Len(Recent(s)) = n - k
        /\ \A i \in 1 .. n - k : Recent(s)[i] = s[i + k]
    <2>1. Recent(s) \in Seq(Time) /\ Len(Recent(s)) = n - k
      BY <1>1, <1>2, RecentProperties
    <2>2. \A i \in 1 .. n - k : Recent(s)[i] = s[i + k]
      <3>1. TAKE i \in 1 .. n - k
      <3>2. i \in 1 .. Len(Recent(s))
        BY <2>1
      <3>3. CASE n > MaxAttempts
        <4>1. Recent(s)[i] = s[i + n - MaxAttempts] /\ i + n - MaxAttempts = i + k
          BY <1>1, <3>2, <3>3, RecentElements
        <4>2. QED
          BY <4>1
      <3>4. CASE ~(n > MaxAttempts)
        BY <1>1, <3>2, <3>4, RecentElements
      <3>5. QED
        BY <3>3, <3>4
    <2>3. QED
      BY <2>1, <2>2
  <1>4. now \in Nat /\ now \in Time /\ r.failures \in 0 .. MaxAttempts - 1
        /\ r.until \in Nat
    BY NowIsATime DEF Attempts
  <1> HIDE DEF s, n, k
  <1>5. /\ Len(new) = n - k + 1 /\ new[n - k + 1] = now
        /\ \A i \in 1 .. n - k : new[i] = s[i + k]
    BY <1>3, <1>4, AppendProperties
  <1> HIDE DEF new
  <1>6. \A i \in 1 .. n : i <= n - r.failures => s[i] + Period <= now
    BY <1>1, <1>4 DEF Spent, s, n
  <1>7. \A i \in 1 .. Len(new) : new[i] <= now
    <2>1. TAKE i \in 1 .. Len(new)
    <2>2. CASE i = n - k + 1
      BY <1>4, <1>5, <2>2
    <2>3. CASE i # n - k + 1
      <3>1. i \in 1 .. n - k /\ i + k \in 1 .. n
        BY <1>1, <1>2, <1>5, <2>3
      <3>2. QED
        BY <1>1, <1>5, <3>1
    <2>4. QED
      BY <2>2, <2>3
  <1>8. Len(new) = MaxAttempts + 1 => new[1] + Period <= new[Len(new)]
    <2>1. SUFFICES ASSUME n - k = MaxAttempts PROVE new[1] + Period <= now
      BY <1>1, <1>2, <1>5
    <2>2. 1 \in 1 .. n - k /\ 1 + k \in 1 .. n /\ 1 + k <= n - r.failures
      BY <1>1, <1>2, <1>4, <2>1
    <2>3. QED
      BY <1>5, <1>6, <2>2
  <1>9. Spaced(new)
    BY <1>1, <1>2, <1>5, <1>7, <1>8 DEF Spaced
  <1>10. Spent(new, Charge(r))
    <2>1. CASE r.failures + 1 >= MaxAttempts
      <3>1. Charge(r).until = now + Period
        BY <2>1 DEF Charge, Attempts
      <3>2. \A i \in 1 .. Len(new) : new[i] \in Nat
        <4>1. TAKE i \in 1 .. Len(new)
        <4>2. i = n - k + 1 \/ (i \in 1 .. n - k /\ i + k \in 1 .. n)
          BY <1>1, <1>2, <1>5
        <4>3. QED
          BY <1>1, <1>4, <1>5, <4>2
      <3>3. QED
        BY <1>4, <1>7, <3>1, <3>2 DEF Spent
    <2>2. CASE ~(r.failures + 1 >= MaxAttempts)
      <3>1. Charge(r).failures = r.failures + 1
        BY <2>2 DEF Charge, Attempts
      <3>2. SUFFICES ASSUME NEW i \in 1 .. Len(new), i <= Len(new) - (r.failures + 1)
                     PROVE  new[i] + Period <= now
        BY <3>1 DEF Spent
      <3>3. i \in 1 .. n - k /\ i + k \in 1 .. n /\ i + k <= n - r.failures
        <4>1. n \in Int /\ k \in Int /\ r.failures \in Nat /\ k >= 0
          BY <1>1, <1>2, <1>4
        <4>2. i \in Int /\ 1 <= i /\ i <= n - k + 1 - (r.failures + 1)
          BY <1>5, <3>2, <4>1
        <4>3. QED
          BY <4>1, <4>2
      <3>4. QED
        BY <1>5, <1>6, <3>3
    <2>3. QED
      BY <2>1, <2>2
  <1>11. QED
    BY <1>7, <1>9, <1>10 DEF new, s

LEMMA BudgetOfWrong ==
  ASSUME LInv, BudgetInv, NEW h \in Hosts, Wrong(h)
  PROVE  BudgetInv'
  <1> USE DEF LInv
  <1> DEFINE new == Append(Recent(tries[h]), now)
  <1>1. PICK t \in Recorded(h) :
          /\ h \notin LockedIn(t)
          /\ table' = IF t[h].failures + 1 >= MaxAttempts
                      THEN [t EXCEPT ![h].failures = 0, ![h].until = now + Period]
                      ELSE [t EXCEPT ![h].failures = @ + 1]
          /\ History(t, h, new) /\ now' = now
    BY DEF Wrong
  <1>2. DOMAIN t \subseteq Hosts /\ h \in DOMAIN t /\ t[h] \in Attempts
        /\ t \in [DOMAIN t -> Attempts]
    BY RecordedType, RecordedShape
  <1>3. /\ table' = [t EXCEPT ![h] = Charge(t[h])]
        /\ DOMAIN table' = DOMAIN t /\ table'[h] = Charge(t[h])
        /\ \A g \in DOMAIN t : g # h => table'[g] = t[g]
    BY <1>1, <1>2 DEF Charge
  <1>4. tries'[h] = new
    BY <1>1 DEF History
  <1>5. ASSUME NEW g \in Hosts, g # h
        PROVE  /\ Spaced(tries[g])'
               /\ g \notin DOMAIN table' => Bygone(tries[g])'
               /\ g \in DOMAIN table' => /\ Spent(tries[g], table[g])'
                                         /\ Noticed(tries[g], table[g])'
    <2>1. /\ Spaced(tries'[g])
          /\ g \in DOMAIN t => g \in DOMAIN table /\ t[g] = table[g] /\ tries'[g] = tries[g]
          /\ g \notin DOMAIN t => Bygone(tries'[g])
      BY <1>1, <1>5, OthersKeep
    <2>2. CASE g \in DOMAIN t
      BY <1>1, <1>3, <1>5, <2>1, <2>2 DEF BudgetInv, Spaced, Spent, Noticed
    <2>3. CASE g \notin DOMAIN t
      BY <1>1, <1>3, <2>1, <2>3 DEF Spaced, Bygone
    <2>4. QED
      BY <2>2, <2>3
  <1>6. ~(now < t[h].until) /\ t[h].seen = now
    <2>1. ~(now < t[h].until)
      BY <1>1, <1>2 DEF LockedIn
    <2>2. t[h].seen = now
      <3>1. CASE h \in DOMAIN table
        <4>1. t[h] = SeenAgain(table[h]) /\ table[h] \in Attempts
          BY <3>1, RecordedShape, RecordsAreAttempts
        <4>2. QED
          BY <4>1 DEF SeenAgain, Attempts
      <3>2. CASE h \notin DOMAIN table
        BY <3>2, RecordedShape DEF NewRecord
      <3>3. QED
        BY <3>1, <3>2
    <2>3. QED
      BY <2>1, <2>2
  <1>7. /\ Spaced(new) /\ Spent(new, Charge(t[h]))
        /\ \A i \in 1 .. Len(new) : new[i] <= now
    BY <1>2, <1>6, OwnKeeps, OneMore
  <1>8. Charge(t[h]).seen = now
    BY <1>2, <1>6 DEF Charge, Attempts
  <1> HIDE DEF new
  <1>9. Spaced(tries[h])'
    BY <1>1, <1>4, <1>7 DEF Spaced
  <1>10. Spent(tries[h], table[h])' /\ Noticed(tries[h], table[h])'
    BY <1>1, <1>3, <1>4, <1>7, <1>8 DEF Spent, Noticed
  <1>11. QED
    BY <1>2, <1>3, <1>5, <1>9, <1>10 DEF BudgetInv

LEMMA BudgetOfOthers ==
  ASSUME LInv, BudgetInv, Regenerate \/ Tick \/ UNCHANGED vars
  PROVE  BudgetInv'
  <1>1. CASE Regenerate
    BY <1>1 DEF Regenerate, BudgetInv, Spaced, Bygone
  <1>2. CASE Tick
    <2>1. now' = now + 1 /\ table' = table /\ tries' = tries /\ now \in Nat
      BY <1>2, NowIsATime DEF Tick, LInv
    <2>2. \A h \in Hosts : \A i \in 1 .. Len(tries[h]) : tries[h][i] \in Nat
      BY TriesAreTimes DEF LInv
    <2>3. DOMAIN table \subseteq Hosts
      BY DEF LInv, TypeOK
    <2>4. (\A h \in Hosts : Spaced(tries[h]))'
      BY <2>1, <2>2 DEF BudgetInv, Spaced
    <2>5. (\A h \in Hosts \ DOMAIN table : Bygone(tries[h]))'
      BY <2>1, <2>2 DEF BudgetInv, Bygone
    <2>6. \A h \in DOMAIN table : Spent(tries[h], table[h])'
      BY <2>1, <2>2, <2>3 DEF BudgetInv, Spent
    <2>7. QED
      BY <2>1, <2>4, <2>5, <2>6 DEF BudgetInv, Noticed
  <1>3. CASE UNCHANGED vars
    BY <1>3 DEF vars, BudgetInv, Spaced, Bygone, Spent, Noticed
  <1>4. QED
    BY <1>1, <1>2, <1>3

\* A stretch of a period does not hold both ends of one guess too many.
LEMMA SpacedBudget ==
  ASSUME TypeOK, NEW h \in Hosts, Spaced(tries[h]), NEW t \in 1 .. now
  PROVE  Cardinality(InWindow(h, t)) <= MaxAttempts
  <1> DEFINE n == Len(tries[h])
  <1>1. /\ n \in Nat /\ DOMAIN tries[h] = 1 .. n
        /\ \A i \in 1 .. n : tries[h][i] \in Nat
    BY TriesAreTimes, LenProperties
  <1>2. IsFiniteSet(1 .. n) /\ Cardinality(1 .. n) = n
    BY <1>1, FS_Interval
  <1>3. InWindow(h, t) \subseteq 1 .. n
    BY <1>1 DEF InWindow
  <1>4. Cardinality(InWindow(h, t)) \in Nat /\ Cardinality(InWindow(h, t)) <= n
    BY <1>2, <1>3, FS_Subset, FS_CardinalityType
  <1>5. CASE n <= MaxAttempts
    BY <1>1, <1>4, <1>5
  <1>6. CASE n = MaxAttempts + 1
    <2>1. tries[h][1] + Period <= tries[h][n] /\ 1 \in 1 .. n /\ n \in 1 .. n
      BY <1>1, <1>6 DEF Spaced
    <2>2. ~ (1 \in InWindow(h, t) /\ n \in InWindow(h, t))
      <3>1. tries[h][1] \in Nat /\ tries[h][n] \in Nat /\ t \in Nat
        BY <1>1, <2>1
      <3>2. QED
        BY <2>1, <3>1 DEF InWindow
    <2>3. Cardinality(InWindow(h, t)) # n
      BY <1>2, <1>3, <2>1, <2>2, FS_Subset
    <2>4. QED
      BY <1>1, <1>4, <1>6, <2>3
  <1>7. QED
    BY <1>1, <1>5, <1>6 DEF Spaced

\* However the guesses are spread over time and addresses, no stretch as long as a
\* lockout holds more than the limit's worth of wrong ones from one address, unless
\* its record was given up to make room.
THEOREM GuessBudgetHolds == Spec => []GuessBudget
  <1>1. Init => BudgetInv
    BY NothingTried DEF Init, BudgetInv
  <1>2. LInv /\ BudgetInv /\ [Next]_vars => BudgetInv'
    BY BudgetOfRefused, BudgetOfWrong, BudgetOfRight, BudgetOfOthers DEF Next
  <1>3. LInv /\ BudgetInv => GuessBudget
    BY SpacedBudget DEF LInv, BudgetInv, GuessBudget
  <1>4. QED
    BY <1>1, <1>2, <1>3, LockoutInvariant, PTL DEF Spec

-----------------------------------------------------------------------------
\* So with the failure table, whose variables the run shares.
LEMMA LockoutOfTheRules == AllSpec => Spec
  <1>1. AllInit => Init
    BY Zenon DEF AllInit
  <1>2. [AllNext]_all => [Next]_vars
    BY Zenon DEF AllNext, all
  <1>3. QED
    BY <1>1, <1>2, PTL DEF AllSpec, Spec

\* The failure table as one of the parts of a run of the rules: bounded, every lockout
\* for one's own guesses, and never more wrong guesses judged in a lockout period
\* than the limit.  (auth.go.)
THEOREM GuessesAreLimited == AllSpec => LockoutHolds /\ []GuessBudget
  BY LockoutOfTheRules, LockoutHoldsInEveryRun, GuessBudgetHolds, PTL

-----------------------------------------------------------------------------
(***************************************************************************)
(* The types of a run's state.  The invariants above leave out what none   *)
(* of them needed: how far the readings are numbered, and counted.         *)
(***************************************************************************)
\* The accelerometer's readings that have counted are among those it took.
MotionInRange ==
  /\ motion_now.at \in 1 .. MaxAt /\ motion_now.place \in Spots
  /\ motion_sensor.watch = 0 => motion_sensor.detector = Mo!NoRun
  /\ \A r \in Mo!Runs : motion_counted[r] \subseteq 1 .. motion_now.at

LEMMA MotionRangeInit == Mo!ConstantsOK /\ Mo!Init => MotionInRange
  BY DEF Mo!ConstantsOK, Mo!Init, MotionInRange

LEMMA MotionRangeStep ==
  ASSUME Mo!ConstantsOK, MotionInv, MotionInRange, [Mo!Next]_(Mo!vars)
  PROVE  MotionInRange'
  <1>1. /\ motion_now \in Moment /\ motion_now.at \in 1 .. MaxAt /\ MaxAt \in Nat
        /\ DOMAIN motion_counted = Mo!Runs /\ motion_sensor \in Owned
        /\ motion_run \in [Mo!Runs -> LoopState]
        /\ \A r \in Mo!Runs : motion_run[r].pc # "none" => motion_run[r].watch # 0
    BY DEF MotionInv, MotionTyped, MotionInRange, OneALoop, Mo!ConstantsOK
  <1>2. CASE UNCHANGED <<motion_now, motion_sensor, motion_counted>>
    BY <1>2 DEF MotionInRange
  <1>3. CASE Mo!Sense
    <2>1. PICK p \in Spots : motion_now' = [at |-> motion_now.at + 1, place |-> p]
      BY <1>3 DEF Mo!Sense
    <2>2. /\ motion_now'.at = motion_now.at + 1 /\ motion_now'.place = p /\ motion_now.at < MaxAt
          /\ motion_sensor' = motion_sensor /\ motion_counted' = motion_counted
      BY <1>3, <2>1 DEF Mo!Sense
    <2>3. 1 .. motion_now.at \subseteq 1 .. motion_now'.at /\ motion_now'.at \in 1 .. MaxAt
      BY <1>1, <2>2
    <2>4. QED
      BY <2>2, <2>3 DEF MotionInRange
  <1>4. ASSUME NEW r \in Mo!Runs, Mo!Session(r) PROVE MotionInRange'
    <2>1. CASE UNCHANGED <<motion_now, motion_sensor, motion_counted>>
      BY <1>2, <2>1
    <2>2. CASE ~UNCHANGED <<motion_now, motion_sensor, motion_counted>>
      <3>1. PICK d : motion_counted' = [motion_counted EXCEPT ![d] = {}]
        BY <1>4, <2>2 DEF Mo!Session
      <3>2. motion_sensor'.watch = motion_run[r].watch /\ motion_now' = motion_now
            /\ motion_run[r].pc = "session"
        BY <1>4, <2>2 DEF Mo!Session
      <3>3. motion_sensor'.watch # 0
        BY <1>1, <3>2
      <3>4. \A q \in Mo!Runs : motion_counted'[q] = motion_counted[q] \/ motion_counted'[q] = {}
        BY <1>1, <3>1
      <3>5. QED
        BY <3>2, <3>3, <3>4 DEF MotionInRange
    <2>3. QED
      BY <2>1, <2>2
  <1>5. ASSUME NEW r \in Mo!Runs, Mo!Look(r) PROVE MotionInRange'
    <2>1. CASE motion_counted' = motion_counted
      BY <1>2, <1>5, <2>1 DEF Mo!Look
    <2>2. CASE motion_counted' # motion_counted
      <3>1. PICK d : motion_counted' = [motion_counted EXCEPT ![d] =
                                           IF Mo!Distance(d) >= Near THEN @ \cup {motion_now.at} ELSE {}]
        BY <1>5, <2>2 DEF Mo!Look
      <3>2. motion_now' = motion_now /\ motion_sensor' = motion_sensor
        BY <1>5 DEF Mo!Look
      <3>3. \A q \in Mo!Runs : motion_counted'[q] \subseteq motion_counted[q] \cup {motion_now.at}
        BY <1>1, <3>1
      <3>4. motion_now.at \in 1 .. motion_now.at
        BY <1>1
      <3>5. QED
        BY <3>2, <3>3, <3>4 DEF MotionInRange
    <2>3. QED
      BY <2>1, <2>2
  <1>6. ASSUME NEW r \in Mo!Runs, Mo!Start(r) \/ Mo!GiveUp(r) \/ Mo!FirstReading(r) \/ Mo!Send(r)
        PROVE  UNCHANGED <<motion_now, motion_sensor, motion_counted>>
    BY <1>6 DEF Mo!Start, Mo!GiveUp, Mo!FirstReading, Mo!Send
  <1>7. QED
    BY <1>2, <1>3, <1>4, <1>5, <1>6 DEF Mo!Next, Mo!Arm, Mo!Disarm, Mo!vars

LEMMA MotionIsTyped == ASSUME Mo!ConstantsOK PROVE Mo!Spec => []Mo!TypeOK
  <1>1. ASSUME MotionInv, MotionInRange PROVE Mo!TypeOK
    <2>1. ASSUME NEW r \in Mo!Runs
          PROVE  /\ motion_run[r].pc \in {"none", "warmup", "session", "watch", "send", "over"}
                 /\ motion_run[r].pc \in {"watch", "send"} => motion_run[r].detector \in Mo!Runs
      <3>1. motion_run[r] \in LoopState
        BY <1>1 DEF MotionInv, MotionTyped
      <3>2. QED
        BY <1>1, <3>1 DEF MotionInv, OneADetector, Using, LoopState
    <2>2. ASSUME NEW r \in Mo!Runs PROVE motion_detector[r].consecutive \in 0 .. MaxAt
      <3>1. /\ motion_detector[r].consecutive \in Nat /\ motion_now.at \in 1 .. MaxAt /\ MaxAt \in Nat
            /\ motion_detector[r].consecutive <= Cardinality(motion_counted[r])
        <4>1. motion_detector[r] \in Detecting
          BY <1>1 DEF MotionInv, MotionTyped
        <4>2. QED
          <5>1. motion_detector[r].consecutive \in Nat
            BY <4>1 DEF Detecting
          <5>2. motion_now.at \in 1 .. MaxAt /\ MaxAt \in Nat
            BY <1>1 DEF MotionInRange, Mo!ConstantsOK
          <5>3. motion_detector[r].consecutive <= Cardinality(motion_counted[r])
            BY <1>1 DEF MotionInv, CountsReadings
          <5>4. QED
            BY <5>1, <5>2, <5>3
      <3>2. motion_counted[r] \subseteq 1 .. MaxAt
        BY <1>1, <3>1 DEF MotionInRange
      <3>3. IsFiniteSet(1 .. MaxAt) /\ Cardinality(1 .. MaxAt) = MaxAt
        <4>1. 1 \in Int /\ MaxAt \in Int /\ ~(1 > MaxAt) /\ MaxAt - 1 + 1 = MaxAt
          BY <3>1
        <4>2. /\ IsFiniteSet(1 .. MaxAt)
              /\ Cardinality(1 .. MaxAt) = IF 1 > MaxAt THEN 0 ELSE MaxAt - 1 + 1
          BY <4>1, FS_Interval
        <4>3. QED
          BY <4>1, <4>2
      <3>4. Cardinality(motion_counted[r]) <= MaxAt /\ Cardinality(motion_counted[r]) \in Nat
        BY <3>2, <3>3, FS_Subset, FS_CardinalityType
      <3>5. QED
        BY <3>1, <3>4
    <2>3. motion_sensor.detector \in Mo!Runs \cup {Mo!NoRun}
      BY <1>1 DEF MotionInv, MotionInRange, OneADetector
    <2>4. QED
      BY <1>1, <2>1, <2>2, <2>3 DEF MotionInRange, Mo!TypeOK
  <1>2. MotionInv /\ MotionInRange /\ [Mo!Next]_(Mo!vars) => MotionInRange'
    BY MotionRangeStep
  <1>3. Mo!Init => MotionInRange
    BY MotionRangeInit
  <1>4. QED
    BY <1>1, <1>2, <1>3, MotionInvariant, PTL DEF Mo!Spec

\* A loop reads what there is to read, and the input watch counts seconds.
DetectorsInRange ==
  /\ detectors_last \in De!Readings
  /\ De!Watches => detectors_activity = De!Still
  /\ ~De!Watches => Len(detectors_seen) \in 0 .. MaxSeconds

LEMMA DetectorsRangeInit == De!ConstantsOK /\ De!Init => DetectorsInRange
  <1>1. De!Init => detectors_last = {} /\ detectors_activity = De!Still /\ Len(detectors_seen) = 0
    BY DEF De!Init
  <1>2. QED
    BY <1>1 DEF De!ConstantsOK, DetectorsInRange, De!Readings

LEMMA DetectorsRangeStep ==
  ASSUME De!ConstantsOK, DetectorsInv, DetectorsInRange, [De!Next]_(De!vars)
  PROVE  DetectorsInRange'
  <1>1. MaxSeconds \in Nat /\ (~De!Watches => detectors_seen \in Seq(BOOLEAN))
    BY DEF De!ConstantsOK, DetectorsInv, DetectorsTyped
  <1>2. CASE UNCHANGED <<detectors_kind, detectors_last, detectors_activity, detectors_seen>>
    BY <1>2 DEF DetectorsInRange, De!Watches
  <1>3. ASSUME NEW r \in De!Readings, De!Baseline(r) \/ De!Read(r) PROVE DetectorsInRange'
    <2>1. /\ De!Watches /\ detectors_kind' = detectors_kind /\ detectors_activity' = detectors_activity
          /\ detectors_last' \in {detectors_last, r}
      BY <1>3 DEF De!Baseline, De!Read
    <2>2. De!Watches'
      BY <2>1 DEF De!Watches
    <2>3. QED
      BY <2>1, <2>2 DEF DetectorsInRange
  <1>4. ASSUME NEW t \in BOOLEAN, NEW a \in BOOLEAN, De!Tick(t, a) PROVE DetectorsInRange'
    <2>1. PICK b : /\ ~De!Watches /\ Len(detectors_seen) < MaxSeconds
                   /\ detectors_seen' = Append(detectors_seen, b) /\ b \in BOOLEAN
                   /\ detectors_kind' = detectors_kind /\ detectors_last' = detectors_last
      BY <1>4 DEF De!Tick
    <2>2. Len(detectors_seen') = Len(detectors_seen) + 1 /\ Len(detectors_seen) \in Nat
      BY <1>1, <2>1, AppendProperties, LenProperties
    <2>3. ~De!Watches'
      BY <2>1 DEF De!Watches
    <2>4. QED
      BY <1>1, <2>1, <2>2, <2>3 DEF DetectorsInRange
  <1>5. CASE De!Restart
    <2>1. Len(detectors_seen') = 0
      BY <1>5 DEF De!Restart
    <2>2. QED
      BY <1>1, <1>5, <2>1 DEF De!Restart, DetectorsInRange
  <1>6. CASE De!StartInput \/ \E b \in BOOLEAN : De!Grace(b)
    BY <1>2, <1>6 DEF De!StartInput, De!Grace
  <1>7. QED
    BY <1>2, <1>3, <1>4, <1>5, <1>6 DEF De!Next, De!vars

LEMMA DetectorsAreTyped == ASSUME De!ConstantsOK PROVE De!Spec => []De!TypeOK
  <1>1. ASSUME DetectorsInv, DetectorsInRange PROVE De!TypeOK
    <2>1. /\ detectors_threshold \in Nat \ {0} /\ detectors_activity \in Activity
          /\ detectors_kind \in De!Kinds /\ detectors_pc \in {"start", "grace", "watch", "failed"}
          /\ MaxSeconds \in Nat
      BY <1>1 DEF DetectorsInv, DetectorsTyped, De!ConstantsOK
    <2>2. detectors_activity.busy \in Nat /\ detectors_activity.quiet \in Nat
      BY <2>1 DEF Activity
    <2>3. CASE De!Watches
      <3>1. detectors_activity.busy = 0 /\ detectors_activity.quiet = 0
        BY <1>1, <2>3 DEF DetectorsInRange, De!Still
      <3>2. QED
        BY <1>1, <2>1, <3>1 DEF DetectorsInRange, De!TypeOK
    <2>4. CASE ~De!Watches
      <3>1. /\ Len(detectors_seen) \in 0 .. MaxSeconds /\ detectors_activity.quiet <= Len(detectors_seen)
            /\ detectors_activity.busy = 0 \/ detectors_activity.busy < detectors_threshold
        BY <1>1, <2>4 DEF DetectorsInRange, DetectorsInv, CountsAreRuns, QuietsCounted, BusyCounted
      <3>2. detectors_activity.quiet \in 0 .. MaxSeconds /\ detectors_activity.busy \in 0 .. detectors_threshold - 1
        BY <2>1, <2>2, <3>1
      <3>3. QED
        BY <1>1, <2>1, <3>2 DEF DetectorsInRange, De!TypeOK
    <2>5. QED
      BY <2>3, <2>4
  <1>2. DetectorsInv /\ DetectorsInRange /\ [De!Next]_(De!vars) => DetectorsInRange'
    BY DetectorsRangeStep
  <1>3. De!Init => DetectorsInRange
    BY DetectorsRangeInit
  <1>4. QED
    BY <1>1, <1>2, <1>3, DetectorsInvariant, PTL DEF De!Spec

LEMMA TrackerIsTyped == ASSUME Tr!ConstantsOK PROVE Tr!Spec => []Tr!TypeOK
  <1>1. ASSUME TrackerInv PROVE Tr!TypeOK
    <2>1. /\ tracker_machine \in [clock : 1 .. MaxClock, place : Places]
          /\ tracker_watch \in [armed : BOOLEAN, half : [Users -> {"none", "arm", "disarm"}]]
          /\ tracker_phone \subseteq Tr!FixOf
      BY <1>1 DEF TrackerInv, TrackerTyped, WatchState
    <2>2. tracker_tracker \in [providers : Seq({"wifi", "ip"}), anchor : Tr!FixOf, live : Tr!FixOf,
                               run : Tr!Runs \cup {Tr!NoRun}, running : BOOLEAN]
      <3>1. tracker_tracker \in TrackerState /\ tracker_tracker.run \in Tr!Runs \cup {Tr!NoRun}
        BY <1>1 DEF TrackerInv, TrackerTyped, RunsAreOK
      <3>2. QED
        BY <3>1 DEF TrackerState, Sources
    <2>3. ASSUME NEW r \in Tr!Runs
          PROVE  /\ tracker_runs[r].at \in {"unused", "next", "asking", "idle", "over"}
                 /\ tracker_runs[r].best \in Tr!FixOf
      <3>1. tracker_runs[r] \in RunState
        BY <1>1 DEF TrackerInv, TrackerTyped
      <3>2. QED
        BY <3>1 DEF RunState
    <2>4. QED
      BY <2>1, <2>2, <2>3 DEF Tr!TypeOK
  <1>2. QED
    BY <1>1, TrackerInvariant, PTL

\* Whichever part a run is of, its state is one the part's program can be in.
THEOREM RulesTypesHold == AllSpec => []TypesOK
  <1>1. Tr!ConstantsOK /\ Mo!ConstantsOK /\ De!ConstantsOK /\ Sc!ConstantsOK /\ Wi!ConstantsOK
        /\ Pa!ConstantsOK
    BY RulesConstants
  <1>2. AllSpec => []TypeOK
    BY LockoutOfTheRules, TypeCorrect, PTL
  <1>3. AllSpec => []Tr!TypeOK
    BY <1>1, PartsOfTheRules, TrackerIsTyped, PTL
  <1>4. AllSpec => []Mo!TypeOK
    BY <1>1, PartsOfTheRules, MotionIsTyped, PTL
  <1>5. AllSpec => []De!TypeOK
    BY <1>1, PartsOfTheRules, DetectorsAreTyped, PTL
  <1>6. AllSpec => []Sc!TypeOK
    BY <1>1, PartsOfTheRules, TerminalKept, PTL
  <1>7. AllSpec => []Wi!TypeOK
    BY <1>1, PartsOfTheRules, WindowsHold, PTL
  <1>8. AllSpec => []Pa!TypeOK
    BY <1>1, PartsOfTheRules, PairingHolds, PTL
  <1>9. TypeOK /\ Tr!TypeOK /\ Mo!TypeOK /\ De!TypeOK /\ Sc!TypeOK /\ Wi!TypeOK /\ Pa!TypeOK => TypesOK
    BY DEF TypesOK
  <1>10. QED
    BY <1>2, <1>3, <1>4, <1>5, <1>6, <1>7, <1>8, <1>9, PTL
=============================================================================
