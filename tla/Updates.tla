------------------------------- MODULE Updates -------------------------------
(***************************************************************************)
(* Whether a newer release exists: the watcher's schedule, the check the    *)
(* owner asks for at the console, and the ledger both of them keep across    *)
(* restarts.                                                                *)
(*                                                                         *)
(* internal/update (update.go, watcher.go, ledger.go) and cmd/leavesafe     *)
(* (superviseUpdateCheck, sayWhatIsAlreadyKnown, announceUpdate,            *)
(* checkForUpdateNow).  A release is its number and whether it is a          *)
(* prerelease of it.  The ledger is replaced by renaming; a save may fail,   *)
(* and the program may be killed between any two steps.  The wall clock may  *)
(* be set back.                                                             *)
(***************************************************************************)
EXTENDS Integers, FiniteSets

CONSTANTS
  Releases,                \* what may be published: [n, pre]
  Interval, Floor, Retry,  \* how often to ask, at a start, after a failure
  Jitter,                  \* the delays added to the first wait
  MaxClock, MaxStarts, MaxAsked,
  MaxTrouble   \* changed settings, failed saves and clocks set back

VARIABLES
  world,    \* real time, how far the wall clock is behind it, what is published
  config,   \* update_check and update_channel, which the phone may change
  ledger,   \* update.json
  w,        \* the watcher, and its copy of the ledger
  asked,    \* the check at the console, and its copy
  said,     \* releases announced since the program started
  history   \* starts, requests by the owner, switches, faults; the last scheduled query

vars == <<world, config, ledger, w, asked, said, history>>

NoRelease == [n |-> 0, pre |-> FALSE]
Running == [n |-> 1, pre |-> FALSE]

\* What the theorems about this module ask of its constants: there is a highest release,
\* and a start waits no longer than the schedule, which Validate never makes shorter than
\* six hours.
ConstantsOK ==
  /\ Releases \subseteq [n : Nat, pre : BOOLEAN]
  /\ \E top \in Releases \cup {Running} : \A r \in Releases : r.n <= top.n
  /\ {Interval, Floor, Retry, MaxStarts, MaxAsked, MaxTrouble} \cup Jitter \subseteq Nat
  /\ MaxClock \in Nat \ {0} /\ Floor <= Interval

Blank == [check |-> 0, success |-> 0, seen |-> NoRelease]   \* 0: never
now == world.clock - world.behind
Trouble == history.switches + history.faults

Init ==
  /\ world = [clock |-> 1, behind |-> 0, published |-> {Running}]
  /\ config \in [enabled : {TRUE}, channel : {"stable", "beta"}]
  /\ ledger \in {Blank, [Blank EXCEPT !.seen = Running]}   \* found before it was installed
  /\ w = [at |-> "down", rec |-> Blank, enabled |-> TRUE, channel |-> "none", last |-> "none",
          first |-> TRUE, due |-> 0, failed |-> 0, found |-> NoRelease, real |-> 0, raced |-> FALSE]
  /\ asked = [at |-> "idle", rec |-> Blank, found |-> NoRelease, channel |-> "none"]
  /\ said = {}
  /\ history = [starts |-> 0, asked |-> 0, switches |-> 0, faults |-> 0, query |-> 0]

-----------------------------------------------------------------------------
(***************************************************************************)
(* Versions and channels.                                                  *)
(***************************************************************************)
\* compareVersions: the numbers first, and a prerelease before its release.
Newer(a, b) == a.n > b.n \/ (a.n = b.n /\ b.pre /\ ~a.pre)

\* Mutant: what was found once is announced for ever.
NewerOrSame(a, b) == a # NoRelease

IsNewer(a, b) == a # NoRelease /\ Newer(a, b)

Eligible(channel) == {r \in world.published : r.pre => channel = "beta"}

\* Check: the highest eligible release, if it is above the running one.
Check(channel) ==
  LET newer == {r \in Eligible(channel) : Newer(r, Running)} IN
  IF newer = {} THEN NoRelease ELSE CHOOSE r \in newer : \A q \in newer : ~Newer(q, r)

-----------------------------------------------------------------------------
\* Ledger.Save: the whole record, or nothing.  Nobody looks at the error.  A check that
\* the watcher made is remembered here, on a clock that nobody sets back.
Save(rec) ==
  \/ /\ ledger' = rec
     /\ history' = [history EXCEPT !.query = CASE w.at = "query" -> world.clock
                                              [] w.at = "save" -> w.real [] OTHER -> @]
  \/ /\ Trouble < MaxTrouble
     /\ history' = [history EXCEPT !.faults = @ + 1, !.query = 0]
     /\ UNCHANGED ledger

\* until: nothing to wait for when nothing was ever checked; a check in the future
\* means that the clock was set back.
Until(rec, wait) ==
  CASE rec.check = 0 -> 0
    [] rec.check > now -> wait
    [] now - rec.check >= wait -> 0
    [] OTHER -> wait - (now - rec.check)

-----------------------------------------------------------------------------
(***************************************************************************)
(* A start, and the watcher.                                               *)
(***************************************************************************)
\* sayWhatIsAlreadyKnown, which asks nothing of the network.
Start ==
  /\ w.at = "down" /\ history.starts < MaxStarts
  /\ history' = [history EXCEPT !.starts = @ + 1]
  /\ w' = [w EXCEPT !.at = "round", !.first = TRUE]
  /\ said' = IF IsNewer(ledger.seen, Running) THEN {ledger.seen} ELSE {}
  /\ UNCHANGED <<world, config, ledger, asked>>

\* The top of the loop: the settings, the ledger, and a changed channel forgets what
\* was reported on the old one.  The first wait is the floor's and the jitter's.
Round ==
  /\ w.at = "round"
  /\ LET changed == w.last \notin {"none", config.channel}
         rec == [ledger EXCEPT !.seen = IF changed THEN NoRelease ELSE @]
     IN /\ IF changed THEN Save(rec) ELSE UNCHANGED <<ledger, history>>
        /\ \E j \in Jitter :
             w' = [w EXCEPT !.at = "sleeping", !.rec = rec, !.first = FALSE,
                     !.enabled = config.enabled, !.channel = config.channel,
                     !.last = config.channel,
                     !.due = world.clock + IF w.first THEN Until(rec, Floor) + j
                                                      ELSE Until(rec, Interval)]
  /\ UNCHANGED <<world, config, asked, said>>

\* The next round starts from what is on disk.
Again(at) == [w EXCEPT !.at = at, !.rec = Blank, !.found = NoRelease, !.real = 0, !.raced = FALSE]

Due == w.at = "sleeping" /\ world.clock >= w.due

\* checkNow, switched off: the schedule keeps ticking.
Skip ==
  /\ Due /\ ~w.enabled
  /\ Save([ledger EXCEPT !.check = now])
  /\ w' = [Again("round") EXCEPT !.failed = 0]
  /\ UNCHANGED <<world, config, asked, said>>

\* Mutant: the record from before the wait is used after it.
QueryOnOldRecord ==
  /\ Due /\ w.enabled
  /\ w' = [w EXCEPT !.at = "query", !.failed = 0, !.raced = FALSE]
  /\ UNCHANGED <<world, config, ledger, asked, said, history>>

\* checkNow reads the ledger again: the owner may have asked meanwhile.
Query ==
  /\ Due /\ w.enabled
  /\ w' = [w EXCEPT !.at = "query", !.rec = ledger, !.failed = 0, !.raced = FALSE]
  /\ UNCHANGED <<world, config, ledger, asked, said, history>>

\* Mutant: only a check that succeeded is written down.
FailUnrecorded ==
  /\ w.at = "query"
  /\ w' = [Again("backoff") EXCEPT !.failed = world.clock, !.due = world.clock + Retry]
  /\ history' = [history EXCEPT !.query = world.clock]
  /\ UNCHANGED <<world, config, ledger, asked, said>>

\* The attempt is written down, and the back-off comes before the next round.
Fail ==
  /\ w.at = "query"
  /\ Save([w.rec EXCEPT !.check = now])
  /\ w' = [Again("backoff") EXCEPT !.failed = world.clock, !.due = world.clock + Retry]
  /\ UNCHANGED <<world, config, asked, said>>

Backoff ==
  /\ w.at = "backoff" /\ world.clock >= w.due
  /\ w' = [w EXCEPT !.at = "round"]
  /\ UNCHANGED <<world, config, ledger, asked, said, history>>

Succeed ==
  /\ w.at = "query"
  /\ LET found == Check(w.channel)
         report == found # NoRelease /\ found # w.rec.seen
     IN w' = [w EXCEPT !.at = IF report THEN "report" ELSE "save", !.found = found, !.real = world.clock,
                !.rec = [check |-> now, success |-> now,
                         seen |-> IF report THEN found ELSE w.rec.seen]]
  /\ UNCHANGED <<world, config, ledger, asked, said, history>>

\* reportIfNew: said before it is written down.
Report ==
  /\ w.at = "report"
  /\ said' = said \cup {w.found}
  /\ w' = [w EXCEPT !.at = "save"]
  /\ UNCHANGED <<world, config, ledger, asked, history>>

\* Mutant: written down before it is said.
SaveFirst ==
  /\ w.at \in {"report", "save"}
  /\ Save(w.rec)
  /\ w' = [w EXCEPT !.at = IF @ = "save" THEN "round" ELSE "report"]
  /\ UNCHANGED <<world, config, asked, said>>

Record ==
  /\ w.at = "save"
  /\ Save(w.rec)
  /\ w' = Again("round")
  /\ UNCHANGED <<world, config, asked, said>>

-----------------------------------------------------------------------------
(***************************************************************************)
(* The check at the console.                                               *)
(***************************************************************************)
Up == w.at # "down"

\* checkForUpdateNow takes the settings before it asks.
Ask ==
  /\ Up /\ asked.at = "idle" /\ history.asked < MaxAsked /\ config.enabled
  /\ history' = [history EXCEPT !.asked = @ + 1]
  /\ asked' = [asked EXCEPT !.at = "query", !.channel = config.channel]
  /\ UNCHANGED <<world, config, ledger, w, said>>

\* GitHub is not reached, or its answer is held against the ledger of that moment.
Answer ==
  /\ asked.at = "query"
  /\ \/ asked' = [asked EXCEPT !.at = "idle", !.channel = "none"]
     \/ LET found == Check(asked.channel) IN
        asked' = [at |-> "save", found |-> found, channel |-> "none",
                  rec |-> [check |-> now, success |-> now,
                           seen |-> IF found # NoRelease THEN found ELSE ledger.seen]]
  /\ UNCHANGED <<world, config, ledger, w, said, history>>

AskedSave ==
  /\ asked.at = "save"
  /\ Save(asked.rec)
  /\ asked' = [asked EXCEPT !.at = IF asked.found = NoRelease THEN "idle" ELSE "announce"]
  /\ w' = [w EXCEPT !.raced = @ \/ w.at \in {"query", "report", "save"}]
  /\ UNCHANGED <<world, config, said>>

Announce ==
  /\ asked.at = "announce"
  /\ said' = said \cup {asked.found}
  /\ asked' = [asked EXCEPT !.at = "idle"]
  /\ UNCHANGED <<world, config, ledger, w, history>>

-----------------------------------------------------------------------------
Switch ==
  /\ Trouble < MaxTrouble
  /\ history' = [history EXCEPT !.switches = @ + 1]
  /\ config' \in {[config EXCEPT !.enabled = ~@],
                  [config EXCEPT !.channel = IF @ = "beta" THEN "stable" ELSE "beta"]}
  /\ UNCHANGED <<world, ledger, w, asked, said>>

Publish ==
  /\ \E r \in Releases \ world.published : world' = [world EXCEPT !.published = @ \cup {r}]
  /\ UNCHANGED <<config, ledger, w, asked, said, history>>

Tick ==
  /\ world.clock < MaxClock
  /\ world' = [world EXCEPT !.clock = @ + 1]
  /\ UNCHANGED <<config, ledger, w, asked, said, history>>

SetBack ==
  /\ now > 1 /\ Trouble < MaxTrouble
  /\ world' = [world EXCEPT !.behind = @ + 1]
  /\ history' = [history EXCEPT !.faults = @ + 1]
  /\ UNCHANGED <<config, ledger, w, asked, said>>

\* The process ends, wherever it was.
Crash ==
  /\ Up
  /\ w' = [Again("down") EXCEPT !.due = 0, !.failed = 0, !.last = "none", !.channel = "none",
                               !.enabled = TRUE]
  /\ asked' = [at |-> "idle", rec |-> Blank, found |-> NoRelease, channel |-> "none"]
  /\ said' = {}
  /\ UNCHANGED <<world, config, ledger, history>>

Next ==
  \/ Start \/ Round \/ Skip \/ Query \/ Fail \/ Backoff \/ Succeed \/ Report \/ Record
  \/ Ask \/ Answer \/ AskedSave \/ Announce
  \/ Switch \/ Publish \/ Tick \/ SetBack \/ Crash

Spec == Init /\ [][Next]_vars

-----------------------------------------------------------------------------
Records == [check : 0 .. MaxClock, success : 0 .. MaxClock, seen : Releases \cup {NoRelease, Running}]

TypeOK ==
  /\ world \in [clock : 1 .. MaxClock, behind : 0 .. MaxTrouble,
                published : SUBSET (Releases \cup {Running})]
  /\ ledger \in Records /\ w.rec \in Records /\ asked.rec \in Records
  /\ said \subseteq Releases

\* A release the ledger holds for told, the owner was told of in this very run, or is
\* about to be: a crash between telling and recording never swallows it.
\* (reportIfNew, sayWhatIsAlreadyKnown, checkForUpdateNow.)
SeenIsSaid ==
  Up /\ IsNewer(ledger.seen, Running) =>
    ledger.seen \in said \/ (asked.at = "announce" /\ asked.found = ledger.seen)

\* Only what is above the running release is announced, over every restart and channel.
\* (Check, IsNewer.)
AnnouncedIsNewer == \A r \in said : Newer(r, Running)

\* However often the program is restarted, the wall clock set back or a check fails: a
\* scheduled query comes at least the floor after the last one that was written down.
\* (Until, LastCheck.)
GentleOverRestarts ==
  [][w.at # "query" /\ w'.at = "query" /\ history.query # 0 /\ history.asked = 0 =>
       world.clock - history.query >= Floor]_vars

\* An on-demand check replaces the scheduled one: what it wrote down before that one
\* began is not reported a second time.  (checkNow's second Load.)
NotToldTwice ==
  [][w.at = "report" /\ w'.at = "save" /\ ~w.raced => ledger.seen # w.found]_vars

\* Together: a release is announced, rarely asked for, and not announced twice.
ReleasesAreSaid ==
  [](SeenIsSaid /\ AnnouncedIsNewer) /\ GentleOverRestarts /\ NotToldTwice

\* What watcher.go says of a failed check: the next one comes sooner than the schedule.
RetriesSooner == w.at = "sleeping" /\ w.failed # 0 => w.due <= w.failed + Retry

\* What hub.go says of the settings: a change takes effect on the next check.
OffMeansOff == [][w.at # "query" /\ w'.at = "query" => config.enabled]_vars

\* What update.go says of the stable channel: it receives only full releases.
StableHearsNoBetas ==
  [][Start /\ config.channel = "stable" => \A r \in said' : ~r.pre]_vars
=============================================================================
