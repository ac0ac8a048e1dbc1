------------------------------ MODULE Settings ------------------------------
(***************************************************************************)
(* The settings, which the program holds in four places: the config in     *)
(* memory (Hub.cfg), the copies the hub acts on (Hub.pinEnabled, pinHash), *)
(* the sensor manager's switches, and config.json.  A                      *)
(* settings message changes the first under the hub's lock and brings the  *)
(* others after it with the lock released, one by one, from a snapshot.    *)
(* (internal/ws/hub.go: applyConfigUpdate and what calls it, handleConfigure, *)
(* handleResetConfig, DisarmWithPin, upgradePinHash.)                      *)
(*                                                                         *)
(* One sensor stands for all, and a hash for the PIN it was made from and  *)
(* whether its scheme is an older one.  Left out: the settings nothing     *)
(* copies, autoArmOnLock, which is copied right after the PIN's and asks for *)
(* nothing, the lockout of PIN guesses (see Lockout), and the sensors'     *)
(* running (see Watch).                                                    *)
(***************************************************************************)
EXTENDS FiniteSets

CONSTANTS
  Phones,   \* the connections that send settings messages
  Pins,     \* the PINs they may think of
  None,     \* no PIN
  Initial,  \* the settings the program may first start with
  Wishes    \* the settings a phone may ask for

VARIABLES
  cfg,        \* Hub.cfg
  disk,       \* config.json
  unsaved,    \* history: since the start, the last save has failed
  guard,      \* Hub.pinEnabled and Hub.pinHash
  watching,   \* Manager.enabled
  armed,      \* Hub.armed
  pc,         \* where each phone's message is
  job,        \* what its handler carries out of the lock
  overlapped  \* history: since the last start, two messages were handled at once

vars == <<cfg, disk, unsaved, guard, watching, armed, pc, job, overlapped>>

NoHash == [pin |-> None, old |-> FALSE]
Hash(pin) == [pin |-> pin, old |-> FALSE]
Hashes == [pin : Pins, old : BOOLEAN] \cup {NoHash}

Config == [on : BOOLEAN, hash : Hashes, sensor : BOOLEAN]
Default == [on |-> FALSE, hash |-> NoHash, sensor |-> TRUE]
Wish == [on : BOOLEAN, pin : Pins \cup {None}, sensor : BOOLEAN \cup {None}]

Guard(c) == [on |-> c.on, hash |-> c.hash]
Active(g) == g.on /\ g.hash # NoHash

\* "None" is no PIN and no choice for a sensor; the settings there may be are settings.
ASSUME SettingsConstants ==
  /\ None \notin Pins /\ None \notin BOOLEAN
  /\ Initial \subseteq Config /\ Wishes \subseteq Wish

\* The sensors to tell the manager of, if any; the PIN that was presented; the
\* guard it is checked against; and whether the snapshot still shares its map of
\* sensors with the config.  A config that has no map yet is taken to have one: the
\* first choice of sensors is then seen by the snapshots before it, which save it
\* sooner than the code does.
Job == [snap : Config, tell : BOOLEAN \cup {None}, given : Pins \cup {None},
        seen : [on : BOOLEAN, hash : Hashes], shared : BOOLEAN]
NoJob == [snap |-> Default, tell |-> None, given |-> None,
          seen |-> Guard(Default), shared |-> FALSE]

Places == {"idle", "save", "guard", "tell", "apply", "store",
           "check", "upgrade", "saveHash", "disarm"}

TypeOK ==
  /\ cfg \in Config /\ disk \in Config /\ unsaved \in BOOLEAN
  /\ guard \in [on : BOOLEAN, hash : Hashes]
  /\ watching \in BOOLEAN
  /\ armed \in BOOLEAN /\ overlapped \in BOOLEAN
  /\ pc \in [Phones -> Places] /\ job \in [Phones -> Job]

\* The program starts from the file, and from every sensor of its map.
Init ==
  /\ cfg \in Initial /\ disk = cfg /\ unsaved = FALSE
  /\ guard = Guard(cfg) /\ watching = cfg.sensor
  /\ armed = FALSE
  /\ pc = [p \in Phones |-> "idle"] /\ job = [p \in Phones |-> NoJob]
  /\ overlapped = FALSE

-----------------------------------------------------------------------------
Busy(p) == pc[p] # "idle"

Begin(p, place, j) ==
  /\ pc[p] = "idle"
  /\ pc' = [pc EXCEPT ![p] = place]
  /\ job' = [job EXCEPT ![p] = j]
  /\ overlapped' = (overlapped \/ \E q \in Phones : Busy(q))

\* To the next place, with what is still needed there.
Go(p, from, to, j) ==
  /\ pc[p] = from
  /\ pc' = [pc EXCEPT ![p] = to]
  /\ job' = [job EXCEPT ![p] = j]
  /\ UNCHANGED overlapped

\* Begin, with the snapshots the others carry no longer sharing the config's map.
BeginWithNewMap(p, place, j) ==
  /\ pc[p] = "idle"
  /\ pc' = [pc EXCEPT ![p] = place]
  /\ job' = [q \in Phones |-> IF q = p THEN j ELSE [job[q] EXCEPT !.shared = FALSE]]
  /\ overlapped' = (overlapped \/ \E q \in Phones : Busy(q))

-----------------------------------------------------------------------------
(***************************************************************************)
(* update_config                                                           *)
(***************************************************************************)
\* Mutant: only a new PIN is a change of the PIN settings.
ChangesPinOnly(want) == want.pin # None

ChangesPin(want) == want.on # cfg.on \/ want.pin # None

\* Mutant: the PIN itself is stored.
StoredAsItself(pin) == pin

Stored(pin) == Hash(pin)

\* Sensors are left alone while the machine is armed, unless the map that came
\* back is what the manager already has.
Refused(want) == want.sensor # None /\ armed /\ want.sensor # watching

Updated(want) ==
  [on |-> want.on,
   hash |-> IF want.pin # None THEN Stored(want.pin) ELSE cfg.hash,
   sensor |-> IF want.sensor = None \/ Refused(want) THEN cfg.sensor ELSE want.sensor]

\* Whether the current PIN has to come with the message.
Asked(want) == Active(Guard(cfg)) /\ ChangesPin(want)

\* applyConfigUpdate, all of it under the lock.
Update(p, want, given) ==
  /\ IF Asked(want) THEN given = cfg.hash.pin ELSE given = None
  /\ cfg' = Updated(want)
  /\ LET tell == IF Refused(want) THEN None ELSE want.sensor
         j == [NoJob EXCEPT !.snap = Updated(want), !.tell = tell,
                            !.given = given, !.shared = TRUE]
     IN  IF tell = None THEN Begin(p, "save", j) ELSE BeginWithNewMap(p, "save", j)
  /\ UNCHANGED <<disk, unsaved, guard, watching, armed>>

(***************************************************************************)
(* reset_config.  The sensor map becomes nil: every sensor watches.        *)
(***************************************************************************)
Reset(p, given) ==
  /\ IF Active(Guard(cfg)) THEN given = cfg.hash.pin ELSE given = None
  /\ cfg' = Default
  /\ BeginWithNewMap(p, "save", [NoJob EXCEPT !.snap = Default, !.tell = TRUE,
                                              !.given = given])
  /\ UNCHANGED <<disk, unsaved, guard, watching, armed>>

(***************************************************************************)
(* configure.  It stores into the map the config has, in place, and a      *)
(* snapshot somebody is still saving sees that.                            *)
(***************************************************************************)
Configure(p, want) ==
  /\ ~armed
  /\ Begin(p, "apply", [NoJob EXCEPT !.tell = want])
  /\ UNCHANGED <<cfg, disk, unsaved, guard, watching, armed>>

Apply(p) ==
  /\ Go(p, "apply", "store", job[p])
  /\ watching' = job[p].tell
  /\ UNCHANGED <<cfg, disk, unsaved, guard, armed>>

Store(p) ==
  /\ pc[p] = "store"
  /\ LET c == [cfg EXCEPT !.sensor = job[p].tell] IN
       /\ cfg' = c
       /\ job' = [q \in Phones |->
            IF q = p THEN [NoJob EXCEPT !.snap = c, !.shared = TRUE]
            ELSE IF job[q].shared THEN [job[q] EXCEPT !.snap.sensor = job[p].tell]
            ELSE job[q]]
  /\ pc' = [pc EXCEPT ![p] = "saveHash"]
  /\ UNCHANGED <<disk, unsaved, guard, watching, armed, overlapped>>

-----------------------------------------------------------------------------
(***************************************************************************)
(* What follows with the lock released.                                    *)
(***************************************************************************)
\* config.Save, a whole file at a time.  When it fails the old file stays, the
\* error is logged, and the handler goes on as if it had not.
Write(c) ==
  \/ disk' = c /\ unsaved' = FALSE
  \/ UNCHANGED disk /\ unsaved' = TRUE

Save(p) ==
  /\ Go(p, "save", "guard", [job[p] EXCEPT !.given = None, !.shared = FALSE,
                                           !.snap.sensor = TRUE])
  /\ Write(job[p].snap)
  /\ UNCHANGED <<cfg, guard, watching, armed>>

\* Mutant: a PIN that was switched off is still asked for.
SetPinOn(p) ==
  /\ Go(p, "guard", "tell", [NoJob EXCEPT !.tell = job[p].tell])
  /\ guard' = IF job[p].snap.on THEN Guard(job[p].snap) ELSE guard
  /\ UNCHANGED <<cfg, disk, unsaved, watching, armed>>

SetPinProtection(p) ==
  /\ Go(p, "guard", "tell", [NoJob EXCEPT !.tell = job[p].tell])
  /\ guard' = Guard(job[p].snap)
  /\ UNCHANGED <<cfg, disk, unsaved, watching, armed>>

TellSensors(p) ==
  /\ Go(p, "tell", "idle", NoJob)
  /\ watching' = IF job[p].tell = None THEN watching ELSE job[p].tell
  /\ UNCHANGED <<cfg, disk, unsaved, guard, armed>>

-----------------------------------------------------------------------------
(***************************************************************************)
(* Arming, and disarming with the PIN.                                     *)
(***************************************************************************)
Arm ==
  /\ armed' = TRUE
  /\ UNCHANGED <<cfg, disk, unsaved, guard, watching, pc, job, overlapped>>

DisarmWithPin(p, given) ==
  /\ (given = None) = ~Active(guard)
  /\ Begin(p, "check", [NoJob EXCEPT !.given = given, !.seen = guard])
  /\ UNCHANGED <<cfg, disk, unsaved, guard, watching, armed>>

\* The PIN is checked against the guard that was read, which may have changed.
\* HashPin of the new hash fails only with the system's randomness, which ends the
\* program first.
CheckPin(p) ==
  LET seen == job[p].seen IN
  /\ \/ /\ Active(seen) => job[p].given = seen.hash.pin /\ ~seen.hash.old
        /\ Go(p, "check", "disarm", NoJob)
     \/ /\ Active(seen) /\ job[p].given = seen.hash.pin /\ seen.hash.old
        /\ Go(p, "check", "upgrade", [NoJob EXCEPT !.given = job[p].given])
     \/ /\ Active(seen) /\ job[p].given # seen.hash.pin
        /\ Go(p, "check", "idle", NoJob)
  /\ UNCHANGED <<cfg, disk, unsaved, guard, watching, armed>>

\* upgradePinHash writes the PIN it was given over whatever is stored by now.
Upgrade(p) ==
  /\ pc[p] = "upgrade" /\ pc' = [pc EXCEPT ![p] = "saveHash"]
  /\ guard' = [guard EXCEPT !.hash = Hash(job[p].given)]
  /\ cfg' = [cfg EXCEPT !.hash = Hash(job[p].given)]
  /\ job' = [job EXCEPT ![p].snap = cfg', ![p].shared = TRUE]
  /\ UNCHANGED <<disk, unsaved, watching, armed, overlapped>>

\* The saves that nothing but an unlocked disarm follows.
SaveHash(p) ==
  /\ Go(p, "saveHash", IF job[p].given = None THEN "idle" ELSE "disarm", NoJob)
  /\ Write(job[p].snap)
  /\ UNCHANGED <<cfg, guard, watching, armed>>

Disarm(p) ==
  /\ Go(p, "disarm", "idle", NoJob)
  /\ armed' = FALSE
  /\ UNCHANGED <<cfg, disk, unsaved, guard, watching>>

\* The program stops between any two steps, and starts again from the file.  An armed
\* flag that is restored with it is an Arm that follows.
Restart ==
  /\ cfg' = disk /\ UNCHANGED disk /\ unsaved' = FALSE
  /\ guard' = Guard(disk) /\ watching' = disk.sensor
  /\ armed' = FALSE
  /\ pc' = [p \in Phones |-> "idle"] /\ job' = [p \in Phones |-> NoJob]
  /\ overlapped' = FALSE

-----------------------------------------------------------------------------
Next ==
  \/ \E p \in Phones :
       \/ \E given \in Pins \cup {None} :
            \/ \E want \in Wishes : Update(p, want, given)
            \/ Reset(p, given) \/ DisarmWithPin(p, given)
       \/ \E want \in BOOLEAN : Configure(p, want)
       \/ Apply(p) \/ Store(p) \/ Save(p) \/ SetPinProtection(p) \/ TellSensors(p)
       \/ CheckPin(p) \/ Upgrade(p) \/ SaveHash(p) \/ Disarm(p)
  \/ Arm \/ Restart

Spec == Init /\ [][Next]_vars

-----------------------------------------------------------------------------
Quiet == \A p \in Phones : ~Busy(p)

\* As long as one message was handled at a time, the places agree once it is done:
\* what disarming asks for, what the phones are shown and what the sensors do are
\* the same settings whatever became of the saves, and what the next start will
\* read is those settings too unless the very last save failed.  A save that
\* succeeds makes good all that failed before it, and a start half-way through a
\* message makes the places agree on the file.  (handleUpdateConfig,
\* handleResetConfig, handleConfigure, upgradePinHash, Load.)
SettingsAgree ==
  (Quiet /\ ~overlapped) =>
    /\ guard = Guard(cfg) /\ watching = cfg.sensor
    /\ disk # cfg => unsaved

\* While a PIN guards the machine, whoever changes it or switches it off has
\* just shown the one that is stored, whatever other phones are doing; a restart
\* goes back to the file.  (applyConfigUpdate, handleResetConfig.)  The one hole
\* is an upgrade of the hash that another phone's change overtook.
PinIsGuarded ==
  [][ (Active(Guard(cfg)) /\ Guard(cfg') # Guard(cfg))
        => \/ \E p \in Phones : job'[p] # job[p] /\ job'[p].given = cfg.hash.pin
           \/ Restart
           \/ overlapped /\ \E p \in Phones : Upgrade(p) ]_vars

\* Together: the settings are one thing in four places, and the PIN guards itself.
SettingsHold == [](TypeOK /\ SettingsAgree) /\ PinIsGuarded

(***************************************************************************)
(* What the source says, and what the code does not keep.                  *)
(***************************************************************************)

\* upgradePinHash "rewrites a stored PIN hash that uses an older scheme": what
\* it overwrites is the hash the PIN was checked against, and not a PIN somebody
\* has set since.
UpgradeKeepsThePin ==
  [][\A p \in Phones : Upgrade(p) => cfg.hash.pin \in {job[p].given, None}]_vars

\* "Configuration updated from client", handleUpdateConfig ends: what the next start
\* reads is what the phones are shown.  Broken by a save that fails.
SettingsAreSaved == (Quiet /\ ~overlapped) => disk = cfg
=============================================================================
