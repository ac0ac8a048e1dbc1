---------------------------- MODULE Settings_proofs ----------------------------
(***************************************************************************)
(* Proofs about Settings, for any phones and PINs.                         *)
(*                                                                         *)
(* A message that is handled alone leaves the places in agreement because  *)
(* what it carries out of the lock is, step by step, what the places still *)
(* lack; the file alone may go on lacking it, and only when the last save  *)
(* failed.  A PIN is overwritten without having been shown only by an      *)
(* upgrade that another message has met.                                   *)
(***************************************************************************)
EXTENDS Settings, TLAPS

Guards == [on : BOOLEAN, hash : Hashes]

\* The file is behind only when the last save failed.
Kept == disk # cfg => unsaved

Agree == Kept /\ guard = Guard(cfg) /\ watching = cfg.sensor

\* What a handler has in hand by where it is, whoever else is on their way.
Carries(p) ==
  /\ pc[p] = "idle" => job[p] = NoJob
  /\ pc[p] \in {"apply", "store"} => job[p].tell \in BOOLEAN
  /\ pc[p] = "upgrade" => job[p].given \in Pins /\ job[p].shared = FALSE

\* What the places lack by where the handler is, with nobody else on their way.
Lacks(p) ==
  /\ pc[p] \in {"idle", "apply", "check", "upgrade", "disarm"} => Agree
  /\ pc[p] \in {"save", "saveHash"} => job[p].snap = cfg
  /\ pc[p] = "guard" => Guard(job[p].snap) = Guard(cfg)
  /\ pc[p] \in {"guard", "tell"} => Kept
  /\ pc[p] \in {"tell", "store", "saveHash"} => guard = Guard(cfg)
  /\ pc[p] \in {"save", "guard", "tell"} =>
       job[p].tell = cfg.sensor \/ (job[p].tell = None /\ watching = cfg.sensor)
  /\ pc[p] = "store" => watching = job[p].tell
  /\ pc[p] = "saveHash" => watching = cfg.sensor
  /\ pc[p] = "check" => job[p].seen = guard
  /\ pc[p] = "upgrade" => job[p].given = cfg.hash.pin

\* One message at a time: the others rest.
OneAtATime ==
  overlapped = FALSE =>
    /\ Quiet => Agree
    /\ \A p \in Phones : Busy(p) => Lacks(p) /\ \A q \in Phones \ {p} : ~Busy(q)

SInv == TypeOK /\ (\A p \in Phones : Carries(p)) /\ OneAtATime

-----------------------------------------------------------------------------
(***************************************************************************)
(* What the settings are made of.                                          *)
(***************************************************************************)
LEMMA Hashing ==
  /\ NoHash \in Hashes /\ \A pin \in Pins : Hash(pin) \in Hashes /\ Hash(pin).pin = pin
  /\ \A h \in Hashes : h # NoHash => h.pin \in Pins
  BY DEF Hashes, NoHash, Hash

LEMMA Configs ==
  /\ Default \in Config /\ Default.sensor = TRUE
  /\ \A c \in Config :
       /\ Guard(c) \in Guards /\ Guard(c).on = c.on /\ Guard(c).hash = c.hash
       /\ c.on \in BOOLEAN /\ c.hash \in Hashes /\ c.sensor \in BOOLEAN
       /\ \A b \in BOOLEAN : LET d == [c EXCEPT !.sensor = b] IN
            d \in Config /\ d.sensor = b /\ Guard(d) = Guard(c)
       /\ \A h \in Hashes : LET d == [c EXCEPT !.hash = h] IN
            d \in Config /\ d.sensor = c.sensor /\ Guard(d) = [Guard(c) EXCEPT !.hash = h]
  <1>1. Default \in Config /\ Default.sensor = TRUE
    BY Hashing DEF Default, Config
  <1>2. ASSUME NEW c \in Config
        PROVE  /\ Guard(c) \in Guards /\ Guard(c).on = c.on /\ Guard(c).hash = c.hash
               /\ c.on \in BOOLEAN /\ c.hash \in Hashes /\ c.sensor \in BOOLEAN
    BY DEF Config, Guard, Guards
  <1>3. ASSUME NEW c \in Config, NEW b \in BOOLEAN
        PROVE  LET d == [c EXCEPT !.sensor = b] IN
                 d \in Config /\ d.sensor = b /\ Guard(d) = Guard(c)
    BY DEF Config, Guard
  <1>4. ASSUME NEW c \in Config, NEW h \in Hashes
        PROVE  LET d == [c EXCEPT !.hash = h] IN
                 d \in Config /\ d.sensor = c.sensor /\ Guard(d) = [Guard(c) EXCEPT !.hash = h]
    BY DEF Config, Guard
  <1>5. QED
    BY <1>1, <1>2, <1>3, <1>4

Tells == BOOLEAN \cup {None}
Given == Pins \cup {None}

LEMMA Jobs ==
  /\ NoJob \in Job /\ NoJob.given = None /\ NoJob.shared = FALSE /\ NoJob.tell = None
  /\ \A j \in Job : j.snap \in Config /\ j.tell \in Tells /\ j.given \in Given /\ j.seen \in Guards
  <1>1. Guard(Default) \in Guards
    BY Configs
  <1>2. Job = [snap : Config, tell : Tells, given : Given, seen : Guards, shared : BOOLEAN]
    BY DEF Job, Tells, Given, Guards
  <1>3. NoJob \in Job
    BY <1>1, <1>2, Configs DEF NoJob, Tells, Given
  <1>4. NoJob.given = None /\ NoJob.shared = FALSE /\ NoJob.tell = None
    BY DEF NoJob
  <1>5. QED
    BY <1>2, <1>3, <1>4

\* A job with some of its fields set.
LEMMA Fields == Job = [snap : Config, tell : Tells, given : Given, seen : Guards, shared : BOOLEAN] /\ None \in Given
  BY DEF Job, Tells, Given, Guards

UpdatedJob(c, t, g) == [NoJob EXCEPT !.snap = c, !.tell = t, !.given = g, !.shared = TRUE]
NewJob(g) == [NoJob EXCEPT !.snap = Default, !.tell = TRUE, !.given = g]

LEMMA UpdateJob ==
  ASSUME NEW c \in Config, NEW t \in Tells, NEW g \in Given
  PROVE  UpdatedJob(c, t, g) \in Job /\ UpdatedJob(c, t, g).snap = c
         /\ UpdatedJob(c, t, g).tell = t /\ UpdatedJob(c, t, g).given = g
  <1>1. NoJob \in Job
    BY Jobs
  <1>2. UpdatedJob(c, t, g) \in Job
    BY <1>1, Fields DEF UpdatedJob
  <1>3. UpdatedJob(c, t, g).snap = c /\ UpdatedJob(c, t, g).tell = t /\ UpdatedJob(c, t, g).given = g
    BY <1>1, Fields DEF UpdatedJob
  <1>4. QED
    BY <1>2, <1>3

LEMMA ResetJob ==
  ASSUME NEW g \in Given
  PROVE  NewJob(g) \in Job /\ NewJob(g).snap = Default /\ NewJob(g).tell = TRUE /\ NewJob(g).given = g
  <1>1. NoJob \in Job /\ Default \in Config /\ TRUE \in Tells
    BY Jobs, Configs DEF Tells
  <1>2. NewJob(g) \in Job
    BY <1>1, Fields DEF NewJob
  <1>3. NewJob(g).snap = Default /\ NewJob(g).tell = TRUE /\ NewJob(g).given = g
    BY <1>1, Fields DEF NewJob
  <1>4. QED
    BY <1>2, <1>3

LEMMA ToldJob ==
  ASSUME NEW j \in Job, NEW t \in Tells
  PROVE  LET k == [j EXCEPT !.tell = t] IN k \in Job /\ k.tell = t
  BY Fields

LEMMA CheckJob ==
  ASSUME NEW j \in Job, NEW g \in Given, NEW s \in Guards
  PROVE  LET k == [j EXCEPT !.given = g, !.seen = s] IN k \in Job /\ k.seen = s
  BY Fields

LEMMA GivenJob ==
  ASSUME NEW j \in Job, NEW g \in Given
  PROVE  LET k == [j EXCEPT !.given = g] IN k \in Job /\ k.given = g /\ k.shared = j.shared
  BY Fields

LEMMA StoreJob ==
  ASSUME NEW j \in Job, NEW c \in Config
  PROVE  LET k == [j EXCEPT !.snap = c, !.shared = TRUE] IN k \in Job /\ k.snap = c /\ k.shared = TRUE /\ k.given = j.given
  BY Fields

LEMMA SavedJob ==
  ASSUME NEW j \in Job, NEW c \in Config
  PROVE  LET k == [j EXCEPT !.given = None, !.shared = FALSE, !.snap = c] IN k \in Job /\ k.snap = c /\ k.tell = j.tell
  BY Fields

LEMMA FreeJob ==
  ASSUME NEW j \in Job
  PROVE  LET k == [j EXCEPT !.shared = FALSE] IN k \in Job /\ k.tell = j.tell /\ (j.shared = FALSE => k = j)
  BY Fields

LEMMA SharingJob ==
  ASSUME NEW j \in Job, NEW c \in Config
  PROVE  LET k == [j EXCEPT !.snap = c] IN k \in Job /\ k.tell = j.tell /\ k.shared = j.shared
  BY Fields

-----------------------------------------------------------------------------
(***************************************************************************)
(* A step of a handler.                                                    *)
(***************************************************************************)
\* What it leaves lacking carries over to everybody when the others rest.
LEMMA OthersRest ==
  ASSUME SInv, NEW p \in Phones, NEW to, pc' = [pc EXCEPT ![p] = to],
         \/ pc[p] = "idle" /\ overlapped' = (overlapped \/ \E q \in Phones : Busy(q))
         \/ pc[p] # "idle" /\ overlapped' = overlapped,
         Lacks(p) => Lacks(p)'
  PROVE  OneAtATime'
  <1>1. SUFFICES ASSUME overlapped' = FALSE
                 PROVE  /\ Quiet' => Agree'
                        /\ \A q \in Phones : Busy(q)' => Lacks(q)' /\ \A r \in Phones \ {q} : ~Busy(r)'
    BY DEF OneAtATime
  <1>2. overlapped \in BOOLEAN /\ pc \in [Phones -> Places]
    BY DEF SInv, TypeOK
  <1>3. CASE pc[p] = "idle"
    <2>1. overlapped = FALSE /\ \A q \in Phones : ~Busy(q)
      BY <1>1, <1>2, <1>3
    <2>2. Agree
      BY <2>1 DEF SInv, OneAtATime, Quiet
    <2>3. Lacks(p)
      BY <1>3, <2>2 DEF Lacks
    <2>4. Lacks(p)' /\ \A q \in Phones \ {p} : pc'[q] = "idle"
      BY <1>2, <2>1, <2>3 DEF Busy
    <2>5. Quiet' => Agree'
      BY <2>4 DEF Quiet, Busy, Lacks
    <2>6. QED
      BY <2>4, <2>5 DEF Busy
  <1>4. CASE pc[p] # "idle"
    <2>1. overlapped = FALSE
      BY <1>1, <1>2, <1>4
    <2>2. Lacks(p) /\ \A q \in Phones \ {p} : ~Busy(q)
      BY <1>4, <2>1 DEF SInv, OneAtATime, Busy
    <2>3. Lacks(p)' /\ \A q \in Phones \ {p} : pc'[q] = "idle"
      BY <1>2, <2>2 DEF Busy
    <2>4. Quiet' => Agree'
      BY <2>3 DEF Quiet, Busy, Lacks
    <2>5. QED
      BY <2>3, <2>4 DEF Busy
  <1>5. QED
    BY <1>3, <1>4

LEMMA HandlerStep ==
  ASSUME SInv, NEW p \in Phones, NEW to \in Places, NEW k \in Job,
         pc' = [pc EXCEPT ![p] = to],
         \/ pc[p] = "idle" /\ overlapped' = (overlapped \/ \E q \in Phones : Busy(q))
         \/ pc[p] # "idle" /\ overlapped' = overlapped,
         job' \in [Phones -> Job], job'[p] = k,
         \A q \in Phones \ {p} : /\ job'[q].tell = job[q].tell
                                 /\ job[q].shared = FALSE => job'[q] = job[q],
         cfg' \in Config, disk' \in Config, unsaved' \in BOOLEAN, guard' \in Guards, watching' \in BOOLEAN, armed' \in BOOLEAN,
         to = "idle" => k = NoJob,
         to \in {"apply", "store"} => k.tell \in BOOLEAN,
         to = "upgrade" => k.given \in Pins /\ k.shared = FALSE,
         Lacks(p) => Lacks(p)'
  PROVE  SInv'
  <1>1. pc \in [Phones -> Places] /\ overlapped \in BOOLEAN
    BY DEF SInv, TypeOK
  <1>2. TypeOK'
    <2>1. pc' \in [Phones -> Places]
      BY <1>1
    <2>2. overlapped' \in BOOLEAN
      BY <1>1
    <2>3. QED
      BY <2>1, <2>2 DEF TypeOK, Guards
  <1>3. ASSUME NEW q \in Phones PROVE Carries(q)'
    <2>1. CASE q = p
      BY <1>1, <2>1 DEF Carries
    <2>2. CASE q # p
      <3>1. pc'[q] = pc[q] /\ Carries(q)
        BY <1>1, <2>2 DEF SInv
      <3>2. pc[q] = "idle" => job'[q] = NoJob
        BY <2>2, <3>1, Jobs DEF Carries
      <3>3. pc[q] \in {"apply", "store"} => job'[q].tell \in BOOLEAN
        BY <2>2, <3>1 DEF Carries
      <3>4. pc[q] = "upgrade" => job'[q].given \in Pins /\ job'[q].shared = FALSE
        BY <2>2, <3>1 DEF Carries
      <3>5. QED
        BY <3>1, <3>2, <3>3, <3>4 DEF Carries
    <2>3. QED
      BY <2>1, <2>2
  <1>4. OneAtATime'
    BY OthersRest
  <1>5. QED
    BY <1>2, <1>3, <1>4 DEF SInv

\* What is where, before a step.
LEMMA Before ==
  ASSUME SInv, NEW p \in Phones
  PROVE  /\ cfg \in Config /\ disk \in Config /\ unsaved \in BOOLEAN /\ guard \in Guards /\ watching \in BOOLEAN /\ armed \in BOOLEAN
         /\ pc \in [Phones -> Places] /\ job \in [Phones -> Job] /\ job[p] \in Job /\ Carries(p)
  BY DEF SInv, TypeOK, Guards

\* The same, for a step by which no other handler's job is touched.
LEMMA OwnStep ==
  ASSUME SInv, NEW p \in Phones, NEW to \in Places, NEW k \in Job,
         pc' = [pc EXCEPT ![p] = to],
         \/ pc[p] = "idle" /\ overlapped' = (overlapped \/ \E q \in Phones : Busy(q))
         \/ pc[p] # "idle" /\ overlapped' = overlapped,
         job' = [job EXCEPT ![p] = k],
         cfg' \in Config, disk' \in Config, unsaved' \in BOOLEAN, guard' \in Guards, watching' \in BOOLEAN, armed' \in BOOLEAN,
         to = "idle" => k = NoJob,
         to \in {"apply", "store"} => k.tell \in BOOLEAN,
         to = "upgrade" => k.given \in Pins /\ k.shared = FALSE,
         Lacks(p) /\ pc'[p] = to /\ job'[p] = k => Lacks(p)'
  PROVE  SInv'
  <1>1. pc \in [Phones -> Places] /\ job \in [Phones -> Job]
    BY Before
  <1>2. pc'[p] = to /\ job'[p] = k /\ job' \in [Phones -> Job]
    BY <1>1
  <1>3. \A q \in Phones \ {p} : /\ job'[q].tell = job[q].tell
                                /\ job[q].shared = FALSE => job'[q] = job[q]
    BY <1>1
  <1>4. QED
    BY <1>2, <1>3, HandlerStep

\* A message that is begun, with the others' snapshots let go of or not.
LEMMA BeginStep ==
  ASSUME SInv, NEW p \in Phones, NEW to \in Places \ {"idle", "store", "upgrade"}, NEW k \in Job,
         Begin(p, to, k) \/ BeginWithNewMap(p, to, k),
         cfg' \in Config, UNCHANGED <<disk, unsaved, guard, watching, armed>>,
         to = "apply" => k.tell \in BOOLEAN,
         Lacks(p) /\ pc[p] = "idle" /\ pc'[p] = to /\ job'[p] = k => Lacks(p)'
  PROVE  SInv'
  <1>0. /\ disk \in Config /\ unsaved \in BOOLEAN /\ guard \in Guards /\ watching \in BOOLEAN /\ armed \in BOOLEAN
        /\ pc \in [Phones -> Places] /\ job \in [Phones -> Job]
    BY Before
  <1>1. /\ pc[p] = "idle" /\ pc' = [pc EXCEPT ![p] = to]
        /\ overlapped' = (overlapped \/ \E q \in Phones : Busy(q))
    BY Zenon DEF Begin, BeginWithNewMap
  <1>2. job' \in [Phones -> Job] /\ job'[p] = k
        /\ \A q \in Phones \ {p} : /\ job'[q].tell = job[q].tell
                                   /\ job[q].shared = FALSE => job'[q] = job[q]
    <2>1. CASE Begin(p, to, k)
      <3>1. job' = [job EXCEPT ![p] = k]
        BY <2>1 DEF Begin
      <3>2. QED
        BY <1>0, <3>1
    <2>2. CASE BeginWithNewMap(p, to, k)
      <3>1. job' = [q \in Phones |-> IF q = p THEN k ELSE [job[q] EXCEPT !.shared = FALSE]]
        BY <2>2 DEF BeginWithNewMap
      <3>. DEFINE Free(j) == [j EXCEPT !.shared = FALSE]
      <3>2. \A j \in Job : Free(j) \in Job /\ Free(j).tell = j.tell /\ (j.shared = FALSE => Free(j) = j)
        <4>1. SUFFICES ASSUME NEW j \in Job
                       PROVE  Free(j) \in Job /\ Free(j).tell = j.tell /\ (j.shared = FALSE => Free(j) = j)
          OBVIOUS
        <4>2. QED
          BY FreeJob
      <3>3. job' = [q \in Phones |-> IF q = p THEN k ELSE Free(job[q])]
        BY <3>1
      <3>. HIDE DEF Free
      <3>4. QED
        BY <1>0, <3>2, <3>3
    <2>3. QED
      BY <2>1, <2>2
  <1>3. pc'[p] = to
    BY <1>0, <1>1
  <1>4. QED
    BY <1>0, <1>1, <1>2, <1>3, HandlerStep

-----------------------------------------------------------------------------
(***************************************************************************)
(* The steps.                                                              *)
(***************************************************************************)
\* What an update makes of the config, and what it has the manager told.
LEMMA Updates ==
  ASSUME SInv, NEW want \in Wish
  PROVE  LET tell == IF Refused(want) THEN None ELSE want.sensor IN
         /\ Updated(want) \in Config /\ tell \in Tells
         /\ \/ tell = Updated(want).sensor
            \/ tell = None /\ Updated(want).sensor = cfg.sensor
         /\ ~ChangesPin(want) => Guard(Updated(want)) = Guard(cfg)
  <1>. DEFINE tell == IF Refused(want) THEN None ELSE want.sensor
              h == IF want.pin # None THEN Stored(want.pin) ELSE cfg.hash
              s == IF want.sensor = None \/ Refused(want) THEN cfg.sensor ELSE want.sensor
  <1>1. want.on \in BOOLEAN /\ want.pin \in Given /\ want.sensor \in Tells
    BY DEF Wish, Given, Tells
  <1>2. cfg \in Config /\ cfg.on \in BOOLEAN /\ cfg.hash \in Hashes /\ cfg.sensor \in BOOLEAN
        /\ Guard(cfg) = [on |-> cfg.on, hash |-> cfg.hash]
    BY Configs DEF SInv, TypeOK, Guard
  <1>3. h \in Hashes /\ (want.pin = None => h = cfg.hash)
    BY <1>1, <1>2, Hashing DEF Given, Stored
  <1>4. s \in BOOLEAN /\ tell \in Tells /\ (tell = s \/ (tell = None /\ s = cfg.sensor))
    <2>1. CASE Refused(want)
      BY <1>2, <2>1 DEF Tells
    <2>2. CASE ~Refused(want)
      BY <1>1, <1>2, <2>2 DEF Tells
    <2>3. QED
      BY <2>1, <2>2
  <1>5. Updated(want) = [on |-> want.on, hash |-> h, sensor |-> s]
    BY Zenon DEF Updated
  <1>6. ~ChangesPin(want) => want.on = cfg.on /\ want.pin = None
    BY Zenon DEF ChangesPin
  <1>. HIDE DEF h, s, tell
  <1>7. Updated(want) \in Config /\ Updated(want).sensor = s
        /\ Guard(Updated(want)) = [on |-> want.on, hash |-> h]
    BY <1>1, <1>3, <1>4, <1>5 DEF Config, Guard
  <1>8. ~ChangesPin(want) => Guard(Updated(want)) = Guard(cfg)
    BY <1>2, <1>3, <1>6, <1>7
  <1>9. QED
    BY <1>4, <1>7, <1>8 DEF tell

LEMMA UpdateStep ==
  ASSUME SInv, NEW p \in Phones, NEW want \in Wishes, NEW given \in Given, Update(p, want, given)
  PROVE  SInv'
  <1>. DEFINE tell == IF Refused(want) THEN None ELSE want.sensor
              c == Updated(want)
              k == UpdatedJob(c, tell, given)
  <1>1. c \in Config /\ tell \in Tells /\ (tell = c.sensor \/ (tell = None /\ c.sensor = cfg.sensor))
    BY Updates, SettingsConstants
  <1>2. cfg' = c /\ UNCHANGED <<disk, unsaved, guard, watching, armed>>
        /\ (Begin(p, "save", k) \/ BeginWithNewMap(p, "save", k))
    BY Zenon DEF Update, UpdatedJob
  <1>. HIDE DEF tell, c
  <1>3. k \in Job /\ k.snap = c /\ k.tell = tell
    BY <1>1, UpdateJob
  <1>. HIDE DEF k
  <1>4. ASSUME Lacks(p), pc[p] = "idle", pc'[p] = "save", job'[p] = k PROVE Lacks(p)'
    <2>1. watching = cfg.sensor
      BY <1>4 DEF Lacks, Agree, Kept
    <2>2. job'[p].snap = cfg'
          /\ (job'[p].tell = cfg'.sensor \/ (job'[p].tell = None /\ watching' = cfg'.sensor))
      BY <1>1, <1>2, <1>3, <1>4, <2>1
    <2>3. QED
      BY <1>4, <2>2 DEF Lacks
  <1>5. "save" \in Places \ {"idle", "store", "upgrade"}
    BY DEF Places
  <1>6. QED
    BY <1>1, <1>2, <1>3, <1>4, <1>5, BeginStep

LEMMA ResetStep ==
  ASSUME SInv, NEW p \in Phones, NEW given \in Given, Reset(p, given) PROVE SInv'
  <1>. DEFINE k == NewJob(given)
  <1>1. cfg' = Default /\ UNCHANGED <<disk, unsaved, guard, watching, armed>> /\ BeginWithNewMap(p, "save", k)
    BY Zenon DEF Reset, NewJob
  <1>2. k \in Job /\ k.snap = Default /\ k.tell = TRUE
    BY ResetJob
  <1>. HIDE DEF k
  <1>3. ASSUME pc'[p] = "save", job'[p] = k PROVE Lacks(p)'
    BY <1>1, <1>2, <1>3, Configs DEF Lacks
  <1>4. "save" \in Places \ {"idle", "store", "upgrade"}
    BY DEF Places
  <1>5. QED
    BY <1>1, <1>2, <1>3, <1>4, BeginStep, Configs

LEMMA ConfigureStep ==
  ASSUME SInv, NEW p \in Phones, NEW want \in BOOLEAN, Configure(p, want) PROVE SInv'
  <1>. DEFINE k == [NoJob EXCEPT !.tell = want]
  <1>1. UNCHANGED <<cfg, disk, unsaved, guard, watching, armed>> /\ Begin(p, "apply", k)
    BY Zenon DEF Configure
  <1>2. k \in Job /\ k.tell = want
    <2>1. want \in Tells
      BY DEF Tells
    <2>2. QED
      BY <2>1, Jobs, ToldJob, Zenon
  <1>. HIDE DEF k
  <1>3. ASSUME Lacks(p), pc[p] = "idle", pc'[p] = "apply" PROVE Lacks(p)'
    BY <1>1, <1>3 DEF Lacks, Agree, Kept
  <1>4. "apply" \in Places \ {"idle", "store", "upgrade"} /\ cfg' \in Config
    BY <1>1, Before DEF Places
  <1>5. QED
    BY <1>1, <1>2, <1>3, <1>4, BeginStep

LEMMA DisarmWithPinStep ==
  ASSUME SInv, NEW p \in Phones, NEW given \in Given, DisarmWithPin(p, given) PROVE SInv'
  <1>. DEFINE k == [NoJob EXCEPT !.given = given, !.seen = guard]
  <1>1. UNCHANGED <<cfg, disk, unsaved, guard, watching, armed>> /\ Begin(p, "check", k)
    BY Zenon DEF DisarmWithPin
  <1>2. k \in Job /\ k.seen = guard
    <2>1. NoJob \in Job /\ guard \in Guards
      BY Jobs, Before
    <2>2. QED
      BY <2>1, CheckJob, Zenon
  <1>. HIDE DEF k
  <1>3. ASSUME Lacks(p), pc[p] = "idle", pc'[p] = "check", job'[p] = k PROVE Lacks(p)'
    BY <1>1, <1>2, <1>3 DEF Lacks, Agree, Kept
  <1>4. "check" \in Places \ {"idle", "store", "upgrade"} /\ cfg' \in Config
    BY <1>1, Before DEF Places
  <1>5. QED
    BY <1>1, <1>2, <1>3, <1>4, BeginStep

LEMMA ApplyStep == ASSUME SInv, NEW p \in Phones, Apply(p) PROVE SInv'
  <1>. DEFINE k == job[p]
  <1>1. /\ pc[p] = "apply" /\ pc' = [pc EXCEPT ![p] = "store"] /\ job' = [job EXCEPT ![p] = k]
        /\ overlapped' = overlapped /\ watching' = k.tell /\ UNCHANGED <<cfg, disk, unsaved, guard, armed>>
    BY Zenon DEF Apply, Go
  <1>2. k \in Job /\ k.tell \in BOOLEAN
    BY <1>1, Before DEF Carries
  <1>. HIDE DEF k
  <1>3. ASSUME Lacks(p), pc'[p] = "store", job'[p] = k PROVE Lacks(p)'
    BY <1>1, <1>3 DEF Lacks, Agree, Kept
  <1>4. "store" \in Places
    BY DEF Places
  <1>5. QED
    BY <1>1, <1>2, <1>3, <1>4, Before, OwnStep

LEMMA SaveStep == ASSUME SInv, NEW p \in Phones, Save(p) PROVE SInv'
  <1>. DEFINE j == job[p]
              c == [job[p].snap EXCEPT !.sensor = TRUE]
              k == [j EXCEPT !.given = None, !.shared = FALSE, !.snap = c]
  <1>1. /\ pc[p] = "save" /\ pc' = [pc EXCEPT ![p] = "guard"] /\ job' = [job EXCEPT ![p] = k]
        /\ overlapped' = overlapped /\ Write(j.snap) /\ UNCHANGED <<cfg, guard, watching, armed>>
    BY DEF Save, Go
  <1>2. j \in Job /\ j.snap \in Config
    BY Before, Jobs
  <1>3. c \in Config /\ Guard(c) = Guard(j.snap)
    BY <1>2, Configs
  <1>4. k \in Job /\ k.snap = c /\ k.tell = j.tell
    BY <1>2, <1>3, SavedJob, Zenon
  <1>5. Lacks(p) => j.snap = cfg /\ (j.tell = cfg.sensor \/ (j.tell = None /\ watching = cfg.sensor))
    BY <1>1 DEF Lacks
  <1>. HIDE DEF j, c, k
  <1>6. ASSUME Lacks(p), pc'[p] = "guard", job'[p] = k PROVE Lacks(p)'
    <2>1. Kept'
      BY <1>1, <1>5, <1>6 DEF Write, Kept
    <2>2. QED
      BY <1>1, <1>3, <1>4, <1>5, <1>6, <2>1 DEF Lacks
  <1>7. "guard" \in Places /\ disk' \in Config /\ unsaved' \in BOOLEAN
    BY <1>1, <1>2, Before DEF Places, Write
  <1>8. QED
    BY <1>1, <1>2, <1>4, <1>6, <1>7, Before, OwnStep

LEMMA SetPinProtectionStep == ASSUME SInv, NEW p \in Phones, SetPinProtection(p) PROVE SInv'
  <1>. DEFINE j == job[p]
              k == [NoJob EXCEPT !.tell = job[p].tell]
  <1>1. /\ pc[p] = "guard" /\ pc' = [pc EXCEPT ![p] = "tell"] /\ job' = [job EXCEPT ![p] = k]
        /\ overlapped' = overlapped /\ guard' = Guard(j.snap) /\ UNCHANGED <<cfg, disk, unsaved, watching, armed>>
    BY Zenon DEF SetPinProtection, Go
  <1>2. j \in Job /\ j.snap \in Config /\ j.tell \in Tells
    BY Before, Jobs
  <1>3. k \in Job /\ k.tell = j.tell
    BY <1>2, Jobs, ToldJob, Zenon
  <1>4. Lacks(p) => Guard(j.snap) = Guard(cfg) /\ Kept
                    /\ (j.tell = cfg.sensor \/ (j.tell = None /\ watching = cfg.sensor))
    BY <1>1 DEF Lacks
  <1>. HIDE DEF j, k
  <1>5. ASSUME Lacks(p), pc'[p] = "tell", job'[p] = k PROVE Lacks(p)'
    BY <1>1, <1>3, <1>4, <1>5 DEF Lacks, Kept
  <1>6. "tell" \in Places /\ guard' \in Guards
    BY <1>1, <1>2, Configs DEF Places
  <1>7. QED
    BY <1>1, <1>3, <1>5, <1>6, Before, OwnStep

LEMMA TellSensorsStep == ASSUME SInv, NEW p \in Phones, TellSensors(p) PROVE SInv'
  <1>. DEFINE j == job[p]
  <1>1. /\ pc[p] = "tell" /\ pc' = [pc EXCEPT ![p] = "idle"] /\ job' = [job EXCEPT ![p] = NoJob]
        /\ overlapped' = overlapped /\ watching' = IF j.tell = None THEN watching ELSE j.tell
        /\ UNCHANGED <<cfg, disk, unsaved, guard, armed>>
    BY Zenon DEF TellSensors, Go
  <1>2. j.tell \in Tells /\ watching \in BOOLEAN /\ cfg.sensor \in BOOLEAN
    BY Before, Jobs, Configs
  <1>3. watching' \in BOOLEAN
    BY <1>1, <1>2 DEF Tells
  <1>4. Lacks(p) => guard = Guard(cfg) /\ Kept
                    /\ (j.tell = cfg.sensor \/ (j.tell = None /\ watching = cfg.sensor))
    BY <1>1 DEF Lacks
  <1>. HIDE DEF j
  <1>5. ASSUME Lacks(p), pc'[p] = "idle" PROVE Lacks(p)'
    <2>1. watching' = cfg.sensor
      BY <1>1, <1>2, <1>4, <1>5, SettingsConstants
    <2>2. QED
      BY <1>1, <1>4, <1>5, <2>1 DEF Lacks, Agree, Kept
  <1>6. "idle" \in Places
    BY DEF Places
  <1>7. QED
    BY <1>1, <1>3, <1>5, <1>6, Before, Jobs, OwnStep

LEMMA CheckPinStep == ASSUME SInv, NEW p \in Phones, CheckPin(p) PROVE SInv'
  <1>. DEFINE j == job[p]
              k == [NoJob EXCEPT !.given = job[p].given]
  <1>0. j \in Job /\ j.seen \in Guards /\ j.given \in Given
    BY Before, Jobs
  <1>1. /\ pc[p] = "check" /\ overlapped' = overlapped /\ UNCHANGED <<cfg, disk, unsaved, guard, watching, armed>>
        /\ \/ \E to \in {"idle", "disarm"} : pc' = [pc EXCEPT ![p] = to] /\ job' = [job EXCEPT ![p] = NoJob]
           \/ /\ pc' = [pc EXCEPT ![p] = "upgrade"] /\ job' = [job EXCEPT ![p] = k]
              /\ Active(j.seen) /\ j.given = j.seen.hash.pin
    BY Zenon DEF CheckPin, Go
  <1>2. Active(j.seen) => j.seen.hash.pin \in Pins
    <2>1. j.seen.hash \in Hashes
      BY <1>0 DEF Guards
    <2>2. QED
      BY <2>1, Hashing DEF Active
  <1>3. k \in Job /\ k.given = j.given /\ k.shared = FALSE
    BY <1>0, Jobs, GivenJob, Zenon
  <1>4. Lacks(p) => Agree /\ j.seen = guard
    BY <1>1 DEF Lacks
  <1>. HIDE DEF j, k
  <1>5. CASE \E to \in {"idle", "disarm"} : pc' = [pc EXCEPT ![p] = to] /\ job' = [job EXCEPT ![p] = NoJob]
    <2>1. PICK to \in {"idle", "disarm"} : pc' = [pc EXCEPT ![p] = to] /\ job' = [job EXCEPT ![p] = NoJob]
      BY <1>5
    <2>2. ASSUME Lacks(p), pc'[p] = to PROVE Lacks(p)'
      BY <1>1, <1>4, <2>2 DEF Lacks, Agree, Kept
    <2>3. to \in Places
      BY DEF Places
    <2>4. QED
      BY <1>1, <2>1, <2>2, <2>3, Before, Jobs, OwnStep
  <1>6. CASE /\ pc' = [pc EXCEPT ![p] = "upgrade"] /\ job' = [job EXCEPT ![p] = k]
             /\ Active(j.seen) /\ j.given = j.seen.hash.pin
    <2>1. ASSUME Lacks(p), pc'[p] = "upgrade", job'[p] = k PROVE Lacks(p)'
      <3>1. j.seen.hash = cfg.hash
        BY <1>4, <2>1, Before, Configs DEF Agree
      <3>2. QED
        BY <1>1, <1>3, <1>4, <1>6, <2>1, <3>1 DEF Lacks, Agree, Kept
    <2>2. "upgrade" \in Places
      BY DEF Places
    <2>3. QED
      BY <1>1, <1>2, <1>3, <1>6, <2>1, <2>2, Before, OwnStep
  <1>7. QED
    BY <1>1, <1>5, <1>6

LEMMA StoreStep == ASSUME SInv, NEW p \in Phones, Store(p) PROVE SInv'
  <1>. DEFINE b == job[p].tell
              c == [cfg EXCEPT !.sensor = b]
              k == [NoJob EXCEPT !.snap = c, !.shared = TRUE]
              Sharing(j) == [j EXCEPT !.snap.sensor = b]
  <1>1. /\ pc[p] = "store" /\ pc' = [pc EXCEPT ![p] = "saveHash"] /\ overlapped' = overlapped
        /\ cfg' = c /\ UNCHANGED <<disk, unsaved, guard, watching, armed>>
        /\ job' = [q \in Phones |-> IF q = p THEN k
                                    ELSE IF job[q].shared THEN Sharing(job[q]) ELSE job[q]]
    BY Zenon DEF Store
  <1>2. b \in BOOLEAN
    BY <1>1, Before DEF Carries
  <1>3. c \in Config /\ c.sensor = b /\ Guard(c) = Guard(cfg)
    BY <1>2, Before, Configs
  <1>4. k \in Job /\ k.snap = c /\ k.given = NoJob.given
    BY <1>3, Jobs, StoreJob, Zenon
  <1>5. ASSUME NEW j \in Job PROVE Sharing(j) \in Job /\ Sharing(j).tell = j.tell
    <2>1. j.snap \in Config
      BY Jobs
    <2>2. [j.snap EXCEPT !.sensor = b] \in Config
      BY <1>2, <2>1, Configs
    <2>3. Sharing(j) = [j EXCEPT !.snap = [j.snap EXCEPT !.sensor = b]]
      BY Fields
    <2>4. QED
      BY <2>2, <2>3, Fields
  <1>6. Lacks(p) => guard = Guard(cfg) /\ watching = b
    BY <1>1 DEF Lacks
  <1>. HIDE DEF b, c, k, Sharing
  <1>7. job' \in [Phones -> Job] /\ job'[p] = k
        /\ \A q \in Phones \ {p} : /\ job'[q].tell = job[q].tell
                                   /\ job[q].shared = FALSE => job'[q] = job[q]
    BY <1>1, <1>4, <1>5, Before
  <1>8. pc'[p] = "saveHash" /\ "saveHash" \in Places
    BY <1>1, Before DEF Places
  <1>9. Lacks(p) => Lacks(p)'
    BY <1>1, <1>3, <1>4, <1>6, <1>7, <1>8 DEF Lacks
  <1>10. QED
    BY <1>1, <1>3, <1>4, <1>7, <1>8, <1>9, Before, HandlerStep

LEMMA UpgradeStep == ASSUME SInv, NEW p \in Phones, Upgrade(p) PROVE SInv'
  <1>. DEFINE j == job[p]
              h == Hash(job[p].given)
              c == [cfg EXCEPT !.hash = h]
              k == [j EXCEPT !.snap = c, !.shared = TRUE]
  <1>0. j \in Job /\ j.given \in Pins /\ job \in [Phones -> Job]
    BY Before DEF Carries, Upgrade
  <1>1. /\ pc[p] = "upgrade" /\ pc' = [pc EXCEPT ![p] = "saveHash"] /\ overlapped' = overlapped
        /\ cfg' = c /\ guard' = [guard EXCEPT !.hash = h] /\ UNCHANGED <<disk, unsaved, watching, armed>>
    BY Zenon DEF Upgrade
  <1>2. job' = [job EXCEPT ![p] = k]
    <2>1. job' = [job EXCEPT ![p].snap = c, ![p].shared = TRUE]
      BY <1>1, Zenon DEF Upgrade
    <2>2. QED
      BY <1>0, <2>1
  <1>3. h \in Hashes
    BY <1>0, Hashing
  <1>4. c \in Config /\ c.sensor = cfg.sensor /\ Guard(c) = [Guard(cfg) EXCEPT !.hash = h]
    BY <1>3, Before, Configs
  <1>5. k \in Job /\ k.snap = c
    BY <1>0, <1>4, StoreJob, Zenon
  <1>6. guard' \in Guards
    BY <1>1, <1>3, Before DEF Guards
  <1>7. Lacks(p) => guard = Guard(cfg) /\ watching = cfg.sensor
    BY <1>1 DEF Lacks, Agree, Kept
  <1>. HIDE DEF j, h, c, k
  <1>8. ASSUME Lacks(p), pc'[p] = "saveHash", job'[p] = k PROVE Lacks(p)'
    BY <1>1, <1>4, <1>5, <1>7, <1>8 DEF Lacks
  <1>9. "saveHash" \in Places
    BY DEF Places
  <1>10. QED
    BY <1>1, <1>2, <1>4, <1>5, <1>6, <1>8, <1>9, Before, OwnStep

LEMMA SaveHashStep == ASSUME SInv, NEW p \in Phones, SaveHash(p) PROVE SInv'
  <1>. DEFINE j == job[p]
              to == IF job[p].given = None THEN "idle" ELSE "disarm"
  <1>1. /\ pc[p] = "saveHash" /\ pc' = [pc EXCEPT ![p] = to] /\ job' = [job EXCEPT ![p] = NoJob]
        /\ overlapped' = overlapped /\ Write(j.snap) /\ UNCHANGED <<cfg, guard, watching, armed>>
    BY Zenon DEF SaveHash, Go
  <1>2. j.snap \in Config
    BY Before, Jobs
  <1>3. to \in {"idle", "disarm"} /\ to \in Places
    BY DEF Places
  <1>4. Lacks(p) => j.snap = cfg /\ guard = Guard(cfg) /\ watching = cfg.sensor
    BY <1>1 DEF Lacks
  <1>. HIDE DEF j, to
  <1>5. ASSUME Lacks(p), pc'[p] = to PROVE Lacks(p)'
    <2>1. Kept'
      BY <1>1, <1>4, <1>5 DEF Write, Kept
    <2>2. QED
      BY <1>1, <1>3, <1>4, <1>5, <2>1 DEF Lacks, Agree
  <1>6. disk' \in Config /\ unsaved' \in BOOLEAN
    BY <1>1, <1>2, Before DEF Write
  <1>7. QED
    BY <1>1, <1>2, <1>3, <1>5, <1>6, Before, Jobs, OwnStep

LEMMA DisarmStep == ASSUME SInv, NEW p \in Phones, Disarm(p) PROVE SInv'
  <1>1. /\ pc[p] = "disarm" /\ pc' = [pc EXCEPT ![p] = "idle"] /\ job' = [job EXCEPT ![p] = NoJob]
        /\ overlapped' = overlapped /\ armed' = FALSE /\ UNCHANGED <<cfg, disk, unsaved, guard, watching>>
    BY Zenon DEF Disarm, Go
  <1>2. ASSUME Lacks(p), pc'[p] = "idle" PROVE Lacks(p)'
    BY <1>1, <1>2 DEF Lacks, Agree, Kept
  <1>3. "idle" \in Places
    BY DEF Places
  <1>4. QED
    BY <1>1, <1>2, <1>3, Before, Jobs, OwnStep

\* Whoever holds the four places as they are, and all the handlers, keeps it.
LEMMA IdleStep ==
  ASSUME SInv, UNCHANGED <<cfg, disk, unsaved, guard, watching, pc, job, overlapped>>, armed' \in BOOLEAN
  PROVE  SInv'
  <1>1. TypeOK'
    BY DEF SInv, TypeOK
  <1>2. ASSUME NEW p \in Phones PROVE Carries(p)' = Carries(p) /\ Lacks(p)' = Lacks(p)
    BY Zenon DEF Carries, Lacks, Agree, Kept
  <1>3. Agree' = Agree /\ Quiet' = Quiet /\ \A p \in Phones : Busy(p)' = Busy(p)
    BY DEF Agree, Kept, Quiet, Busy
  <1>4. QED
    BY <1>1, <1>2, <1>3 DEF SInv, OneAtATime

\* All places read from one file, and nobody on their way.
LEMMA Fresh ==
  ASSUME cfg \in Config, disk = cfg, unsaved = FALSE, guard = Guard(cfg), watching = cfg.sensor, armed \in BOOLEAN,
         pc = [p \in Phones |-> "idle"], job = [p \in Phones |-> NoJob], overlapped = FALSE
  PROVE  SInv
  <1>1. TypeOK
    BY Configs, Jobs DEF TypeOK, Places, Guards
  <1>2. \A p \in Phones : Carries(p)
    BY DEF Carries
  <1>3. OneAtATime
    BY DEF OneAtATime, Agree, Kept, Busy
  <1>4. QED
    BY <1>1, <1>2, <1>3 DEF SInv

LEMMA SInit == Init => SInv
  BY Fresh, SettingsConstants DEF Init

LEMMA RestartStep == ASSUME SInv, Restart PROVE SInv'
  <1>1. /\ cfg' = disk /\ disk' = disk /\ unsaved' = FALSE /\ guard' = Guard(disk) /\ watching' = disk.sensor
        /\ armed' = FALSE /\ pc' = [p \in Phones |-> "idle"] /\ job' = [p \in Phones |-> NoJob]
        /\ overlapped' = FALSE
    BY Zenon DEF Restart
  <1>2. disk \in Config
    BY DEF SInv, TypeOK
  <1>3. TypeOK'
    BY <1>1, <1>2, Configs, Jobs DEF TypeOK, Places, Guards
  <1>4. \A p \in Phones : Carries(p)'
    BY <1>1 DEF Carries
  <1>5. OneAtATime'
    BY <1>1 DEF OneAtATime, Agree, Kept, Busy
  <1>6. QED
    BY <1>3, <1>4, <1>5 DEF SInv

LEMMA SNext == ASSUME SInv, [Next]_vars PROVE SInv'
  <1>1. ASSUME NEW p \in Phones, NEW given \in Given, NEW want \in Wishes, Update(p, want, given)
        PROVE  SInv'
    BY <1>1, UpdateStep
  <1>2. ASSUME NEW p \in Phones, NEW given \in Given, Reset(p, given) \/ DisarmWithPin(p, given)
        PROVE  SInv'
    BY <1>2, ResetStep, DisarmWithPinStep
  <1>3. ASSUME NEW p \in Phones, NEW want \in BOOLEAN, Configure(p, want) PROVE SInv'
    BY <1>3, ConfigureStep
  <1>4. ASSUME NEW p \in Phones,
               \/ Apply(p) \/ Store(p) \/ Save(p) \/ SetPinProtection(p) \/ TellSensors(p)
               \/ CheckPin(p) \/ Upgrade(p) \/ SaveHash(p) \/ Disarm(p)
        PROVE  SInv'
    BY <1>4, ApplyStep, StoreStep, SaveStep, SetPinProtectionStep, TellSensorsStep,
       CheckPinStep, UpgradeStep, SaveHashStep, DisarmStep
  <1>5. CASE Arm
    BY <1>5, IdleStep DEF Arm
  <1>6. CASE Restart
    BY <1>6, RestartStep
  <1>7. CASE UNCHANGED vars
    <2>1. UNCHANGED <<cfg, disk, unsaved, guard, watching, pc, job, overlapped>> /\ armed' = armed
      BY <1>7 DEF vars
    <2>2. armed' \in BOOLEAN
      BY <2>1 DEF SInv, TypeOK
    <2>3. QED
      BY <2>1, <2>2, IdleStep
  <1>8. QED
    BY <1>1, <1>2, <1>3, <1>4, <1>5, <1>6, <1>7, Zenon DEF Next, Given

\* The inductive invariant: with one message on its way, the places lack exactly
\* what its handler still carries, except that a failed save leaves the file behind
\* until one succeeds.  (applyConfigUpdate and what calls it,
\* handleResetConfig, handleConfigure, DisarmWithPin, upgradePinHash.)
THEOREM SettingsInvariant == Spec => []SInv
  <1>1. SInv /\ [Next]_vars => SInv'
    BY SNext
  <1>2. QED
    BY SInit, <1>1, PTL DEF Spec

-----------------------------------------------------------------------------
(***************************************************************************)
(* The two promises.                                                       *)
(***************************************************************************)
LEMMA AgreeWhenQuiet == SInv => SettingsAgree
  <1>1. SUFFICES ASSUME SInv, Quiet, ~overlapped PROVE SettingsAgree
    BY DEF SettingsAgree
  <1>2. overlapped = FALSE
    BY <1>1 DEF SInv, TypeOK
  <1>3. Agree
    BY <1>1, <1>2 DEF SInv, OneAtATime
  <1>4. QED
    BY <1>3 DEF Agree, Kept, SettingsAgree

Shown(p) == job'[p] # job[p] /\ job'[p].given = cfg.hash.pin

\* A message that is begun with the stored PIN shows it.
LEMMA BegunWith ==
  ASSUME SInv, Active(Guard(cfg)), NEW p \in Phones, NEW place, NEW k \in Job,
         Begin(p, place, k) \/ BeginWithNewMap(p, place, k), k.given = cfg.hash.pin
  PROVE  Shown(p)
  <1>1. job \in [Phones -> Job] /\ cfg \in Config /\ (pc[p] = "idle" => job[p] = NoJob)
    BY Before DEF Carries
  <1>2. pc[p] = "idle" /\ job'[p] = k
    <2>1. CASE Begin(p, place, k)
      <3>1. pc[p] = "idle" /\ job' = [job EXCEPT ![p] = k]
        BY <2>1 DEF Begin
      <3>2. QED
        BY <1>1, <3>1
    <2>2. CASE BeginWithNewMap(p, place, k)
      <3>1. /\ pc[p] = "idle"
            /\ job' = [q \in Phones |-> IF q = p THEN k ELSE [job[q] EXCEPT !.shared = FALSE]]
        BY <2>2, Zenon DEF BeginWithNewMap
      <3>2. QED
        BY <3>1, Zenon
    <2>3. QED
      BY <2>1, <2>2
  <1>3. cfg.hash.pin \in Pins
    BY <1>1, Configs, Hashing DEF Active
  <1>4. k # NoJob
    BY <1>3, Jobs, SettingsConstants
  <1>5. QED
    BY <1>1, <1>2, <1>4 DEF Shown

LEMMA GuardedStep ==
  ASSUME SInv, [Next]_vars, Active(Guard(cfg)), Guard(cfg') # Guard(cfg)
  PROVE  \/ \E p \in Phones : Shown(p)
         \/ Restart
         \/ overlapped /\ \E p \in Phones : Upgrade(p)
  <1>0. cfg \in Config /\ cfg' # cfg
    BY DEF SInv, TypeOK
  <1>1. ASSUME NEW p \in Phones, NEW given \in Given, NEW want \in Wishes, Update(p, want, given)
        PROVE  Shown(p)
    <2>. DEFINE tell == IF Refused(want) THEN None ELSE want.sensor
                k == UpdatedJob(Updated(want), tell, given)
    <2>1. want \in Wish
      BY SettingsConstants
    <2>2. Updated(want) \in Config /\ tell \in Tells
          /\ (~ChangesPin(want) => Guard(Updated(want)) = Guard(cfg))
      BY <2>1, Updates
    <2>3. cfg' = Updated(want) /\ (Begin(p, "save", k) \/ BeginWithNewMap(p, "save", k))
          /\ (Asked(want) => given = cfg.hash.pin)
      BY <1>1, Zenon DEF Update, UpdatedJob
    <2>. HIDE DEF tell
    <2>4. k \in Job /\ k.given = given
      BY <2>2, UpdateJob
    <2>5. given = cfg.hash.pin
      BY <2>2, <2>3 DEF Asked
    <2>. HIDE DEF k
    <2>6. QED
      BY <2>3, <2>4, <2>5, BegunWith
  <1>2. ASSUME NEW p \in Phones, NEW given \in Given, Reset(p, given) PROVE Shown(p)
    <2>1. BeginWithNewMap(p, "save", NewJob(given)) /\ given = cfg.hash.pin
      BY <1>2, Zenon DEF Reset, NewJob
    <2>2. NewJob(given) \in Job /\ NewJob(given).given = given
      BY ResetJob
    <2>3. QED
      BY <2>1, <2>2, BegunWith
  <1>3. ASSUME NEW p \in Phones, Store(p) PROVE FALSE
    <2>1. cfg' = [cfg EXCEPT !.sensor = job[p].tell] /\ job[p].tell \in BOOLEAN
      BY <1>3, Before, Zenon DEF Store, Carries
    <2>2. QED
      BY <1>0, <2>1, Configs
  <1>4. ASSUME NEW p \in Phones, Upgrade(p), overlapped = FALSE PROVE Shown(p)
    <2>1. pc[p] = "upgrade" /\ job' = [job EXCEPT ![p].snap = cfg', ![p].shared = TRUE]
      BY <1>4, Zenon DEF Upgrade
    <2>2. job \in [Phones -> Job] /\ job[p] \in Job /\ job[p].shared = FALSE
      BY <2>1, Before DEF Carries
    <2>3. Lacks(p)
      BY <1>4, <2>1 DEF SInv, OneAtATime, Busy
    <2>4. job[p].given = cfg.hash.pin
      BY <2>1, <2>3 DEF Lacks
    <2>5. job'[p] = [job[p] EXCEPT !.snap = cfg', !.shared = TRUE]
      BY <2>1, <2>2
    <2>6. job'[p].shared = TRUE /\ job'[p].given = job[p].given
      BY <2>2, <2>5, Fields
    <2>7. QED
      BY <2>2, <2>4, <2>6 DEF Shown
  <1>5. ASSUME NEW p \in Phones, NEW given \in Given, DisarmWithPin(p, given) PROVE FALSE
    BY <1>0, <1>5 DEF DisarmWithPin
  <1>6. ASSUME NEW p \in Phones, NEW want \in BOOLEAN, Configure(p, want) PROVE FALSE
    BY <1>0, <1>6 DEF Configure
  <1>7. ASSUME NEW p \in Phones,
               \/ Apply(p) \/ Save(p) \/ SetPinProtection(p) \/ TellSensors(p)
               \/ CheckPin(p) \/ SaveHash(p) \/ Disarm(p)
        PROVE  FALSE
    BY <1>0, <1>7, Zenon DEF Apply, Save, SetPinProtection, TellSensors, CheckPin, SaveHash, Disarm
  <1>8. ~Arm /\ ~UNCHANGED vars
    BY <1>0 DEF Arm, vars
  <1>9. overlapped \in BOOLEAN
    BY DEF SInv, TypeOK
  <1>10. QED
    BY <1>1, <1>2, <1>3, <1>4, <1>5, <1>6, <1>7, <1>8, <1>9, Zenon DEF Next, Given

\* The config, the guard and the sensors hold the same settings whenever nothing is on
\* its way and no two messages met, and so does the file unless the last save failed;
\* and a PIN is changed only by whoever has shown it, for any number of phones and
\* PINs.  (applyConfigUpdate, handleResetConfig,
\* handleConfigure, DisarmWithPin, upgradePinHash, Load.)
THEOREM SettingsHoldHolds == Spec => SettingsHold
  <1>1. SInv => TypeOK /\ SettingsAgree
    BY AgreeWhenQuiet DEF SInv
  <1>2. SInv /\ [Next]_vars =>
          [ (Active(Guard(cfg)) /\ Guard(cfg') # Guard(cfg))
              => \/ \E p \in Phones : job'[p] # job[p] /\ job'[p].given = cfg.hash.pin
                 \/ Restart
                 \/ overlapped /\ \E p \in Phones : Upgrade(p) ]_vars
    BY GuardedStep DEF Shown
  <1>3. QED
    BY SettingsInvariant, <1>1, <1>2, PTL DEF Spec, SettingsHold, PinIsGuarded
=============================================================================
