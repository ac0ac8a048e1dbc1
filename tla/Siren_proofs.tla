------------------------------ MODULE Siren_proofs ------------------------------
(***************************************************************************)
(* Proofs about the siren, for any callers, chains and volumes: its types,  *)
(* that no more than one channel is open, that it is quiet once a stop has  *)
(* come back, and whose volume is put back.                                 *)
(***************************************************************************)
EXTENDS Siren, FiniteSetTheorems, TLAPS

(***************************************************************************)
(* Siren: its types, whose stop channel is open, that the count of the     *)
(* loops is the loops there are and falls to nothing before a Stop         *)
(* returns, and whose volume is put back.                                  *)
(*                                                                         *)
(* The count is a number, and the loops are spread over the runs: the      *)
(* invariant says that it is the size of the set of the loops, which a     *)
(* step makes larger or smaller by one.                                    *)
(***************************************************************************)
\* The loops that are running: the escalation of each run, and its sirens.
Escalating == {"wait", "remember", "spawn"}

Sounding ==
  {x \in Runs \X Nat :
     IF x[2] = 0 THEN esc[x[1]] \in Escalating ELSE x[2] <= sirens[x[1]]}

CountOK == IsFiniteSet(Sounding) /\ loops = Cardinality(Sounding)

\* Whoever is about to start a loop is starting the first of their own run.
SpawnOK ==
  \A c \in Callers : pc[c] = "spawn" =>
    /\ mine[c] \in 1 .. run /\ esc[mine[c]] = "none"
    /\ \A d \in Callers : pc[d] = "spawn" /\ mine[d] = mine[c] => d = c

LevelOK ==
  /\ \A r \in Runs : r > run => esc[r] = "none"
  /\ \A r \in Runs : esc[r] \in {"remember", "spawn"} => level[r] < Len(chain)
  /\ chain = <<>> => \A r \in Runs : esc[r] = "none"

\* A Stop that has seen loops run is still to wait for them, unless one did not come so far.
Expecting == {"restore", "wait", "waiting"}
WaitOK ==
  /\ playing => run >= 1
  /\ \A c \in Callers : pc[c] = "restore" => carry[c] # None
  /\ ~playing /\ ~unwaited /\ loops # 0 => \E c \in Callers : pc[c] \in Expecting

SirenInv == TypeOK /\ CountOK /\ SpawnOK /\ LevelOK /\ OneOpenChannel /\ WaitOK

(***************************************************************************)
(* With one caller and a backend that restores, whose volume it is: by     *)
(* where the caller is, and in the first run by where its escalation is.   *)
(***************************************************************************)
OneCaller == (\A c, d \in Callers : c = d) /\ "restore" \notin Faults

\* The owner's volume is on the machine, or it is what was saved.
Kept == IF saved = None THEN volume = owner ELSE saved = owner

PlainVolume ==
  chain = <<>> =>
    /\ \A c \in Callers :
         /\ pc[c] \in {"spawn", "raise"} => playing /\ saved = None /\ volume = owner
         /\ pc[c] = "remember" => playing /\ saved = None /\ carry[c] = owner
         /\ pc[c] = "restore" => ~playing /\ saved = None /\ carry[c] = owner
         /\ pc[c] \in {"wait", "waiting", "woken"} => ~playing /\ saved = None /\ volume = owner
    /\ (\A c \in Callers : pc[c] = "idle") => Kept /\ (~playing => saved = None)

ChainVolume ==
  chain # <<>> =>
    /\ \A c \in Callers : pc[c] \notin {"raise", "remember"}
    /\ run = 0 => saved = None /\ volume = owner /\ \A c \in Callers : pc[c] = "idle"
    /\ playing /\ run = 1 =>
         /\ \A c \in Callers : pc[c] # "restore"
         /\ IF saved # None THEN saved = owner
            ELSE IF esc[1] = "remember" THEN reading[1] = owner ELSE volume = owner

VInv == PlainVolume /\ ChainVolume

-----------------------------------------------------------------------------
(***************************************************************************)
(* What every step leaves alone.                                           *)
(***************************************************************************)
SirenSteps ==
  \/ \E c \in Callers : \/ Start(c) \/ Spawn(c) \/ RaiseVolume(c) \/ RememberVolume(c)
                        \/ Stop(c) \/ RestoreVolume(c) \/ Wait(c)
  \/ \E r \in Runs : \/ GiveUp(r) \/ Notify(r) \/ Escalate(r) \/ RememberFirst(r)
                     \/ SpawnSiren(r) \/ SirenEnds(r)
  \/ \E v \in Own : OwnerSets(v)
  \/ UNCHANGED vars

LEMMA NextSteps == [Next]_vars => SirenSteps
  BY DEF Next, SirenSteps, CallerStep, EscalationStep

LEMMA ChainFacts ==
  ASSUME ConstantsOK, TypeOK
  PROVE  /\ Len(chain) \in Nat /\ MaxRuns \in Nat /\ run \in Nat
         /\ \A i \in 1 .. Len(chain) : chain[i] \in Levels
         /\ chain = <<>> <=> Len(chain) = 0
         /\ None \notin Volumes
  <1>1. chain \in Seq(Levels)
    BY DEF ConstantsOK, TypeOK
  <1>2. QED
    BY <1>1 DEF ConstantsOK, TypeOK, Volumes

-----------------------------------------------------------------------------
(***************************************************************************)
(* The count is the size of the set of the loops.                          *)
(***************************************************************************)
LEMMA SoundingEmpty == ASSUME ConstantsOK, Init PROVE CountOK
  <1>1. Sounding = {}
    BY DEF Init, Sounding, Escalating
  <1>2. QED
    BY <1>1, FS_EmptySet DEF CountOK, Init

LEMMA SameSounding ==
  ASSUME CountOK, \A r \in Runs : esc[r] \in Escalating <=> esc'[r] \in Escalating,
         sirens' = sirens, loops' = loops
  PROVE  CountOK'
  <1>1. Sounding' = Sounding
    BY DEF Sounding
  <1>2. QED
    BY <1>1 DEF CountOK

\* One more loop is one more.
LEMMA MoreSounding ==
  ASSUME CountOK, NEW x, x \notin Sounding, Sounding' = Sounding \cup {x}, loops' = loops + 1
  PROVE  CountOK'
  BY FS_AddElement DEF CountOK

\* One less is one less, and there was one.
LEMMA LessSounding ==
  ASSUME CountOK, NEW x \in Sounding, Sounding' = Sounding \ {x}, loops' = loops - 1
  PROVE  CountOK' /\ loops >= 1 /\ loops \in Nat
  <1>1. /\ IsFiniteSet(Sounding \ {x})
        /\ Cardinality(Sounding \ {x}) = Cardinality(Sounding) - 1
    BY FS_RemoveElement DEF CountOK
  <1>2. Cardinality(Sounding) \in Nat /\ Cardinality(Sounding \ {x}) \in Nat
    BY <1>1, FS_CardinalityType DEF CountOK
  <1>3. QED
    BY <1>1, <1>2 DEF CountOK

\* The escalation of a run begins, or ends.
LEMMA EscalationBegins ==
  ASSUME ConstantsOK, TypeOK, CountOK, NEW r \in Runs, esc[r] \notin Escalating,
         esc' = [esc EXCEPT ![r] = "wait"], sirens' = sirens, loops' = loops + 1
  PROVE  CountOK'
  <1>1. esc'[r] = "wait" /\ \A q \in Runs : q # r => esc'[q] = esc[q]
    BY DEF TypeOK
  <1>2. Sounding' = Sounding \cup {<<r, 0>>} /\ <<r, 0>> \notin Sounding
    BY <1>1 DEF Sounding, Escalating
  <1>3. QED
    BY <1>2, MoreSounding

LEMMA EscalationEnds ==
  ASSUME ConstantsOK, TypeOK, CountOK, NEW r \in Runs, esc[r] \in Escalating, EndEscalation(r)
  PROVE  CountOK' /\ loops >= 1 /\ loops \in Nat
  <1>1. esc'[r] = "ended" /\ \A q \in Runs : q # r => esc'[q] = esc[q]
    BY DEF EndEscalation, TypeOK
  <1>2. sirens' = sirens /\ loops' = loops - 1
    BY DEF EndEscalation, Done
  <1>3. <<r, 0>> \in Sounding
    BY DEF Sounding
  <1>4. Sounding' = Sounding \ {<<r, 0>>}
    BY <1>1, <1>2 DEF Sounding, Escalating
  <1>5. QED
    BY <1>2, <1>3, <1>4, LessSounding

LEMMA SirenBegins ==
  ASSUME ConstantsOK, TypeOK, CountOK, NEW r \in Runs,
         sirens' = [sirens EXCEPT ![r] = @ + 1],
         \A q \in Runs : esc[q] \in Escalating <=> esc'[q] \in Escalating, loops' = loops + 1
  PROVE  CountOK'
  <1>1. /\ sirens[r] \in Nat /\ sirens'[r] = sirens[r] + 1
        /\ \A q \in Runs : sirens[q] \in Nat /\ (q # r => sirens'[q] = sirens[q])
    BY DEF TypeOK
  <1>2. \A i \in Nat : i <= sirens[r] + 1 <=> i <= sirens[r] \/ i = sirens[r] + 1
    BY <1>1
  <1>3. sirens[r] + 1 \in Nat /\ sirens[r] + 1 # 0 /\ ~(sirens[r] + 1 <= sirens[r])
    BY <1>1
  <1>4. <<r, sirens[r] + 1>> \notin Sounding
    BY <1>3 DEF Sounding
  <1>5. Sounding' = Sounding \cup {<<r, sirens[r] + 1>>}
    BY <1>1, <1>2, <1>3 DEF Sounding
  <1>6. QED
    BY <1>4, <1>5, MoreSounding

LEMMA SirenStops ==
  ASSUME ConstantsOK, TypeOK, CountOK, NEW r \in Runs, SirenEnds(r)
  PROVE  CountOK' /\ loops >= 1 /\ loops \in Nat
  <1>1. /\ sirens[r] \in Nat /\ sirens[r] > 0 /\ sirens'[r] = sirens[r] - 1
        /\ \A q \in Runs : sirens[q] \in Nat /\ (q # r => sirens'[q] = sirens[q])
        /\ esc' = esc /\ loops' = loops - 1
    BY DEF TypeOK, SirenEnds, Done, escalation
  <1>2. \A i \in Nat : i <= sirens[r] - 1 <=> i <= sirens[r] /\ i # sirens[r]
    BY <1>1
  <1>3. <<r, sirens[r]>> \in Sounding
    BY <1>1 DEF Sounding
  <1>4. Sounding' = Sounding \ {<<r, sirens[r]>>}
    BY <1>1, <1>2 DEF Sounding
  <1>5. QED
    BY <1>1, <1>3, <1>4, LessSounding

LEMMA CallersCount ==
  ASSUME ConstantsOK, TypeOK, CountOK, SpawnOK, NEW c \in Callers,
         \/ Start(c) \/ Spawn(c) \/ RaiseVolume(c) \/ RememberVolume(c)
         \/ Stop(c) \/ RestoreVolume(c) \/ Wait(c)
  PROVE  CountOK'
  <1>1. CASE Spawn(c) /\ playing
    <2>1. mine[c] \in Runs /\ esc[mine[c]] = "none"
      <3>1. mine[c] \in 1 .. run /\ esc[mine[c]] = "none"
        BY <1>1 DEF Spawn, Goto, SpawnOK
      <3>2. QED
        BY <3>1 DEF TypeOK, Runs, ConstantsOK
    <2>2. CASE chain = <<>>
      BY <1>1, <2>1, <2>2, SirenBegins DEF Spawn
    <2>3. CASE chain # <<>>
      BY <1>1, <2>1, <2>3, EscalationBegins DEF Spawn, Escalating
    <2>4. QED
      BY <2>2, <2>3
  <1>2. CASE ~(Spawn(c) /\ playing)
    <2>1. UNCHANGED <<esc, sirens, loops>>
      BY <1>2 DEF Start, Spawn, RaiseVolume, RememberVolume, Stop, RestoreVolume, Wait,
                  escalation
    <2>2. QED
      BY <2>1, SameSounding
  <1>3. QED
    BY <1>1, <1>2

LEMMA LoopsCount ==
  ASSUME ConstantsOK, TypeOK, CountOK, NEW r \in Runs,
         \/ GiveUp(r) \/ Notify(r) \/ Escalate(r) \/ RememberFirst(r)
         \/ SpawnSiren(r) \/ SirenEnds(r)
  PROVE  CountOK'
  <1>1. CASE EndEscalation(r) /\ esc[r] = "wait"
    BY <1>1, EscalationEnds DEF Escalating
  <1>2. CASE SirenEnds(r)
    BY <1>2, SirenStops
  <1>3. CASE SpawnSiren(r) /\ playing
    <2>1. \A q \in Runs : esc[q] \in Escalating <=> esc'[q] \in Escalating
      BY <1>3 DEF SpawnSiren, NextLevel, TypeOK, Escalating
    <2>2. QED
      BY <1>3, <2>1, SirenBegins DEF SpawnSiren
  <1>4. CASE Notify(r) \/ Escalate(r) \/ RememberFirst(r) \/ (SpawnSiren(r) /\ ~playing)
    <2>1. CASE EndEscalation(r)
      BY <1>1, <1>4, <2>1 DEF Escalate, Notify, RememberFirst, SpawnSiren, NextLevel,
                              EndEscalation, TypeOK, AfterRemembering
    <2>2. CASE ~EndEscalation(r)
      <3>1. /\ sirens' = sirens /\ loops' = loops /\ esc[r] \in Escalating
            /\ \E to \in Escalating : esc' = [esc EXCEPT ![r] = to]
        BY <1>4, <2>2 DEF Escalate, Notify, RememberFirst, SpawnSiren, NextLevel,
                          AfterRemembering, Escalating
      <3>2. \A q \in Runs : esc[q] \in Escalating <=> esc'[q] \in Escalating
        BY <3>1 DEF TypeOK
      <3>3. QED
        BY <3>1, <3>2, SameSounding
    <2>3. QED
      BY <2>1, <2>2
  <1>5. QED
    BY <1>1, <1>2, <1>3, <1>4 DEF GiveUp

-----------------------------------------------------------------------------
(***************************************************************************)
(* Types.                                                                  *)
(***************************************************************************)
LEMMA CallersTyped ==
  ASSUME ConstantsOK, TypeOK, SpawnOK, WaitOK, NEW c \in Callers,
         \/ Start(c) \/ Spawn(c) \/ RaiseVolume(c) \/ RememberVolume(c)
         \/ Stop(c) \/ RestoreVolume(c) \/ Wait(c)
  PROVE  TypeOK'
  <1>1. CASE Start(c)
    <2>1. run + 1 \in 0 .. MaxRuns /\ 1 .. run \subseteq 1 .. run + 1
      BY <1>1, ChainFacts DEF Start
    <2>2. QED
      BY <1>1, <2>1 DEF Start, Goto, TypeOK, escalation
  <1>2. CASE Spawn(c)
    <2>1. mine[c] \in Runs
      <3>1. mine[c] \in 1 .. run
        BY <1>2 DEF Spawn, Goto, SpawnOK
      <3>2. QED
        BY <3>1 DEF TypeOK, Runs, ConstantsOK
    <2>2. loops' \in Nat /\ sirens' \in [Runs -> Nat]
      <3>1. loops \in Nat /\ sirens \in [Runs -> Nat]
        BY DEF TypeOK
      <3>2. loops' = loops \/ loops' = loops + 1
        BY <1>2 DEF Spawn
      <3>3. sirens' = sirens \/ sirens' = [sirens EXCEPT ![mine[c]] = @ + 1]
        BY <1>2 DEF Spawn
      <3>4. sirens' \in [Runs -> Nat]
        BY <2>1, <3>1, <3>3
      <3>5. QED
        BY <3>1, <3>2, <3>4
    <2>3. esc' \in [Runs -> {"none", "wait", "remember", "spawn", "ended"}]
      BY <1>2, <2>1 DEF Spawn, TypeOK
    <2>4. mine' \in [Callers -> 0 .. MaxRuns]
      BY <1>2, ChainFacts DEF Spawn, TypeOK
    <2>5. QED
      BY <1>2, <2>2, <2>3, <2>4 DEF Spawn, Goto, TypeOK
  <1>3. CASE RaiseVolume(c)
    BY <1>3 DEF RaiseVolume, Goto, TypeOK, Volumes, escalation
  <1>4. CASE RememberVolume(c)
    BY <1>4 DEF RememberVolume, Goto, TypeOK, escalation
  <1>5. CASE Stop(c)
    <2>1. run \in 1 .. run
      BY <1>5, ChainFacts DEF Stop, WaitOK
    <2>2. QED
      BY <1>5, <2>1 DEF Stop, Goto, TypeOK, escalation
  <1>6. CASE RestoreVolume(c)
    <2>1. volume' \in Volumes
      BY <1>6 DEF RestoreVolume, Goto, TypeOK, WaitOK
    <2>2. QED
      BY <1>6, <2>1 DEF RestoreVolume, Goto, TypeOK, escalation
  <1>7. CASE Wait(c)
    BY <1>7 DEF Wait, Goto, TypeOK, escalation
  <1>8. QED
    BY <1>1, <1>2, <1>3, <1>4, <1>5, <1>6, <1>7

LEMMA LoopsTyped ==
  ASSUME ConstantsOK, TypeOK, CountOK, LevelOK, NEW r \in Runs,
         \/ GiveUp(r) \/ Notify(r) \/ Escalate(r) \/ RememberFirst(r)
         \/ SpawnSiren(r) \/ SirenEnds(r)
  PROVE  TypeOK'
  <1>1. ASSUME loops >= 1, Done
        PROVE  /\ loops' \in Nat /\ mine' = mine /\ carry' = carry
               /\ pc' \in [Callers -> {"idle", "spawn", "raise", "remember", "restore",
                                       "wait", "waiting", "woken"}]
    BY <1>1 DEF Done, TypeOK
  <1>2. CASE EndEscalation(r) /\ esc[r] = "wait"
    <2>1. loops >= 1
      BY <1>2, EscalationEnds DEF Escalating
    <2>2. QED
      BY <1>1, <1>2, <2>1 DEF EndEscalation, TypeOK
  <1>3. CASE SirenEnds(r)
    <2>1. loops >= 1
      BY <1>3, SirenStops
    <2>2. sirens' \in [Runs -> Nat]
      <3>1. sirens[r] \in Nat /\ sirens[r] > 0
        BY <1>3 DEF SirenEnds, TypeOK
      <3>2. sirens[r] - 1 \in Nat
        BY <3>1
      <3>3. QED
        BY <1>3, <3>2 DEF SirenEnds, TypeOK
    <2>3. QED
      BY <1>1, <1>3, <2>1, <2>2 DEF SirenEnds, TypeOK, escalation
  <1>4. ASSUME NextLevel(r), level[r] < Len(chain)
        PROVE  /\ level' \in [Runs -> 0 .. Len(chain)]
               /\ esc' \in [Runs -> {"none", "wait", "remember", "spawn", "ended"}]
    <2>1. level[r] + 1 \in 0 .. Len(chain)
      BY <1>4, ChainFacts DEF TypeOK
    <2>2. QED
      BY <1>4, <2>1 DEF NextLevel, TypeOK
  <1>5. CASE Notify(r)
    BY <1>4, <1>5 DEF Notify, TypeOK, callers
  <1>6. CASE Escalate(r) /\ ~EndEscalation(r)
    <2>1. /\ level' \in [Runs -> 0 .. Len(chain)]
          /\ esc' \in [Runs -> {"none", "wait", "remember", "spawn", "ended"}]
      BY <1>4, <1>6 DEF Escalate, TypeOK
    <2>2. volume' \in Volumes /\ reading' \in [Runs -> Volumes \cup {None}]
      <3>1. volume \in Volumes /\ reading \in [Runs -> Volumes \cup {None}]
        BY DEF TypeOK
      <3>2. \/ UNCHANGED <<volume, reading>>
            \/ volume' \in {"medium", "max"} /\ reading' = [reading EXCEPT ![r] = volume]
        BY <1>6 DEF Escalate
      <3>3. QED
        BY <3>1, <3>2 DEF Volumes
    <2>3. UNCHANGED <<chain, unwaited, playing, run, closed, loops, saved, owner, callers, sirens>>
      BY <1>6 DEF Escalate
    <2>4. QED
      BY <2>1, <2>2, <2>3 DEF TypeOK, callers
  <1>7. CASE RememberFirst(r)
    <2>1. level[r] < Len(chain)
      BY <1>7 DEF RememberFirst, LevelOK
    <2>2. /\ level' \in [Runs -> 0 .. Len(chain)]
          /\ esc' \in [Runs -> {"none", "wait", "remember", "spawn", "ended"}]
      BY <1>4, <1>7, <2>1 DEF RememberFirst, AfterRemembering, TypeOK
    <2>3. saved' \in Volumes \cup {None} /\ reading' \in [Runs -> Volumes \cup {None}]
      BY <1>7 DEF RememberFirst, TypeOK
    <2>4. QED
      BY <1>7, <2>2, <2>3 DEF RememberFirst, TypeOK, callers
  <1>8. CASE SpawnSiren(r)
    <2>1. level[r] < Len(chain)
      BY <1>8 DEF SpawnSiren, LevelOK
    <2>2. /\ level' \in [Runs -> 0 .. Len(chain)]
          /\ esc' \in [Runs -> {"none", "wait", "remember", "spawn", "ended"}]
      BY <1>4, <1>8, <2>1 DEF SpawnSiren
    <2>3. loops' \in Nat /\ sirens' \in [Runs -> Nat]
      <3>1. CASE playing
        <4>1. loops' = loops + 1 /\ sirens' = [sirens EXCEPT ![r] = @ + 1]
          BY <1>8, <3>1 DEF SpawnSiren
        <4>2. loops \in Nat /\ sirens \in [Runs -> Nat] /\ sirens[r] + 1 \in Nat
          BY DEF TypeOK
        <4>3. QED
          BY <4>1, <4>2
      <3>2. CASE ~playing
        BY <1>8, <3>2 DEF SpawnSiren, TypeOK
      <3>3. QED
        BY <3>1, <3>2
    <2>4. QED
      BY <1>8, <2>2, <2>3 DEF SpawnSiren, TypeOK, callers
  <1>9. QED
    BY <1>2, <1>3, <1>5, <1>6, <1>7, <1>8 DEF GiveUp, Escalate

-----------------------------------------------------------------------------
(***************************************************************************)
(* Who is about to start what, and how far each run has come.              *)
(***************************************************************************)
LEMMA CallersBegin ==
  ASSUME ConstantsOK, TypeOK, SpawnOK, LevelOK, NEW c \in Callers,
         \/ Start(c) \/ Spawn(c) \/ RaiseVolume(c) \/ RememberVolume(c)
         \/ Stop(c) \/ RestoreVolume(c) \/ Wait(c)
  PROVE  SpawnOK' /\ LevelOK'
  <1>1. CASE Start(c)
    <2>1. /\ run' = run + 1 /\ esc' = esc /\ level' = level /\ chain' = chain
          /\ pc'[c] = "spawn" /\ mine'[c] = run + 1
          /\ \A d \in Callers : d # c => pc'[d] = pc[d] /\ mine'[d] = mine[d]
          /\ run \in Nat /\ run + 1 \in Runs
      BY <1>1, ChainFacts DEF Start, Goto, TypeOK, escalation, Runs
    <2>2. esc[run + 1] = "none" /\ run + 1 > run /\ run + 1 \in 1 .. run + 1
          /\ run + 1 \notin 1 .. run /\ 1 .. run \subseteq 1 .. run + 1
      BY <2>1 DEF LevelOK
    <2>3. SpawnOK'
      BY <2>1, <2>2 DEF SpawnOK
    <2>4. \A r \in Runs : r > run + 1 => r > run
      BY <2>1 DEF Runs
    <2>5. QED
      BY <2>1, <2>3, <2>4 DEF LevelOK
  <1>2. CASE Spawn(c)
    <2>1. /\ pc[c] = "spawn" /\ pc'[c] # "spawn" /\ run' = run /\ chain' = chain
          /\ level' = level
          /\ \A d \in Callers : d # c => pc'[d] = pc[d] /\ mine'[d] = mine[d]
      BY <1>2 DEF Spawn, Goto, TypeOK
    <2>2. /\ mine[c] \in 1 .. run /\ esc[mine[c]] = "none" /\ run \in Nat
          /\ \A d \in Callers : pc[d] = "spawn" /\ mine[d] = mine[c] => d = c
      BY <2>1, ChainFacts DEF SpawnOK
    <2>3. /\ \A r \in Runs : r # mine[c] => esc'[r] = esc[r]
          /\ chain = <<>> => esc' = esc
          /\ \A r \in Runs : esc'[r] = esc[r] \/ esc'[r] = "wait"
      BY <1>2 DEF Spawn, TypeOK
    <2>4. 1 .. run \subseteq Runs
      BY DEF TypeOK, Runs, ConstantsOK
    <2>5. SpawnOK'
      BY <2>1, <2>2, <2>3, <2>4 DEF SpawnOK
    <2>6. \A r \in Runs : r > run => r # mine[c]
      BY <2>2 DEF Runs
    <2>7. QED
      BY <2>1, <2>3, <2>5, <2>6 DEF LevelOK
  <1>3. CASE ~Start(c) /\ ~Spawn(c)
    <2>1. UNCHANGED <<run, chain, esc, level, mine>>
      BY <1>3 DEF RaiseVolume, RememberVolume, Stop, RestoreVolume, Wait, escalation
    <2>2. \A d \in Callers : pc'[d] = "spawn" => pc[d] = "spawn"
      BY <1>3 DEF RaiseVolume, RememberVolume, Stop, RestoreVolume, Wait, Goto, TypeOK
    <2>3. QED
      BY <2>1, <2>2 DEF SpawnOK, LevelOK
  <1>4. QED
    BY <1>1, <1>2, <1>3

\* The step of a loop: of the run it is of, and of the callers that wait.
LEMMA LoopFacts ==
  ASSUME ConstantsOK, TypeOK, LevelOK, NEW r \in Runs,
         \/ GiveUp(r) \/ Notify(r) \/ Escalate(r) \/ RememberFirst(r)
         \/ SpawnSiren(r) \/ SirenEnds(r)
  PROVE  /\ UNCHANGED <<run, chain, unwaited, playing, closed, mine, carry, owner>>
         /\ \A q \in Runs : q # r => esc'[q] = esc[q] /\ level'[q] = level[q]
         /\ ~SirenEnds(r) => esc[r] \in Escalating /\ level[r] \in 0 .. Len(chain)
         /\ \/ esc' = esc
            \/ esc'[r] = "ended"
            \/ esc'[r] = "wait"
            \/ /\ esc'[r] \in {"remember", "spawn"} /\ level' = level
               /\ level[r] < Len(chain)
         /\ \/ pc' = pc
            \/ /\ Done
               /\ \A c \in Callers :
                    pc'[c] = pc[c] \/ (pc[c] = "waiting" /\ pc'[c] = "woken")
  <1>1. CASE GiveUp(r)
    BY <1>1 DEF GiveUp, EndEscalation, Done, TypeOK, Escalating
  <1>2. CASE Notify(r)
    BY <1>2 DEF Notify, NextLevel, TypeOK, callers, Escalating
  <1>3. CASE Escalate(r)
    BY <1>3 DEF Escalate, EndEscalation, NextLevel, Done, TypeOK, callers, Escalating
  <1>4. CASE RememberFirst(r)
    BY <1>4 DEF RememberFirst, AfterRemembering, NextLevel, TypeOK, callers, LevelOK, Escalating
  <1>5. CASE SpawnSiren(r)
    BY <1>5 DEF SpawnSiren, NextLevel, TypeOK, callers, Escalating
  <1>6. CASE SirenEnds(r)
    BY <1>6 DEF SirenEnds, Done, TypeOK, escalation
  <1>7. QED
    BY <1>1, <1>2, <1>3, <1>4, <1>5, <1>6

LEMMA LoopsBegin ==
  ASSUME ConstantsOK, TypeOK, SpawnOK, LevelOK, NEW r \in Runs,
         \/ GiveUp(r) \/ Notify(r) \/ Escalate(r) \/ RememberFirst(r)
         \/ SpawnSiren(r) \/ SirenEnds(r)
  PROVE  SpawnOK' /\ LevelOK'
  <1>1. UNCHANGED <<run, chain, mine>>
    BY LoopFacts
  <1>2. \A c \in Callers : pc'[c] = "spawn" => pc[c] = "spawn"
    BY LoopFacts
  <1>3. \A q \in Runs : esc[q] = "none" => esc'[q] = "none"
    <2>1. CASE SirenEnds(r)
      BY <2>1 DEF SirenEnds, escalation
    <2>2. CASE ~SirenEnds(r)
      BY <2>2, LoopFacts DEF Escalating
    <2>3. QED
      BY <2>1, <2>2
  <1>4. 1 .. run \subseteq Runs
    BY DEF TypeOK, Runs, ConstantsOK
  <1>5. SpawnOK'
    BY <1>1, <1>2, <1>3, <1>4 DEF SpawnOK
  <1>6. \A q \in Runs : esc'[q] \in {"remember", "spawn"} => level'[q] < Len(chain)
    <2>1. CASE SirenEnds(r)
      BY <2>1 DEF SirenEnds, escalation, LevelOK
    <2>2. CASE ~SirenEnds(r)
      <3>1. ASSUME NEW q \in Runs, esc'[q] \in {"remember", "spawn"}, q # r
            PROVE  level'[q] < Len(chain)
        BY <3>1, LoopFacts DEF LevelOK
      <3>2. esc'[r] # "ended" /\ esc'[r] # "wait" /\ esc' # esc => level'[r] < Len(chain)
        BY LoopFacts
      <3>3. esc' = esc /\ esc'[r] \in {"remember", "spawn"} => level'[r] < Len(chain)
        BY <2>2 DEF GiveUp, EndEscalation, Notify, Escalate, RememberFirst, SpawnSiren,
                    NextLevel, AfterRemembering, TypeOK, LevelOK
      <3>4. QED
        BY <3>1, <3>2, <3>3
    <2>3. QED
      BY <2>1, <2>2
  <1>7. QED
    BY <1>1, <1>3, <1>5, <1>6 DEF LevelOK

-----------------------------------------------------------------------------
(***************************************************************************)
(* Which channels are open, and who is still to wait.                      *)
(***************************************************************************)
LEMMA CallersClose ==
  ASSUME ConstantsOK, TypeOK, OneOpenChannel, WaitOK, NEW c \in Callers,
         \/ Start(c) \/ Spawn(c) \/ RaiseVolume(c) \/ RememberVolume(c)
         \/ Stop(c) \/ RestoreVolume(c) \/ Wait(c)
  PROVE  OneOpenChannel' /\ WaitOK'
  <1>1. /\ run \in Nat /\ closed \subseteq 1 .. run
        /\ \A d \in Callers : d # c => pc'[d] = pc[d] /\ carry'[d] = carry[d]
        /\ pc'[c] # "restore" \/ Stop(c)
    BY ChainFacts DEF TypeOK, Start, Spawn, RaiseVolume, RememberVolume, Stop, RestoreVolume,
       Wait, Goto
  <1>2. CASE Start(c)
    <2>1. /\ run' = run + 1 /\ playing' = TRUE /\ ~playing /\ closed' = closed
      BY <1>2 DEF Start
    <2>2. \A r \in 1 .. run + 1 : r \in 1 .. run \/ r = run + 1
      BY <1>1
    <2>3. run + 1 \notin 1 .. run /\ run + 1 >= 1
      BY <1>1
    <2>4. OneOpenChannel'
      BY <1>1, <2>1, <2>2, <2>3 DEF OneOpenChannel
    <2>5. \A d \in Callers : pc'[d] = "restore" => carry'[d] # None
      BY <1>1, <1>2 DEF WaitOK, Start, Goto, TypeOK
    <2>6. QED
      BY <2>1, <2>3, <2>4, <2>5 DEF WaitOK
  <1>3. CASE Stop(c)
    <2>1. /\ run' = run /\ playing /\ playing' = FALSE /\ closed' = closed \cup {run}
          /\ pc'[c] = IF saved = None THEN "wait" ELSE "restore"
          /\ carry'[c] = saved
      BY <1>3 DEF Stop, Goto, TypeOK
    <2>2. OneOpenChannel'
      BY <2>1 DEF OneOpenChannel
    <2>3. \A d \in Callers : pc'[d] = "restore" => carry'[d] # None
      BY <1>1, <2>1 DEF WaitOK
    <2>4. QED
      BY <2>1, <2>2, <2>3 DEF WaitOK, Expecting
  <1>4. CASE Spawn(c) \/ RaiseVolume(c) \/ RememberVolume(c) \/ RestoreVolume(c) \/ Wait(c)
    <2>1. UNCHANGED <<run, playing, closed>> /\ (~playing => loops' = loops)
      BY <1>4 DEF Spawn, RaiseVolume, RememberVolume, RestoreVolume, Wait
    <2>2. OneOpenChannel'
      BY <2>1 DEF OneOpenChannel
    <2>3. ~Stop(c)
      BY <1>4 DEF Stop, Spawn, RaiseVolume, RememberVolume, RestoreVolume, Wait, Goto
    <2>4. \A d \in Callers : pc'[d] = "restore" => carry'[d] # None
      BY <1>1, <2>3 DEF WaitOK
    <2>5. loops # 0 /\ ~unwaited' /\ pc[c] \in Expecting => pc'[c] \in Expecting
      BY <1>4 DEF Spawn, RaiseVolume, RememberVolume, RestoreVolume, Wait, Goto, Expecting,
                  TypeOK
    <2>6. unwaited' \/ unwaited' = unwaited
      BY <1>4 DEF Spawn, RaiseVolume, RememberVolume, RestoreVolume, Wait
    <2>7. ASSUME ~playing, ~unwaited', loops # 0 PROVE \E d \in Callers : pc'[d] \in Expecting
      BY <1>1, <2>5, <2>6, <2>7 DEF WaitOK
    <2>8. QED
      BY <2>1, <2>2, <2>4, <2>7 DEF WaitOK
  <1>5. QED
    BY <1>2, <1>3, <1>4

LEMMA LoopsClose ==
  ASSUME ConstantsOK, TypeOK, CountOK, LevelOK, OneOpenChannel, WaitOK, NEW r \in Runs,
         \/ GiveUp(r) \/ Notify(r) \/ Escalate(r) \/ RememberFirst(r)
         \/ SpawnSiren(r) \/ SirenEnds(r)
  PROVE  OneOpenChannel' /\ WaitOK'
  <1>1. UNCHANGED <<run, chain, unwaited, playing, closed, carry>>
    BY LoopFacts
  <1>2. OneOpenChannel'
    BY <1>1 DEF OneOpenChannel
  <1>3. \A c \in Callers : pc'[c] = "restore" => carry'[c] # None
    BY <1>1, LoopFacts DEF WaitOK
  <1>4. ASSUME ~playing, ~unwaited, loops' # 0 PROVE \E c \in Callers : pc'[c] \in Expecting
    <2>1. CASE Done
      <3>1. loops' = loops - 1 /\ loops \in Nat
        BY <2>1 DEF Done, TypeOK
      <3>2. loops >= 1
        <4>1. CASE GiveUp(r)
          BY <4>1, EscalationEnds DEF GiveUp, Escalating
        <4>2. CASE SirenEnds(r)
          BY <4>2, SirenStops
        <4>3. CASE Notify(r) \/ Escalate(r) \/ RememberFirst(r)
          BY <1>4, <3>1, <4>3 DEF Notify, Escalate, RememberFirst
        <4>4. CASE SpawnSiren(r)
          BY <1>4, <3>1, <4>4 DEF SpawnSiren
        <4>5. QED
          BY <4>1, <4>2, <4>3, <4>4
      <3>3. loops # 1 /\ loops # 0
        BY <1>4, <3>1, <3>2
      <3>4. pc' = pc
        BY <2>1, <3>3 DEF Done, TypeOK
      <3>5. QED
        BY <1>4, <3>3, <3>4 DEF WaitOK
    <2>2. CASE ~Done
      <3>1. pc' = pc
        BY <2>2, LoopFacts
      <3>2. loops' = loops
        BY <1>4, <2>2 DEF GiveUp, EndEscalation, Notify, Escalate, RememberFirst, SpawnSiren,
                          SirenEnds
      <3>3. QED
        BY <1>4, <3>1, <3>2 DEF WaitOK
    <2>3. QED
      BY <2>1, <2>2
  <1>5. QED
    BY <1>1, <1>2, <1>3, <1>4 DEF WaitOK

-----------------------------------------------------------------------------
(***************************************************************************)
(* The theorems about any number of callers.                               *)
(***************************************************************************)
LEMMA InitSirenInv == ConstantsOK /\ Init => SirenInv
  <1> SUFFICES ASSUME ConstantsOK, Init PROVE SirenInv
    OBVIOUS
  <1>1. TypeOK
    <2>1. chain \in Seq(Levels) /\ MaxRuns \in Nat
      BY DEF Init, ConstantsOK
    <2>2. Len(chain) \in Nat
      BY <2>1
    <2>3. /\ level \in [Runs -> 0 .. Len(chain)] /\ mine \in [Callers -> 0 .. MaxRuns]
          /\ run \in 0 .. MaxRuns
      BY <2>1, <2>2 DEF Init
    <2>4. /\ pc \in [Callers -> {"idle", "spawn", "raise", "remember", "restore", "wait",
                                "waiting", "woken"}]
          /\ esc \in [Runs -> {"none", "wait", "remember", "spawn", "ended"}]
          /\ carry \in [Callers -> Volumes \cup {None}]
          /\ reading \in [Runs -> Volumes \cup {None}] /\ sirens \in [Runs -> Nat]
      BY DEF Init
    <2>5. QED
      BY <2>3, <2>4 DEF Init, TypeOK, Volumes
  <1>2. CountOK
    BY SoundingEmpty
  <1>3. SpawnOK /\ LevelOK /\ OneOpenChannel /\ WaitOK
    BY DEF Init, SpawnOK, LevelOK, OneOpenChannel, WaitOK, Runs
  <1>4. QED
    BY <1>1, <1>2, <1>3 DEF SirenInv

LEMMA NextSirenInv == ConstantsOK /\ SirenInv /\ [Next]_vars => SirenInv'
  <1> SUFFICES ASSUME ConstantsOK, SirenInv, [Next]_vars PROVE SirenInv'
    OBVIOUS
  <1> USE DEF SirenInv
  <1>1. SirenSteps
    BY NextSteps
  <1>2. CASE \E c \in Callers : \/ Start(c) \/ Spawn(c) \/ RaiseVolume(c) \/ RememberVolume(c)
                                \/ Stop(c) \/ RestoreVolume(c) \/ Wait(c)
    BY <1>2, CallersTyped, CallersCount, CallersBegin, CallersClose
  <1>3. CASE \E r \in Runs : \/ GiveUp(r) \/ Notify(r) \/ Escalate(r) \/ RememberFirst(r)
                             \/ SpawnSiren(r) \/ SirenEnds(r)
    BY <1>3, LoopsTyped, LoopsCount, LoopsBegin, LoopsClose
  <1>4. CASE (\E v \in Own : OwnerSets(v)) \/ UNCHANGED vars
    <2>1. UNCHANGED <<chain, unwaited, playing, run, closed, loops, saved, callers, escalation,
                     sirens>>
      BY <1>4 DEF OwnerSets, vars
    <2>2. TypeOK'
      BY <1>4, <2>1 DEF OwnerSets, vars, TypeOK, callers, escalation, Volumes
    <2>3. CountOK'
      BY <2>1, SameSounding DEF escalation
    <2>4. SpawnOK' /\ LevelOK' /\ OneOpenChannel' /\ WaitOK'
      BY <2>1 DEF SpawnOK, LevelOK, OneOpenChannel, WaitOK, callers, escalation
    <2>5. QED
      BY <2>2, <2>3, <2>4
  <1>5. QED
    BY <1>1, <1>2, <1>3, <1>4 DEF SirenSteps

\* What is always so of the siren: its types, a count that is the loops there are, one
\* run to each caller that starts one, and a Stop that still waits while any runs.
THEOREM SirenInvariant == ASSUME ConstantsOK PROVE Spec => []SirenInv
  BY InitSirenInv, NextSirenInv, PTL DEF Spec

\* Every reachable state has its types; the count of the loops is never below nothing.
THEOREM TypeCorrect == ASSUME ConstantsOK PROVE Spec => []TypeOK
  <1>1. SirenInv => TypeOK
    BY DEF SirenInv
  <1>2. QED
    BY <1>1, SirenInvariant, PTL

\* However many goroutines start and stop the alarm, every run's channel is closed once
\* and only the one that is playing is open; and a siren that is off, every Stop having
\* returned, has no loop left, unless the volume backend panicked in one and took the
\* wait with it.  (Start, Stop, spawn, loops.)
THEOREM QuietWhenStoppedHolds ==
  ASSUME ConstantsOK PROVE Spec => [](OneOpenChannel /\ QuietWhenStopped)
  <1>1. SirenInv => OneOpenChannel /\ QuietWhenStopped
    BY DEF SirenInv, WaitOK, QuietWhenStopped, Resting, Expecting
  <1>2. QED
    BY <1>1, SirenInvariant, PTL

-----------------------------------------------------------------------------
(***************************************************************************)
(* Whose volume it is.                                                     *)
(***************************************************************************)
\* Without a chain there is only the caller to raise the volume and to put it back.
LEMMA CallerPlain ==
  ASSUME ConstantsOK, SirenInv, PlainVolume, OneCaller, NEW c \in Callers,
         \/ Start(c) \/ Spawn(c) \/ RaiseVolume(c) \/ RememberVolume(c)
         \/ Stop(c) \/ RestoreVolume(c) \/ Wait(c)
  PROVE  PlainVolume'
  <1>1. SUFFICES ASSUME chain = <<>> PROVE PlainVolume'
    BY DEF PlainVolume, Start, Spawn, RaiseVolume, RememberVolume, Stop, RestoreVolume, Wait
  <1>2. /\ \A d \in Callers : d = c
        /\ pc \in [Callers -> {"idle", "spawn", "raise", "remember", "restore", "wait",
                               "waiting", "woken"}]
        /\ carry \in [Callers -> Volumes \cup {None}]
        /\ owner # None
    BY DEF OneCaller, SirenInv, TypeOK, ConstantsOK
  <1>3. /\ pc[c] \in {"spawn", "raise"} => playing /\ saved = None /\ volume = owner
        /\ pc[c] = "remember" => playing /\ saved = None /\ carry[c] = owner
        /\ pc[c] = "restore" => ~playing /\ saved = None /\ carry[c] = owner
        /\ pc[c] \in {"wait", "waiting", "woken"} => ~playing /\ saved = None /\ volume = owner
        /\ pc[c] = "idle" => Kept /\ (~playing => saved = None)
    BY <1>1, <1>2 DEF PlainVolume
  <1>4. /\ pc'[c] \in {"spawn", "raise"} => playing' /\ saved' = None /\ volume' = owner'
        /\ pc'[c] = "remember" => playing' /\ saved' = None /\ carry'[c] = owner'
        /\ pc'[c] = "restore" => ~playing' /\ saved' = None /\ carry'[c] = owner'
        /\ pc'[c] \in {"wait", "waiting", "woken"} =>
             ~playing' /\ saved' = None /\ volume' = owner'
        /\ pc'[c] = "idle" => Kept' /\ (~playing' => saved' = None)
    <2>1. CASE Start(c)
      BY <1>2, <1>3, <2>1 DEF Start, Goto, Kept
    <2>2. CASE Spawn(c)
      BY <1>1, <1>2, <1>3, <2>2 DEF Spawn, Goto, Kept
    <2>3. CASE RaiseVolume(c)
      BY <1>2, <1>3, <2>3 DEF RaiseVolume, Goto, Kept
    <2>4. CASE RememberVolume(c)
      BY <1>2, <1>3, <2>4 DEF RememberVolume, Goto, Kept
    <2>5. CASE Stop(c)
      BY <1>2, <1>3, <2>5 DEF Stop, Goto, Kept
    <2>6. CASE RestoreVolume(c)
      BY <1>2, <1>3, <2>6 DEF RestoreVolume, Goto, Kept, OneCaller
    <2>7. CASE Wait(c)
      BY <1>2, <1>3, <2>7 DEF Wait, Goto, Kept
    <2>8. QED
      BY <2>1, <2>2, <2>3, <2>4, <2>5, <2>6, <2>7
  <1>5. QED
    BY <1>2, <1>4 DEF PlainVolume

\* With a chain, a caller leaves the volume alone until it stops the first run.
LEMMA CallerChain ==
  ASSUME ConstantsOK, SirenInv, ChainVolume, NEW c \in Callers,
         \/ Start(c) \/ Spawn(c) \/ RaiseVolume(c) \/ RememberVolume(c)
         \/ Stop(c) \/ RestoreVolume(c) \/ Wait(c)
  PROVE  ChainVolume'
  <1>1. SUFFICES ASSUME chain # <<>> PROVE ChainVolume'
    BY DEF ChainVolume, Start, Spawn, RaiseVolume, RememberVolume, Stop, RestoreVolume, Wait
  <1>2. /\ \A d \in Callers : pc[d] \notin {"raise", "remember"}
        /\ run = 0 => saved = None /\ volume = owner /\ \A d \in Callers : pc[d] = "idle"
        /\ playing /\ run = 1 =>
             /\ \A d \in Callers : pc[d] # "restore"
             /\ IF saved # None THEN saved = owner
                ELSE IF esc[1] = "remember" THEN reading[1] = owner ELSE volume = owner
        /\ run \in Nat /\ (playing => run >= 1)
        /\ \A d \in Callers : d # c => pc'[d] = pc[d]
        /\ \A r \in Runs : r > run => esc[r] = "none"
    BY <1>1, ChainFacts DEF ChainVolume, SirenInv, WaitOK, LevelOK, Start, Spawn, RaiseVolume,
       RememberVolume, Stop, RestoreVolume, Wait, Goto, TypeOK
  <1>3. CASE Start(c)
    <2>1. /\ run' = run + 1 /\ pc'[c] = "spawn" /\ run + 1 \in Runs
          /\ UNCHANGED <<saved, volume, owner, esc, reading>>
      BY <1>3, ChainFacts DEF Start, Goto, SirenInv, TypeOK, escalation, Runs
    <2>2. run + 1 # 0 /\ (run + 1 = 1 => run = 0)
      BY <1>2
    <2>3. run + 1 = 1 => esc[1] = "none"
      BY <1>2, <2>1, <2>2
    <2>4. QED
      BY <1>2, <2>1, <2>2, <2>3 DEF ChainVolume
  <1>4. CASE Spawn(c)
    <2>1. /\ UNCHANGED <<run, playing, saved, volume, owner, reading>>
          /\ pc[c] = "spawn" /\ pc'[c] = "idle"
      BY <1>1, <1>4 DEF Spawn, Goto, SirenInv, TypeOK
    <2>2. run # 0
      BY <1>2, <2>1
    <2>3. run = 1 => esc[1] # "remember" /\ esc'[1] # "remember"
      <3>1. mine[c] \in 1 .. run /\ esc[mine[c]] = "none"
        BY <2>1 DEF SirenInv, SpawnOK
      <3>2. run = 1 => mine[c] = 1 /\ 1 \in Runs
        BY <3>1, ChainFacts DEF SirenInv, TypeOK, Runs
      <3>3. QED
        BY <1>4, <3>1, <3>2 DEF Spawn, SirenInv, TypeOK
    <2>4. QED
      BY <1>2, <2>1, <2>2, <2>3 DEF ChainVolume
  <1>5. CASE Stop(c)
    <2>1. /\ UNCHANGED <<run, owner>> /\ playing /\ playing' = FALSE
          /\ pc'[c] \in {"wait", "restore"}
      BY <1>5 DEF Stop, Goto, SirenInv, TypeOK
    <2>2. QED
      BY <1>2, <2>1 DEF ChainVolume
  <1>6. CASE RestoreVolume(c) \/ Wait(c)
    <2>1. /\ UNCHANGED <<run, playing, saved, owner, esc, reading>>
          /\ pc[c] # "idle" /\ pc'[c] \in {"idle", "wait", "waiting"}
          /\ pc[c] = "restore" \/ volume' = volume
      BY <1>6 DEF RestoreVolume, Wait, Goto, SirenInv, TypeOK, escalation
    <2>2. QED
      BY <1>2, <2>1 DEF ChainVolume
  <1>7. CASE RaiseVolume(c) \/ RememberVolume(c)
    BY <1>2, <1>7 DEF RaiseVolume, RememberVolume, Goto
  <1>8. QED
    BY <1>3, <1>4, <1>5, <1>6, <1>7

\* What a loop does to the volume, and to what is remembered of it.
LEMMA LoopVolume ==
  ASSUME ConstantsOK, SirenInv, VInv, NEW r \in Runs,
         \/ GiveUp(r) \/ Notify(r) \/ Escalate(r) \/ RememberFirst(r)
         \/ SpawnSiren(r) \/ SirenEnds(r)
  PROVE  VInv'
  <1> USE DEF SirenInv
  <1>1. /\ UNCHANGED <<run, chain, playing, carry, owner>>
        /\ \A c \in Callers : pc'[c] = pc[c] \/ (pc[c] = "waiting" /\ pc'[c] = "woken")
    BY LoopFacts
  <1>2. CASE chain = <<>>
    <2>1. esc[r] = "none"
      BY <1>2 DEF LevelOK
    <2>2. UNCHANGED <<volume, saved>>
      BY <2>1 DEF GiveUp, Notify, Escalate, RememberFirst, SpawnSiren, SirenEnds
    <2>3. Kept' <=> Kept
      BY <1>1, <2>2 DEF Kept
    <2>4. PlainVolume'
      BY <1>1, <1>2, <2>2, <2>3 DEF VInv, PlainVolume
    <2>5. QED
      BY <1>1, <1>2, <2>4 DEF VInv, ChainVolume
  <1>3. CASE chain # <<>> /\ SirenEnds(r)
    <2>1. UNCHANGED <<volume, saved, esc, reading>>
      BY <1>3 DEF SirenEnds, escalation
    <2>2. ChainVolume'
      BY <1>1, <1>3, <2>1 DEF VInv, ChainVolume
    <2>3. QED
      BY <1>1, <1>3, <2>2 DEF VInv, PlainVolume
  <1>4. CASE chain # <<>> /\ ~SirenEnds(r)
    <2>1. esc[r] \in Escalating /\ r <= run /\ run \in Nat /\ run # 0
      <3>1. esc[r] \in Escalating
        BY <1>4, LoopFacts
      <3>2. ~(r > run) /\ run \in Nat /\ r \in Nat /\ r >= 1
        BY <3>1, ChainFacts DEF LevelOK, Escalating, Runs
      <3>3. QED
        BY <3>1, <3>2
    <2>2. run = 1 => r = 1 /\ 1 \in Runs
      BY <2>1 DEF Runs
    <2>3. ASSUME playing, run = 1
          PROVE  IF saved' # None THEN saved' = owner
                 ELSE IF esc'[1] = "remember" THEN reading'[1] = owner ELSE volume' = owner
      <3>1. /\ r = 1 /\ 1 \in Runs
            /\ IF saved # None THEN saved = owner
               ELSE IF esc[1] = "remember" THEN reading[1] = owner ELSE volume = owner
        BY <1>4, <2>2, <2>3 DEF VInv, ChainVolume
      <3>2. CASE GiveUp(1) \/ EndEscalation(1)
        <4>1. esc'[1] = "ended" /\ UNCHANGED <<volume, saved, reading>>
          BY <3>1, <3>2 DEF GiveUp, EndEscalation, TypeOK
        <4>2. CASE GiveUp(1)
          BY <3>1, <4>1, <4>2 DEF GiveUp
        <4>3. CASE ~GiveUp(1)
          <5>1. esc[1] # "remember" \/ RememberFirst(1)
            BY <1>4, <3>1, <4>3 DEF Notify, Escalate, SpawnSiren
          <5>2. ~RememberFirst(1)
            BY <3>1, <4>1 DEF RememberFirst, AfterRemembering, NextLevel, TypeOK
          <5>3. QED
            BY <3>1, <4>1, <5>1, <5>2
        <4>4. QED
          BY <4>2, <4>3
      <3>3. CASE Notify(1)
        BY <3>1, <3>3 DEF Notify, NextLevel, TypeOK
      <3>4. CASE Escalate(1) /\ ~EndEscalation(1)
        BY <3>1, <3>4 DEF Escalate, NextLevel, TypeOK
      <3>5. CASE RememberFirst(1)
        <4>1. owner # None
          BY DEF TypeOK, ConstantsOK
        <4>2. saved' = IF saved = None THEN reading[1] ELSE saved
          BY <3>5 DEF RememberFirst
        <4>3. esc[1] = "remember"
          BY <3>5 DEF RememberFirst
        <4>4. QED
          BY <3>1, <4>1, <4>2, <4>3
      <3>6. CASE SpawnSiren(1)
        BY <3>1, <3>6 DEF SpawnSiren, NextLevel, TypeOK
      <3>7. QED
        BY <1>4, <3>1, <3>2, <3>3, <3>4, <3>5, <3>6
    <2>4. ChainVolume'
      BY <1>1, <1>4, <2>1, <2>3 DEF VInv, ChainVolume
    <2>5. QED
      BY <1>1, <1>4, <2>4 DEF VInv, PlainVolume
  <1>5. QED
    BY <1>2, <1>3, <1>4

LEMMA NextVInv == ConstantsOK /\ OneCaller /\ SirenInv /\ VInv /\ [Next]_vars => VInv'
  <1> SUFFICES ASSUME ConstantsOK, OneCaller, SirenInv, VInv, [Next]_vars PROVE VInv'
    OBVIOUS
  <1>1. SirenSteps
    BY NextSteps
  <1>2. CASE \E c \in Callers : \/ Start(c) \/ Spawn(c) \/ RaiseVolume(c) \/ RememberVolume(c)
                                \/ Stop(c) \/ RestoreVolume(c) \/ Wait(c)
    BY <1>2, CallerPlain, CallerChain DEF VInv
  <1>3. CASE \E r \in Runs : \/ GiveUp(r) \/ Notify(r) \/ Escalate(r) \/ RememberFirst(r)
                             \/ SpawnSiren(r) \/ SirenEnds(r)
    BY <1>3, LoopVolume
  <1>4. CASE UNCHANGED vars
    BY <1>4 DEF VInv, PlainVolume, ChainVolume, Kept, vars, callers, escalation
  <1>5. CASE \E v \in Own : OwnerSets(v)
    <2>1. /\ UNCHANGED <<chain, playing, run, saved, callers, escalation>> /\ ~playing
          /\ volume = owner /\ volume' = owner' /\ \A c \in Callers : pc[c] = "idle"
      BY <1>5 DEF OwnerSets
    <2>2. PlainVolume'
      BY <2>1 DEF VInv, PlainVolume, Kept, callers
    <2>3. ChainVolume'
      BY <2>1 DEF VInv, ChainVolume, callers
    <2>4. QED
      BY <2>2, <2>3 DEF VInv
  <1>6. QED
    BY <1>1, <1>2, <1>3, <1>4, <1>5 DEF SirenSteps

\* With one goroutine to start and to stop the alarm, and a backend that sets the volume
\* it is given, the owner finds the volume they chose last; and what the first run, and
\* any run without a chain, would put back is theirs and none of the alarm's own, however
\* the loops run on past a Stop and whichever raise fails.  (startFullSiren,
\* rememberVolume, Stop.)
THEOREM OwnersVolumeHolds ==
  ASSUME ConstantsOK, OneCaller PROVE Spec => []OwnersVolume
  <1>1. Init => VInv
    BY DEF Init, VInv, PlainVolume, ChainVolume, Kept
  <1>2. SirenInv /\ VInv => OwnersVolume
    <2> SUFFICES ASSUME SirenInv, VInv PROVE OwnersVolume
      OBVIOUS
    <2>1. OwnersVolumeBack
      BY DEF OwnersVolumeBack, VInv, PlainVolume, Kept, Resting
    <2>2. OwnersReadingKept
      <3> SUFFICES ASSUME playing, saved # None, run = 1 \/ chain = <<>> PROVE saved = owner
        BY DEF OwnersReadingKept
      <3>1. CASE chain # <<>>
        BY <3>1 DEF VInv, ChainVolume
      <3>2. CASE chain = <<>>
        BY <3>2 DEF VInv, PlainVolume, Kept, SirenInv, TypeOK
      <3>3. QED
        BY <3>1, <3>2
    <2>3. QED
      BY <2>1, <2>2 DEF OwnersVolume
  <1>3. QED
    BY <1>1, <1>2, NextVInv, SirenInvariant, PTL DEF Spec
=============================================================================
