----------------------------- MODULE Files_proofs ------------------------------
(***************************************************************************)
(* Proofs about the replacing of a file, the push subscriptions, the log   *)
(* sink, what a start remembers, the update check, the values of the       *)
(* settings and the event history, and with them about a run of what the   *)
(* program keeps in which each of them has any constants that ConstantsOK  *)
(* of its module allows.                                                   *)
(***************************************************************************)
EXTENDS MCFiles, FiniteSetTheorems, SequenceTheorems, WellFoundedInduction, TLAPS

(***************************************************************************)
(* Replace: the writers implement WholeFile.                               *)
(*                                                                         *)
(* A rename puts the value of its saver in place because nobody else       *)
(* writes the saver's temporary file, which is so for one of two reasons:  *)
(* the name is its own, or the save is alone.  A crash that takes what was *)
(* not synced finds nothing to take, because what can be renamed has been  *)
(* synced, by those of the writers that sync.                              *)
(***************************************************************************)
WriteAt == IF writer \in {"endpoint", "subscriptions"} THEN 2 ELSE 3

SaverOK(s) ==
  /\ pc[s] <= Len(Steps[writer])
  /\ pc[s] > 0 => value[s] \in Values
  /\ name[s] # None <=> (pc[s] = -1 \/ pc[s] > 1)
  /\ name[s] # None => temp[name[s]] # NoFile
  /\ pc[s] > WriteAt => temp[name[s]].in = value[s]
  /\ writer \in Synced /\ pc[s] > 4 => temp[name[s]].synced

\* Two savers have two temporary files, and two that may not meet do not.
Apart ==
  \A s, t \in Savers : s # t =>
    /\ name[s] # None => name[s] # name[t]
    /\ writer \in Alone => pc[s] = 0 \/ pc[t] = 0

ContentsOK ==
  /\ file.in \in Values /\ before.in \in Values
  /\ writer \in Synced => file.synced /\ before.synced

\* A temporary file is somebody's, or was left by a crash, or is the one that stays.
Owned ==
  \A n \in Names : temp[n] # NoFile =>
    n \in left \/ writer \in Fixed \/ \E s \in Savers : name[s] = n

RInv == TypeOK /\ (\A s \in Savers : SaverOK(s)) /\ Apart /\ ContentsOK /\ Owned

-----------------------------------------------------------------------------
(***************************************************************************)
(* Where the steps of each writer are.                                     *)
(***************************************************************************)
LEMMA StepsOfWriters ==
  ASSUME NEW w \in DOMAIN Steps
  PROVE  /\ Len(Steps[w]) \in 4 .. 6
         /\ \A k \in 1 .. Len(Steps[w]) :
              /\ Steps[w][k] = "create" <=> k = 1
              /\ Steps[w][k] = "rename" <=> k = Len(Steps[w])
              /\ Steps[w][k] = "write"
                   <=> k = IF w \in {"endpoint", "subscriptions"} THEN 2 ELSE 3
              /\ Steps[w][k] = "sync" => k = 4 /\ w \in Synced
              /\ w \in Synced /\ k = 4 => Steps[w][k] = "sync"
         /\ w \in Synced => Len(Steps[w]) = 6
  <1>1. w \in {"config", "state", "ledger", "endpoint", "subscriptions"}
    BY DEF Steps
  <1>2. CASE w = "config"
    BY <1>2 DEF Steps, Synced
  <1>3. CASE w = "state"
    BY <1>3 DEF Steps, Synced
  <1>4. CASE w = "ledger"
    BY <1>4 DEF Steps, Synced
  <1>5. CASE w = "endpoint"
    BY <1>5 DEF Steps, Synced
  <1>6. CASE w = "subscriptions"
    BY <1>6 DEF Steps, Synced
  <1>7. QED
    BY <1>1, <1>2, <1>3, <1>4, <1>5, <1>6

\* The step a saver is at, as a place.
LEMMA AtPlaces ==
  ASSUME ConstantsOK, RInv, NEW s \in Savers
  PROVE  /\ At(s, "create") <=> pc[s] = 1
         /\ At(s, "rename") <=> pc[s] = Len(Steps[writer])
         /\ At(s, "write") <=> pc[s] = WriteAt
         /\ At(s, "sync") => pc[s] = 4 /\ writer \in Synced
         /\ writer \in Synced /\ pc[s] = 4 => At(s, "sync")
         /\ Len(Steps[writer]) \in 4 .. 6 /\ WriteAt \in 2 .. 3
         /\ writer \in Synced => Len(Steps[writer]) = 6 /\ WriteAt = 3
  <1>1. writer \in DOMAIN Steps /\ pc[s] \in Int /\ pc[s] <= Len(Steps[writer])
    BY DEF ConstantsOK, RInv, TypeOK, SaverOK
  <1>2. pc[s] > 0 => pc[s] \in 1 .. Len(Steps[writer])
    BY <1>1, StepsOfWriters
  <1>3. Len(Steps[writer]) \in 4 .. 6
    BY <1>1, StepsOfWriters
  <1>4. WriteAt \in 2 .. 3 /\ (writer \in Synced => WriteAt = 3)
    BY DEF WriteAt, Synced
  <1>5. writer \in Synced => Len(Steps[writer]) = 6
    BY <1>1, StepsOfWriters
  <1>6. CASE pc[s] > 0
    <2>1. At(s, "create") <=> pc[s] = 1
      BY <1>1, <1>2, <1>6, StepsOfWriters DEF At
    <2>2. At(s, "rename") <=> pc[s] = Len(Steps[writer])
      BY <1>1, <1>2, <1>6, StepsOfWriters DEF At
    <2>3. At(s, "write") <=> pc[s] = WriteAt
      BY <1>1, <1>2, <1>6, StepsOfWriters DEF At, WriteAt
    <2>4. /\ At(s, "sync") => pc[s] = 4 /\ writer \in Synced
          /\ writer \in Synced /\ pc[s] = 4 => At(s, "sync")
      BY <1>1, <1>2, <1>6, StepsOfWriters DEF At
    <2>5. QED
      BY <1>3, <1>4, <1>5, <2>1, <2>2, <2>3, <2>4
  <1>7. CASE ~(pc[s] > 0)
    <2>1. ~At(s, "create") /\ ~At(s, "rename") /\ ~At(s, "write") /\ ~At(s, "sync")
      BY <1>7 DEF At
    <2>2. pc[s] # 1 /\ pc[s] # 4 /\ pc[s] # WriteAt /\ pc[s] # Len(Steps[writer])
      <3>1. \A p \in Int, l \in 4 .. 6, w \in 2 .. 3 :
              ~(p > 0) => p # 1 /\ p # 4 /\ p # w /\ p # l
        OBVIOUS
      <3>2. QED
        BY <1>1, <1>3, <1>4, <1>7, <3>1
    <2>3. QED
      BY <1>3, <1>4, <1>5, <2>1, <2>2
  <1>8. QED
    BY <1>6, <1>7

-----------------------------------------------------------------------------
(***************************************************************************)
(* The steps keep the invariant.                                           *)
(***************************************************************************)
LEMMA FilesOK ==
  ASSUME ConstantsOK
  PROVE  /\ NoFile \notin Files
         /\ \A f \in Files : f = [in |-> f.in, synced |-> f.synced]
         /\ \A f \in Files : f.in \in Values \cup {Half} /\ f.synced \in BOOLEAN
         /\ \A f \in Files : f # NoFile
  BY DEF ConstantsOK, NoFile, Files

LEMMA InitRInv == ConstantsOK /\ Init => RInv
  <1> SUFFICES ASSUME ConstantsOK, Init PROVE RInv
    OBVIOUS
  <1>1. /\ file \in Files /\ file.in \in Values /\ file.synced = TRUE /\ before = file
    BY DEF Init, Files
  <1>2. TypeOK
    BY <1>1 DEF Init, TypeOK, ConstantsOK
  <1>3. ASSUME NEW s \in Savers PROVE SaverOK(s)
    <2>1. writer \in DOMAIN Steps /\ pc[s] = 0 /\ name[s] = None /\ WriteAt \in 2 .. 3
      BY DEF Init, ConstantsOK, WriteAt
    <2>2. QED
      BY <2>1, StepsOfWriters DEF SaverOK
  <1>4. Apart /\ ContentsOK /\ Owned
    BY <1>1 DEF Init, Apart, ContentsOK, Owned
  <1>5. QED
    BY <1>2, <1>3, <1>4 DEF RInv

LEMMA SaveStep ==
  ASSUME ConstantsOK, RInv, NEW s \in Savers, NEW v \in Values, Save(s, v)
  PROVE  RInv'
  <1>1. /\ pc \in [Savers -> -1 .. 6] /\ pc[s] = 0 /\ name[s] = None
        /\ value \in [Savers -> Values \cup {None}]
    BY DEF Save, RInv, TypeOK, SaverOK
  <1>2. TypeOK'
    BY <1>1 DEF Save, RInv, TypeOK
  <1>3. WriteAt' = WriteAt /\ WriteAt \in 2 .. 3 /\ Len(Steps[writer]) \in 4 .. 6
    BY AtPlaces DEF Save, WriteAt
  <1>4. ASSUME NEW q \in Savers PROVE SaverOK(q)'
    BY <1>1, <1>3 DEF Save, RInv, SaverOK
  <1>5. Apart'
    BY <1>1 DEF Save, RInv, Apart
  <1>6. ContentsOK' /\ Owned'
    BY DEF Save, RInv, ContentsOK, Owned
  <1>7. QED
    BY <1>2, <1>4, <1>5, <1>6 DEF RInv

\* A saver takes a name that nobody has, or the one there is while it is alone.
LEMMA CreateStep ==
  ASSUME ConstantsOK, RInv, NEW s \in Savers, Create(s)
  PROVE  RInv'
  <1>1. PICK n \in NewNames :
          /\ pc' = [pc EXCEPT ![s] = @ + 1] /\ name' = [name EXCEPT ![s] = n]
          /\ temp' = [temp EXCEPT ![n] = [in |-> Half, synced |-> FALSE]]
          /\ left' = left \ {n}
          /\ UNCHANGED <<writer, value, file, before, faults>>
    BY DEF Create, Advance
  <1>2. n \in Names
    BY <1>1 DEF NewNames, TheName, ConstantsOK
  <1>3. /\ pc \in [Savers -> -1 .. 6] /\ name \in [Savers -> Names \cup {None}]
        /\ temp \in [Names -> Files \cup {NoFile}]
    BY DEF RInv, TypeOK
  <1>4. /\ pc[s] = 1 /\ name[s] = None /\ WriteAt' = WriteAt /\ WriteAt \in 2 .. 3
        /\ Len(Steps[writer]) \in 4 .. 6
    BY <1>1, AtPlaces DEF Create, RInv, SaverOK, WriteAt
  <1>5. \A t \in Savers \ {s} : name[t] # n
    <2>1. TAKE t \in Savers \ {s}
    <2>2. CASE writer \in Fixed
      <3>1. pc[t] = 0
        BY <1>4, <2>2 DEF RInv, Apart, Fixed, Alone
      <3>2. name[t] = None
        BY <3>1 DEF RInv, SaverOK
      <3>3. QED
        BY <1>2, <3>2 DEF ConstantsOK
    <2>3. CASE writer \notin Fixed
      <3>1. temp[n] = NoFile
        BY <1>1, <2>3 DEF NewNames
      <3>2. QED
        BY <1>2, <3>1 DEF RInv, SaverOK, ConstantsOK
    <2>4. QED
      BY <2>2, <2>3
  <1>6. [in |-> Half, synced |-> FALSE] \in Files
    BY DEF Files
  <1>7. TypeOK'
    BY <1>1, <1>2, <1>3, <1>4, <1>6 DEF RInv, TypeOK
  <1>8. ASSUME NEW q \in Savers PROVE SaverOK(q)'
    <2>1. CASE q = s
      <3>1. pc'[q] = 2 /\ name'[q] = n /\ n # None
        BY <1>1, <1>2, <1>3, <1>4, <2>1 DEF ConstantsOK
      <3>2. temp'[n] # NoFile
        BY <1>1, <1>2, <1>3, <1>6, FilesOK
      <3>3. value'[q] \in Values
        BY <1>1, <1>4, <2>1 DEF RInv, SaverOK
      <3>4. pc'[q] <= Len(Steps[writer']) /\ ~(pc'[q] > WriteAt') /\ ~(pc'[q] > 4)
        BY SMTT(30), <1>1, <1>4, <3>1
      <3>5. QED
        BY <3>1, <3>2, <3>3, <3>4 DEF SaverOK
    <2>2. CASE q # s
      <3>1. pc'[q] = pc[q] /\ name'[q] = name[q] /\ name[q] # n
            /\ value'[q] = value[q] /\ writer' = writer
        BY <1>1, <1>3, <1>5, <2>2
      <3>2. name[q] # None => temp'[name[q]] = temp[name[q]]
        BY <1>1, <1>3, <3>1
      <3>3. pc[q] \in Int /\ (pc[q] > 1 => name[q] # None)
        BY <1>3 DEF RInv, SaverOK
      <3>4. QED
        BY <1>4, <3>1, <3>2, <3>3 DEF RInv, SaverOK
    <2>3. QED
      BY <2>1, <2>2
  <1>9. Apart'
    BY <1>1, <1>3, <1>4, <1>5 DEF RInv, Apart
  <1>10. ContentsOK' /\ Owned'
    BY <1>1, <1>2, <1>3, <1>4 DEF RInv, ContentsOK, Owned, ConstantsOK
  <1>11. QED
    BY <1>7, <1>8, <1>9, <1>10 DEF RInv

\* What a saver does to its own temporary file, and to its place, is nothing to the
\* others.
LEMMA OwnFileStep ==
  ASSUME ConstantsOK, RInv, NEW s \in Savers, pc[s] > 1, NEW f \in Files,
         pc' = [pc EXCEPT ![s] = @ + 1], pc[s] < Len(Steps[writer]),
         temp' = [temp EXCEPT ![name[s]] = f],
         UNCHANGED <<writer, value, name, file, before, left, faults>>,
         pc[s] + 1 > WriteAt => f.in = value[s],
         writer \in Synced /\ pc[s] + 1 > 4 => f.synced
  PROVE  RInv'
  <1>1. /\ pc \in [Savers -> -1 .. 6] /\ name \in [Savers -> Names \cup {None}]
        /\ temp \in [Names -> Files \cup {NoFile}]
    BY DEF RInv, TypeOK
  <1>2. name[s] # None /\ name[s] \in Names /\ value[s] \in Values
    BY <1>1 DEF RInv, SaverOK
  <1>3. WriteAt' = WriteAt /\ WriteAt \in 2 .. 3 /\ Len(Steps[writer]) \in 4 .. 6
    BY AtPlaces DEF WriteAt
  <1>4. pc[s] + 1 \in 2 .. 6 /\ pc[s] + 1 <= Len(Steps[writer]) /\ pc'[s] = pc[s] + 1
    <2>1. \A p \in Int, l \in 4 .. 6 :
            p > 1 /\ p < l => p + 1 \in 2 .. 6 /\ p + 1 <= l
      OBVIOUS
    <2>2. pc[s] \in Int /\ pc[s] < Len(Steps[writer]) /\ pc'[s] = pc[s] + 1
      BY <1>1
    <2>3. QED
      BY <1>3, <2>1, <2>2
  <1>5. TypeOK'
    BY <1>1, <1>2, <1>4 DEF RInv, TypeOK
  <1>6. f # NoFile
    BY FilesOK
  <1>7. ASSUME NEW q \in Savers PROVE SaverOK(q)'
    <2>1. CASE q = s
      <3>1. temp'[name[s]] = f /\ name'[q] = name[s]
        BY <1>1, <1>2, <2>1
      <3>2. pc'[q] > 1 /\ pc'[q] <= Len(Steps[writer'])
        BY <1>4, <2>1
      <3>3. QED
        BY <1>2, <1>3, <1>4, <1>6, <2>1, <3>1, <3>2 DEF SaverOK
    <2>2. CASE q # s
      <3>1. pc'[q] = pc[q] /\ name'[q] = name[q] /\ name[q] # name[s]
            /\ value'[q] = value[q] /\ writer' = writer
        BY <1>1, <1>2, <2>2 DEF RInv, Apart
      <3>2. name[q] # None => temp'[name[q]] = temp[name[q]]
        BY <1>1, <3>1
      <3>3. pc[q] \in Int /\ (pc[q] > 1 => name[q] # None)
        BY <1>1 DEF RInv, SaverOK
      <3>4. QED
        BY <1>3, <3>1, <3>2, <3>3 DEF RInv, SaverOK
    <2>3. QED
      BY <2>1, <2>2
  <1>8. Apart'
    <2>1. \A q \in Savers : pc'[q] = 0 => pc[q] = 0
      BY <1>1, <1>4
    <2>2. pc'[s] # 0 /\ pc[s] # 0 /\ \A q \in Savers \ {s} : pc'[q] = pc[q]
      BY <1>1, <1>4
    <2>3. QED
      BY <2>1, <2>2 DEF RInv, Apart
  <1>9. ContentsOK' /\ Owned'
    BY <1>1, <1>2 DEF RInv, ContentsOK, Owned
  <1>10. QED
    BY <1>5, <1>7, <1>8, <1>9 DEF RInv

\* Where a saver is that has a temporary file and is not at its rename yet.
LEMMA Underway ==
  ASSUME ConstantsOK, RInv, NEW s \in Savers, pc[s] > 1
  PROVE  /\ name[s] \in Names /\ temp[name[s]] \in Files /\ value[s] \in Values
         /\ temp[name[s]] = [in |-> temp[name[s]].in, synced |-> temp[name[s]].synced]
         /\ pc[s] \in 2 .. 6
  <1>1. pc[s] \in -1 .. 6 /\ name[s] \in Names \cup {None}
        /\ temp \in [Names -> Files \cup {NoFile}]
    BY DEF RInv, TypeOK
  <1>2. name[s] # None /\ value[s] \in Values /\ temp[name[s]] # NoFile
    BY <1>1 DEF RInv, SaverOK
  <1>3. name[s] \in Names /\ temp[name[s]] \in Files
    BY <1>1, <1>2
  <1>4. QED
    BY <1>1, <1>2, <1>3, FilesOK

LEMMA FillStep ==
  ASSUME ConstantsOK, RInv, NEW s \in Savers, Write(s) \/ Sync(s) \/ Prepare(s)
  PROVE  RInv' /\ pc[s] > 1
  <1>1. /\ pc[s] \in Int /\ pc[s] <= Len(Steps[writer]) /\ pc[s] > 0
        /\ pc' = [pc EXCEPT ![s] = @ + 1]
        /\ UNCHANGED <<writer, value, name, file, before, left, faults>>
    BY DEF Write, Sync, Prepare, Advance, At, RInv, TypeOK, SaverOK
  <1>2. WriteAt \in 2 .. 3 /\ Len(Steps[writer]) \in 4 .. 6
    BY AtPlaces
  <1>3. pc[s] # 1 /\ pc[s] # Len(Steps[writer])
    <2>1. ~At(s, "create") /\ ~At(s, "rename")
      BY DEF Write, Sync, Prepare, At
    <2>2. QED
      BY <2>1, AtPlaces
  <1>4. pc[s] > 1 /\ pc[s] < Len(Steps[writer])
    BY <1>1, <1>2, <1>3
  <1> DEFINE f == temp[name[s]]
  <1>5. name[s] \in Names /\ f \in Files /\ value[s] \in Values
        /\ temp \in [Names -> Files \cup {NoFile}]
        /\ f = [in |-> f.in, synced |-> f.synced]
    BY <1>4, Underway DEF RInv, TypeOK
  <1>6. /\ pc[s] > WriteAt => f.in = value[s]
        /\ writer \in Synced /\ pc[s] > 4 => f.synced
    BY DEF RInv, SaverOK
  <1>7. CASE Write(s)
    <2>1. pc[s] = WriteAt /\ ~(pc[s] + 1 > 4)
      BY <1>1, <1>2, <1>7, AtPlaces DEF Write
    <2>2. temp' = [temp EXCEPT ![name[s]] = [f EXCEPT !.in = value[s]]]
      BY <1>7 DEF Write
    <2>3. [f EXCEPT !.in = value[s]] \in Files /\ [f EXCEPT !.in = value[s]].in = value[s]
      BY <1>5 DEF Files
    <2>4. QED
      BY <1>1, <1>4, <2>1, <2>2, <2>3, OwnFileStep
  <1>8. CASE Sync(s)
    <2>1. pc[s] = 4 /\ pc[s] > WriteAt
      BY <1>1, <1>2, <1>8, AtPlaces DEF Sync
    <2>2. temp' = [temp EXCEPT ![name[s]] = [f EXCEPT !.synced = TRUE]]
      BY <1>8 DEF Sync
    <2>3. /\ [f EXCEPT !.synced = TRUE] \in Files
          /\ [f EXCEPT !.synced = TRUE].in = value[s]
          /\ [f EXCEPT !.synced = TRUE].synced = TRUE
      BY <1>5, <1>6, <2>1 DEF Files
    <2>4. QED
      BY <1>1, <1>4, <2>1, <2>2, <2>3, OwnFileStep
  <1>9. CASE Prepare(s)
    <2>1. ~At(s, "write") /\ ~At(s, "sync")
      BY <1>9 DEF Prepare, At
    <2>2. pc[s] # WriteAt /\ ~(writer \in Synced /\ pc[s] = 4)
      BY <2>1, AtPlaces
    <2>3. temp' = [temp EXCEPT ![name[s]] = f]
      BY <1>5, <1>9 DEF Prepare
    <2>4. /\ pc[s] + 1 > WriteAt => f.in = value[s]
          /\ writer \in Synced /\ pc[s] + 1 > 4 => f.synced
      BY <1>1, <1>2, <1>6, <2>2
    <2>5. QED
      BY <1>1, <1>4, <1>5, <2>3, <2>4, OwnFileStep
  <1>10. QED
    BY <1>4, <1>7, <1>8, <1>9

\* A saver is done, or gives up: it has no temporary file any more, and if the file is
\* still there it is the one that stays.
LEMMA IdleStep ==
  ASSUME ConstantsOK, RInv, NEW s \in Savers, Idle(s), writer' = writer, left' = left,
         \/ temp' = temp /\ (name[s] = None \/ writer \in Fixed)
         \/ name[s] # None /\ temp' = [temp EXCEPT ![name[s]] = NoFile],
         file' \in Files, before' \in Files, ContentsOK', faults' \in 0 .. MaxFaults
  PROVE  RInv'
  <1>1. /\ pc \in [Savers -> -1 .. 6] /\ name \in [Savers -> Names \cup {None}]
        /\ value \in [Savers -> Values \cup {None}]
        /\ temp \in [Names -> Files \cup {NoFile}]
    BY DEF RInv, TypeOK
  <1>2. /\ pc' = [pc EXCEPT ![s] = 0] /\ name' = [name EXCEPT ![s] = None]
        /\ value' = [value EXCEPT ![s] = None] /\ writer' = writer /\ left' = left
    BY DEF Idle
  <1>3. TypeOK'
    <2>1. temp' \in [Names -> Files \cup {NoFile}]
      BY <1>1
    <2>2. QED
      BY <1>1, <1>2, <2>1 DEF RInv, TypeOK
  <1>4. WriteAt' = WriteAt /\ WriteAt \in 2 .. 3 /\ Len(Steps[writer]) \in 4 .. 6
    BY <1>2, AtPlaces DEF WriteAt
  <1>5. ASSUME NEW q \in Savers PROVE SaverOK(q)'
    <2>1. CASE q = s
      <3>1. pc'[q] = 0 /\ name'[q] = None
        BY <1>1, <1>2, <2>1
      <3>2. QED
        BY <1>2, <1>4, <3>1 DEF SaverOK
    <2>2. CASE q # s
      <3>1. pc'[q] = pc[q] /\ name'[q] = name[q] /\ value'[q] = value[q]
        BY <1>1, <1>2, <2>2
      <3>2. name[q] # None => name[q] # name[s] /\ temp'[name[q]] = temp[name[q]]
        BY <1>1, <2>2 DEF RInv, Apart
      <3>3. pc[q] \in Int /\ (pc[q] > 1 => name[q] # None)
        BY <1>1 DEF RInv, SaverOK
      <3>4. QED
        BY <1>2, <1>4, <3>1, <3>2, <3>3 DEF RInv, SaverOK
    <2>3. QED
      BY <2>1, <2>2
  <1>6. Apart'
    BY <1>1, <1>2 DEF RInv, Apart
  <1>7. Owned'
    <2>1. SUFFICES ASSUME NEW n \in Names, temp'[n] # NoFile
                   PROVE  n \in left \/ writer \in Fixed \/ \E q \in Savers : name'[q] = n
      BY <1>2 DEF Owned
    <2>2. temp[n] # NoFile
      BY <1>1, <2>1
    <2>3. CASE \E q \in Savers : name[q] = n
      <3>1. PICK q \in Savers : name[q] = n
        BY <2>3
      <3>2. CASE q # s
        BY <1>1, <1>2, <3>1, <3>2
      <3>3. CASE q = s /\ writer \notin Fixed
        <4>1. n # None /\ name[s] = n
          BY <3>1, <3>3 DEF ConstantsOK
        <4>2. temp'[n] = NoFile
          BY <1>1, <3>3, <4>1
        <4>3. QED
          BY <2>1, <4>2
      <3>4. QED
        BY <3>2, <3>3
    <2>4. QED
      BY <2>2, <2>3 DEF RInv, Owned
  <1>8. QED
    BY <1>3, <1>5, <1>6, <1>7 DEF RInv

\* The rename puts what its saver saves in place, synced if the writer syncs.
LEMMA RenameStep ==
  ASSUME ConstantsOK, RInv, NEW s \in Savers, Rename(s)
  PROVE  RInv' /\ file'.in = value[s] /\ pc[s] > 0 /\ value[s] \in Values
  <1>1. pc[s] = Len(Steps[writer]) /\ Len(Steps[writer]) \in 4 .. 6
        /\ WriteAt \in 2 .. 3 /\ (writer \in Synced => Len(Steps[writer]) = 6)
    BY AtPlaces DEF Rename
  <1>2. pc[s] > 1 /\ pc[s] > WriteAt /\ (writer \in Synced => pc[s] > 4) /\ pc[s] > 0
    <2>1. \A p \in 4 .. 6, w \in 2 .. 3 :
            p > 1 /\ p > w /\ p > 0 /\ (p = 6 => p > 4)
      OBVIOUS
    <2>2. pc[s] \in 4 .. 6 /\ (writer \in Synced => pc[s] = 6)
      BY <1>1
    <2>3. QED
      BY <1>1, <2>1, <2>2
  <1>3. name[s] \in Names /\ temp[name[s]] \in Files /\ value[s] \in Values
    BY <1>2, Underway
  <1>4. temp[name[s]].in = value[s] /\ (writer \in Synced => temp[name[s]].synced)
    BY <1>2 DEF RInv, SaverOK
  <1>5. file' = temp[name[s]] /\ before' = file /\ writer' = writer
    BY DEF Rename
  <1>6. ContentsOK'
    BY <1>3, <1>4, <1>5 DEF RInv, ContentsOK
  <1>7. name[s] # None
    BY <1>3 DEF ConstantsOK
  <1>8. RInv'
    BY <1>3, <1>5, <1>6, <1>7, IdleStep DEF Rename, RInv, TypeOK
  <1>9. file'.in = value[s]
    BY <1>4, <1>5
  <1>10. QED
    BY <1>2, <1>3, <1>8, <1>9

\* A step that fails ends a save that has no temporary file, and makes one that has
\* it clean up.
LEMMA FailStep ==
  ASSUME ConstantsOK, RInv, NEW s \in Savers, Fail(s)
  PROVE  RInv'
  <1>1. /\ pc \in [Savers -> -1 .. 6] /\ pc[s] > 0 /\ faults' \in 0 .. MaxFaults
        /\ UNCHANGED <<writer, temp, file, before, left>>
    BY DEF Fail, Fault, RInv, TypeOK, ConstantsOK
  <1>2. CASE name[s] = None
    <2>1. Idle(s) /\ writer' = writer /\ left' = left /\ temp' = temp
      BY <1>1, <1>2 DEF Fail
    <2>2. file' \in Files /\ before' \in Files /\ ContentsOK'
      BY <1>1 DEF RInv, TypeOK, ContentsOK
    <2>3. QED
      BY <1>1, <1>2, <2>1, <2>2, IdleStep
  <1>3. CASE name[s] # None
    <2>1. pc' = [pc EXCEPT ![s] = -1] /\ UNCHANGED <<value, name>>
      BY <1>3 DEF Fail
    <2>2. TypeOK'
      BY <1>1, <2>1 DEF RInv, TypeOK
    <2>3. WriteAt' = WriteAt /\ WriteAt \in 2 .. 3 /\ Len(Steps[writer]) \in 4 .. 6
      BY <1>1, AtPlaces DEF WriteAt
    <2>4. ASSUME NEW q \in Savers PROVE SaverOK(q)'
      <3>1. CASE q = s
        <4>1. pc'[q] = -1
          BY <1>1, <2>1, <3>1
        <4>2. -1 <= Len(Steps[writer]) /\ ~(-1 > 0) /\ ~(-1 > WriteAt) /\ ~(-1 > 4)
          BY <2>3
        <4>3. QED
          BY <1>1, <1>3, <2>1, <2>3, <3>1, <4>1, <4>2 DEF RInv, SaverOK
      <3>2. CASE q # s
        <4>1. pc'[q] = pc[q]
          BY <1>1, <2>1, <3>2
        <4>2. QED
          BY <1>1, <2>1, <2>3, <4>1 DEF RInv, SaverOK
      <3>3. QED
        BY <3>1, <3>2
    <2>5. Apart'
      <3>1. \A q \in Savers : pc[q] = 0 => pc'[q] = 0
        BY <1>1, <2>1
      <3>2. QED
        BY <1>1, <2>1, <3>1 DEF RInv, Apart
    <2>6. ContentsOK' /\ Owned'
      BY <1>1, <2>1 DEF RInv, ContentsOK, Owned
    <2>7. QED
      BY <2>2, <2>4, <2>5, <2>6 DEF RInv
  <1>4. QED
    BY <1>2, <1>3

LEMMA RemoveStep ==
  ASSUME ConstantsOK, RInv, NEW s \in Savers, Remove(s)
  PROVE  RInv'
  <1>1. pc[s] = -1 /\ Idle(s) /\ UNCHANGED <<writer, file, before, left, faults>>
    BY DEF Remove
  <1>2. name[s] # None
    BY <1>1 DEF RInv, SaverOK
  <1>3. file' \in Files /\ before' \in Files /\ ContentsOK' /\ faults' \in 0 .. MaxFaults
    BY <1>1 DEF RInv, TypeOK, ContentsOK
  <1>4. CASE writer \in Fixed
    <2>1. temp' = temp
      BY <1>4 DEF Remove
    <2>2. QED
      BY <1>1, <1>3, <1>4, <2>1, IdleStep
  <1>5. CASE writer \notin Fixed
    <2>1. temp' = [temp EXCEPT ![name[s]] = NoFile]
      BY <1>5 DEF Remove
    <2>2. QED
      BY <1>1, <1>2, <1>3, <2>1, IdleStep
  <1>6. QED
    BY <1>4, <1>5

\* A crash takes nothing from the file, and of the two it leaves one, because the
\* writers whose power fails have synced both.
LEMMA CrashStep ==
  ASSUME ConstantsOK, RInv, Crash
  PROVE  RInv' /\ file' \in {file, before} /\ before' = file'
  <1>1. /\ pc' = [s \in Savers |-> 0] /\ value' = [s \in Savers |-> None]
        /\ name' = [s \in Savers |-> None] /\ before' = file'
        /\ left' = left \cup {n \in Names : temp[n] # NoFile}
        /\ UNCHANGED <<writer, temp>> /\ faults' \in 0 .. MaxFaults
    BY DEF Crash, Fault, RInv, TypeOK, ConstantsOK
  <1>2. file' \in {file, before}
    <2>1. ContentsOK
      BY DEF RInv
    <2>2. Lose(file) = {file}
      BY <2>1 DEF Lose, ContentsOK, ConstantsOK
    <2>3. writer \in PowerFails => Lose(before) = {before}
      BY <2>1 DEF Lose, ContentsOK, ConstantsOK
    <2>4. QED
      BY <2>2, <2>3 DEF Crash
  <1>3. ContentsOK' /\ file' \in Files
    BY <1>1, <1>2 DEF RInv, TypeOK, ContentsOK
  <1>4. TypeOK'
    BY <1>1, <1>3 DEF RInv, TypeOK
  <1>5. ASSUME NEW q \in Savers PROVE SaverOK(q)'
    <2>1. pc'[q] = 0 /\ name'[q] = None
      BY <1>1
    <2>2. WriteAt' = WriteAt /\ WriteAt \in 2 .. 3 /\ Len(Steps[writer]) \in 4 .. 6
      BY <1>1, StepsOfWriters DEF WriteAt, RInv, TypeOK, ConstantsOK
    <2>3. QED
      BY <1>1, <2>1, <2>2 DEF SaverOK
  <1>6. Apart' /\ Owned'
    BY <1>1 DEF Apart, Owned
  <1>7. QED
    BY <1>1, <1>2, <1>3, <1>4, <1>5, <1>6 DEF RInv

LEMMA StutterRInv == RInv /\ UNCHANGED vars => RInv'
  <1>1. RInv /\ UNCHANGED vars => TypeOK' /\ Apart' /\ ContentsOK' /\ Owned'
    BY DEF RInv, vars, TypeOK, Apart, ContentsOK, Owned
  <1>2. RInv /\ UNCHANGED vars => \A s \in Savers : SaverOK(s)'
    BY DEF RInv, vars, SaverOK, WriteAt
  <1>3. QED
    BY <1>1, <1>2 DEF RInv

LEMMA NextRInv == ConstantsOK /\ RInv /\ [Next]_vars => RInv'
  <1> SUFFICES ASSUME ConstantsOK, RInv, [Next]_vars PROVE RInv'
    OBVIOUS
  <1>1. ASSUME NEW s \in Savers, NEW v \in Values, Save(s, v) PROVE RInv'
    BY <1>1, SaveStep
  <1>2. ASSUME NEW s \in Savers, Create(s) PROVE RInv'
    BY <1>2, CreateStep
  <1>3. ASSUME NEW s \in Savers, Write(s) \/ Sync(s) \/ Prepare(s) PROVE RInv'
    BY <1>3, FillStep
  <1>4. ASSUME NEW s \in Savers, Rename(s) PROVE RInv'
    BY <1>4, RenameStep
  <1>5. ASSUME NEW s \in Savers, Fail(s) PROVE RInv'
    BY <1>5, FailStep
  <1>6. ASSUME NEW s \in Savers, Remove(s) PROVE RInv'
    BY <1>6, RemoveStep
  <1>7. CASE Crash
    BY <1>7, CrashStep
  <1>8. CASE UNCHANGED vars
    BY <1>8, StutterRInv
  <1>9. QED
    BY <1>1, <1>2, <1>3, <1>4, <1>5, <1>6, <1>7, <1>8 DEF Next

-----------------------------------------------------------------------------
\* What is always so while any of the five files is being replaced: a saver has the
\* temporary file it is writing to itself, what it is about to rename is whole, and
\* synced by those that sync.
THEOREM ReplaceInvariant == ASSUME ConstantsOK PROVE Spec => []RInv
  <1>1. Init => RInv
    BY InitRInv
  <1>2. RInv /\ [Next]_vars => RInv'
    BY NextRInv
  <1>3. QED
    BY <1>1, <1>2, PTL DEF Spec

\* What a failed save leaves in the config directory is removed again; only a crash
\* leaves a temporary file, and push-subscriptions.json its one.  (Publish: "rather
\* than leaving it in the config directory for the rest of the installation's life".)
THEOREM NothingIsLeftHolds == ASSUME ConstantsOK PROVE Spec => NothingIsLeft
  <1>1. RInv /\ RInv' /\ [Next]_vars =>
          [\A n \in Names : temp'[n] # NoFile =>
             n \in left' \/ writer \in Fixed \/ \E s \in Savers : name'[s] = n]_vars
    <2>1. [Next]_vars => writer' = writer
      BY DEF Next, vars, Save, Create, Write, Sync, Prepare, Rename, Fail, Remove, Crash
    <2>2. QED
      BY <2>1 DEF RInv, Owned
  <1>2. QED
    BY <1>1, ReplaceInvariant, PTL DEF Spec, NothingIsLeft

-----------------------------------------------------------------------------
(***************************************************************************)
(* The writers implement WholeFile.                                        *)
(***************************************************************************)
\* What a save still has to put in place, which is what Whole calls pending.
PendingOf == [s \in Savers |-> IF pc[s] > 0 THEN value[s] ELSE None]

\* A step of a save on its way that leaves the file alone is nothing to a reader.
LEMMA QuietStep ==
  ASSUME RInv, NEW s \in Savers, pc[s] > 0, pc' = [pc EXCEPT ![s] = @ + 1],
         UNCHANGED <<file, before, value>>
  PROVE  UNCHANGED <<file.in, before.in, PendingOf>>
  <1>1. pc \in [Savers -> -1 .. 6]
    BY DEF RInv, TypeOK
  <1>2. pc'[s] > 0
    BY <1>1
  <1>3. ASSUME NEW q \in Savers
        PROVE  (IF pc'[q] > 0 THEN value'[q] ELSE None) = IF pc[q] > 0 THEN value[q] ELSE None
    <2>1. CASE q = s
      BY <1>2, <2>1
    <2>2. CASE q # s
      BY <1>1, <2>2
    <2>3. QED
      BY <2>1, <2>2
  <1>4. PendingOf' = PendingOf
    BY <1>3 DEF PendingOf
  <1>5. QED
    BY <1>4

\* What was asked of one saver has come to nothing, or to its place in the file.
LEMMA DoneStep ==
  ASSUME RInv, NEW s \in Savers, NEW p \in {0, -1}, pc' = [pc EXCEPT ![s] = p],
         \A q \in Savers \ {s} : value'[q] = value[q]
  PROVE  PendingOf' = [PendingOf EXCEPT ![s] = None]
  <1>1. pc \in [Savers -> -1 .. 6]
    BY DEF RInv, TypeOK
  <1>2. ~(pc'[s] > 0) /\ \A q \in Savers \ {s} : pc'[q] = pc[q]
    BY <1>1
  <1>3. QED
    BY <1>2 DEF PendingOf

LEMMA AsksWhole ==
  ASSUME ConstantsOK, RInv, NEW s \in Savers, NEW v \in Values, Save(s, v)
  PROVE  Whole!Ask(s, v)
  <1>1. /\ pc \in [Savers -> -1 .. 6] /\ value \in [Savers -> Values \cup {None}]
        /\ pc[s] = 0 /\ pc' = [pc EXCEPT ![s] = 1] /\ value' = [value EXCEPT ![s] = v]
        /\ file' = file /\ before' = before
    BY DEF Save, RInv, TypeOK
  <1>2. PendingOf[s] = None
    BY <1>1 DEF PendingOf
  <1>3. PendingOf' = [PendingOf EXCEPT ![s] = v]
    <2>1. pc'[s] > 0 /\ value'[s] = v
      BY <1>1
    <2>2. \A q \in Savers \ {s} : pc'[q] = pc[q] /\ value'[q] = value[q]
      BY <1>1
    <2>3. QED
      BY <2>1, <2>2 DEF PendingOf
  <1>4. QED
    BY <1>1, <1>2, <1>3 DEF Whole!Ask, PendingOf

LEMMA RenamesWhole ==
  ASSUME ConstantsOK, RInv, NEW s \in Savers, Rename(s)
  PROVE  Whole!Replace(s)
  <1>1. file'.in = value[s] /\ pc[s] > 0 /\ value[s] \in Values /\ before' = file
    BY RenameStep DEF Rename
  <1>2. PendingOf[s] = value[s] /\ value[s] # None
    BY <1>1 DEF PendingOf, ConstantsOK
  <1>3. PendingOf' = [PendingOf EXCEPT ![s] = None]
    <2>1. pc' = [pc EXCEPT ![s] = 0] /\ \A q \in Savers \ {s} : value'[q] = value[q]
      BY DEF Rename, Idle, RInv, TypeOK
    <2>2. QED
      BY <2>1, DoneStep
  <1>4. QED
    BY <1>1, <1>2, <1>3 DEF Whole!Replace, PendingOf

LEMMA FailsWhole ==
  ASSUME ConstantsOK, RInv, NEW s \in Savers, Fail(s) \/ Remove(s)
  PROVE  Whole!Fail(s)
  <1>1. file' = file /\ before' = before
    BY DEF Fail, Remove
  <1>2. PICK p \in {0, -1} : pc' = [pc EXCEPT ![s] = p]
    BY DEF Fail, Remove, Idle
  <1>3. \A q \in Savers \ {s} : value'[q] = value[q]
    BY DEF Fail, Remove, Idle, RInv, TypeOK
  <1>4. PendingOf' = [PendingOf EXCEPT ![s] = None]
    BY <1>2, <1>3, DoneStep
  <1>5. QED
    BY <1>1, <1>4 DEF Whole!Fail, PendingOf

LEMMA StopsWhole ==
  ASSUME ConstantsOK, RInv, Crash
  PROVE  Whole!Stop
  <1>1. file' \in {file, before} /\ before' = file'
    BY CrashStep
  <1>2. PendingOf' = [s \in Savers |-> None]
    BY DEF Crash, PendingOf
  <1>3. file'.in \in {file.in, before.in} /\ before'.in = file'.in
    BY <1>1
  <1>4. QED
    BY <1>2, <1>3 DEF Whole!Stop, PendingOf

\* A reader of any of the five files finds what was there before or what was to be
\* saved, never a part of either, wherever the program is stopped and whoever saves at
\* the same time; for those that sync, also when the power goes.  (config.Save,
\* Store.write, Ledger.Save, Publish, saveLocked.)
THEOREM ReplacesWholeHolds == ASSUME ConstantsOK PROVE Spec => ReplacesWhole
  <1>1. Init => Whole!Init
    <2>1. Init => file.in \in Values /\ before = file /\ \A s \in Savers : ~(pc[s] > 0)
      BY DEF Init
    <2>2. QED
      BY <2>1 DEF Whole!Init
  <1>2. RInv /\ [Next]_vars => [Whole!Next]_<<file.in, before.in, PendingOf>>
    <2> SUFFICES ASSUME RInv, [Next]_vars
                 PROVE  Whole!Next \/ UNCHANGED <<file.in, before.in, PendingOf>>
      OBVIOUS
    <2>1. ASSUME NEW s \in Savers, NEW v \in Values, Save(s, v) PROVE Whole!Next
      BY <2>1, AsksWhole DEF Whole!Next
    <2>2. ASSUME NEW s \in Savers, Create(s) \/ Write(s) \/ Sync(s) \/ Prepare(s)
          PROVE  UNCHANGED <<file.in, before.in, PendingOf>>
      <3>1. /\ pc[s] > 0 /\ pc' = [pc EXCEPT ![s] = @ + 1]
            /\ UNCHANGED <<file, before, value>>
        BY <2>2 DEF Create, Write, Sync, Prepare, At, Advance
      <3>2. QED
        BY <3>1, QuietStep
    <2>3. ASSUME NEW s \in Savers, Rename(s) PROVE Whole!Next
      BY <2>3, RenamesWhole DEF Whole!Next
    <2>4. ASSUME NEW s \in Savers, Fail(s) \/ Remove(s) PROVE Whole!Next
      BY <2>4, FailsWhole DEF Whole!Next
    <2>5. CASE Crash
      BY <2>5, StopsWhole DEF Whole!Next
    <2>6. CASE UNCHANGED vars
      BY <2>6 DEF vars, PendingOf
    <2>7. QED
      BY <2>1, <2>2, <2>3, <2>4, <2>5, <2>6 DEF Next
  <1>3. QED
    BY <1>1, <1>2, ReplaceInvariant, PTL DEF Spec, ReplacesWhole, Whole!Spec, PendingOf

\* Together: a file is old or new, and there is no third one.
THEOREM FilesAreWholeHolds == ASSUME ConstantsOK PROVE Spec => FilesAreWhole
  BY NothingIsLeftHolds, ReplacesWholeHolds DEF FilesAreWhole

-----------------------------------------------------------------------------
(***************************************************************************)
(* Push.                                                                   *)
(***************************************************************************)
Disks == [key : 0 .. MaxKeys, subs : SUBSET Pu!Subs]
Laptops == [at : {"down", "writing", "store", "up", "without"},
            key : 0 .. MaxKeys, subs : SUBSET Pu!Subs]
Messages == [at : {"unused", "next", "sent", "cut off"}, all : SUBSET Pu!Subs,
             todo : SUBSET Pu!Subs, now : Pu!Subs \cup {Pu!Nobody},
             answer : {"none", "ok", "gone", "refused", "hangs"}, hung : 0 .. Budget,
             told : SUBSET Pu!Subs, tried : SUBSET Pu!Subs, excused : SUBSET Pu!Subs]
Histories == [rounds : 0 .. MaxRounds, keys : 0 .. MaxKeys, faults : Nat,
              kept : SUBSET Pu!Subs]

PushTyped ==
  /\ push_disk \in Disks
  /\ push_laptop \in Laptops
  /\ push_browser \in [Phones -> [sub : Pu!Subs \cup {Pu!Nobody}, number : 0 .. MaxNumber]]
  /\ push_offered \in SUBSET Pu!Subs
  /\ push_rounds \in [Pu!Rounds -> Messages]
  /\ push_history \in Histories

KeysOK ==
  /\ push_laptop.at = "writing" => push_history.keys < MaxKeys
  /\ push_laptop.at \in {"store", "up"} => push_laptop.key # 0

\* The subscription a browser has is the last it made.
BrowsersOK ==
  \A p \in Phones : push_browser[p].sub # Pu!Nobody =>
    push_browser[p].sub.phone = p /\ push_browser[p].sub.number = push_browser[p].number

\* A number is used once, and those that are to come are larger.
Newest(s) ==
  /\ s.number <= push_browser[s.phone].number
  /\ s.number = push_browser[s.phone].number /\ push_browser[s.phone].sub # Pu!Nobody
       => s = push_browser[s.phone].sub

Known ==
  /\ \A s \in push_disk.subs \cup push_laptop.subs : Newest(s)
  /\ \A s \in push_offered : Newest(s)
  /\ \A s \in push_history.kept : Newest(s)
  /\ \A r \in Pu!Rounds : \A s \in push_rounds[r].all : Newest(s)

\* A round belongs to a program that is up, and everyone in it has been answered, is
\* being asked or has a turn to come.  Who has gone stays away.
RoundOK(r) ==
  LET n == push_rounds[r] IN
  /\ n.at \in {"next", "sent"} => push_laptop.at = "up"
  /\ n.todo \subseteq n.all
  /\ n.at = "next" => n.all \subseteq n.todo \cup n.told \cup n.excused
  /\ n.at = "sent" =>
       /\ n.now \in n.all
       /\ n.all \subseteq n.todo \cup n.told \cup n.excused \cup {n.now}
       /\ n.answer \in {"ok", "gone", "refused", "hangs"}
       /\ n.answer = "gone" => n.now \notin Pu!service
       /\ n.answer = "hangs" => n.now \in n.excused

RoundsOK == \A r \in Pu!Rounds : RoundOK(r)

PushInv == PushTyped /\ KeysOK /\ BrowsersOK /\ Known /\ RoundsOK /\ Pu!LiveIsKept

-----------------------------------------------------------------------------
LEMMA NobodyIsNone == Pu!Nobody \notin Pu!Subs /\ \A s \in Pu!Subs : s.number # 0
  BY DEF Pu!Nobody, Pu!Subs

LEMMA PushInit ==
  ASSUME Pu!ConstantsOK, Pu!Init
  PROVE  PushInv
  <1>1. PushTyped
    BY DEF Pu!ConstantsOK, Pu!Init, PushTyped, Pu!Off, Pu!Idle, Pu!NoKey, Disks, Laptops,
       Messages, Histories
  <1>2. KeysOK /\ BrowsersOK /\ Known
    BY DEF Pu!Init, Pu!Off, Pu!Idle, KeysOK, BrowsersOK, Known
  <1>3. RoundsOK /\ Pu!LiveIsKept
    BY DEF Pu!Init, Pu!Off, Pu!Idle, RoundsOK, RoundOK, Pu!LiveIsKept
  <1>4. QED
    BY <1>1, <1>2, <1>3 DEF PushInv

-----------------------------------------------------------------------------
(***************************************************************************)
(* Types.                                                                  *)
(***************************************************************************)
LEMMA SaveTyped ==
  ASSUME PushTyped, NEW subs \in SUBSET Pu!Subs, NEW kept \in SUBSET Pu!Subs,
         Pu!Save(subs, kept)
  PROVE  /\ push_disk' \in Disks
         /\ push_laptop' \in Laptops
         /\ push_history' \in Histories
  BY DEF PushTyped, Pu!Save, Pu!Fault, Disks, Laptops, Histories

LEMMA PushFields ==
  ASSUME PushTyped
  PROVE  /\ push_disk.key \in 0 .. MaxKeys /\ push_disk.subs \in SUBSET Pu!Subs
         /\ push_laptop.key \in 0 .. MaxKeys /\ push_laptop.subs \in SUBSET Pu!Subs
         /\ push_history.rounds \in 0 .. MaxRounds /\ push_history.keys \in 0 .. MaxKeys
         /\ push_history.faults + 1 \in Nat /\ push_history.kept \in SUBSET Pu!Subs
         /\ \A p \in Phones : /\ push_browser[p].sub \in Pu!Subs \cup {Pu!Nobody}
                             /\ push_browser[p].number \in 0 .. MaxNumber
         /\ \A r \in Pu!Rounds :
              /\ push_rounds[r].all \in SUBSET Pu!Subs /\ push_rounds[r].todo \in SUBSET Pu!Subs
              /\ push_rounds[r].told \in SUBSET Pu!Subs /\ push_rounds[r].tried \in SUBSET Pu!Subs
              /\ push_rounds[r].excused \in SUBSET Pu!Subs
              /\ push_rounds[r].now \in Pu!Subs \cup {Pu!Nobody}
              /\ push_rounds[r].hung \in 0 .. Budget
  <1>. USE DEF PushTyped
  <1>1. push_disk.key \in 0 .. MaxKeys /\ push_disk.subs \in SUBSET Pu!Subs
    BY DEF Disks
  <1>2. push_laptop.key \in 0 .. MaxKeys /\ push_laptop.subs \in SUBSET Pu!Subs
    BY DEF Laptops
  <1>3. /\ push_history.rounds \in 0 .. MaxRounds /\ push_history.keys \in 0 .. MaxKeys
        /\ push_history.faults + 1 \in Nat /\ push_history.kept \in SUBSET Pu!Subs
    BY DEF Histories
  <1>4. ASSUME NEW r \in Pu!Rounds
        PROVE  /\ push_rounds[r].all \in SUBSET Pu!Subs /\ push_rounds[r].todo \in SUBSET Pu!Subs
               /\ push_rounds[r].told \in SUBSET Pu!Subs /\ push_rounds[r].tried \in SUBSET Pu!Subs
               /\ push_rounds[r].excused \in SUBSET Pu!Subs
               /\ push_rounds[r].now \in Pu!Subs \cup {Pu!Nobody}
               /\ push_rounds[r].hung \in 0 .. Budget
    <2>1. push_rounds[r] \in Messages
      OBVIOUS
    <2>2. QED
      BY <2>1 DEF Messages
  <1>5. QED
    BY <1>1, <1>2, <1>3, <1>4

LEMMA IdleTyped ==
  ASSUME Pu!ConstantsOK
  PROVE  Pu!Idle \in Messages /\ Pu!Off \in Laptops
  <1>1. Pu!Idle \in Messages
    BY DEF Pu!Idle, Messages, Pu!ConstantsOK
  <1>2. Pu!Off \in Laptops
    BY DEF Pu!Off, Pu!NoKey, Laptops, Pu!ConstantsOK
  <1>3. QED
    BY <1>1, <1>2

LEMMA CutOffTyped ==
  ASSUME NEW m \in Messages
  PROVE  [m EXCEPT !.at = "cut off"] \in Messages
  BY DEF Messages

LEMMA BegunTyped ==
  ASSUME NEW m \in Messages, NEW x \in SUBSET Pu!Subs
  PROVE  [m EXCEPT !.at = "next", !.all = x, !.todo = x] \in Messages
  BY DEF Messages

LEMMA LateTyped ==
  ASSUME NEW m \in Messages, NEW x \in SUBSET Pu!Subs, NEW y \in SUBSET Pu!Subs
  PROVE  [m EXCEPT !.todo = x, !.excused = y] \in Messages
  BY DEF Messages

LEMMA AnsweredTyped ==
  ASSUME NEW m \in Messages, NEW x \in SUBSET Pu!Subs, NEW y \in SUBSET Pu!Subs
  PROVE  [m EXCEPT !.at = "next", !.now = Pu!Nobody, !.answer = "none",
                   !.told = x, !.excused = y] \in Messages
  BY DEF Messages

\* What SendTooLate leaves of the rounds.
LEMMA LateFields ==
  ASSUME push_rounds \in [Pu!Rounds -> Messages], NEW q \in Pu!Rounds, NEW s,
         push_rounds' = [push_rounds EXCEPT ![q].todo = @ \ {s}, ![q].excused = @ \cup {s}]
  PROVE  /\ \A r \in Pu!Rounds : r # q => push_rounds'[r] = push_rounds[r]
         /\ push_rounds'[q].todo = push_rounds[q].todo \ {s}
         /\ push_rounds'[q].excused = push_rounds[q].excused \cup {s}
         /\ push_rounds'[q].all = push_rounds[q].all /\ push_rounds'[q].at = push_rounds[q].at
         /\ push_rounds'[q].told = push_rounds[q].told /\ push_rounds'[q].now = push_rounds[q].now
         /\ push_rounds'[q].answer = push_rounds[q].answer
  <1>. DEFINE x == push_rounds[q].todo \ {s}
              y == push_rounds[q].excused \cup {s}
              m == [push_rounds[q] EXCEPT !.todo = x, !.excused = y]
  <1>1. push_rounds' = [push_rounds EXCEPT ![q].todo = x, ![q].excused = y]
    BY Zenon
  <1>. HIDE DEF x, y
  <1>2. push_rounds' = [push_rounds EXCEPT ![q] = m]
    BY <1>1, Zenon
  <1>3. push_rounds[q] \in Messages
    OBVIOUS
  <1>4. /\ m.todo = x /\ m.excused = y /\ m.all = push_rounds[q].all
        /\ m.at = push_rounds[q].at /\ m.told = push_rounds[q].told
        /\ m.now = push_rounds[q].now /\ m.answer = push_rounds[q].answer
    BY <1>3 DEF Messages
  <1>. HIDE DEF m
  <1>5. QED
    BY <1>2, <1>4, Zenon DEF x, y

\* What Send makes of the rounds.
LEMMA SentFields ==
  ASSUME push_rounds \in [Pu!Rounds -> Messages], NEW q \in Pu!Rounds, Pu!Send(q)
  PROVE  \E s \in push_rounds[q].todo :
           /\ \A r \in Pu!Rounds : r # q => push_rounds'[r] = push_rounds[r]
           /\ push_rounds'[q].at = "sent" /\ push_rounds'[q].now = s
           /\ push_rounds'[q].todo = push_rounds[q].todo \ {s}
           /\ push_rounds'[q].all = push_rounds[q].all
           /\ push_rounds'[q].told = push_rounds[q].told
           /\ \/ /\ push_rounds'[q].answer = Pu!StatusError(s)
                 /\ push_rounds'[q].excused = push_rounds[q].excused
              \/ /\ push_rounds'[q].answer = "hangs"
                 /\ push_rounds'[q].excused = push_rounds[q].excused \cup {s}
  <1>. DEFINE sent(s) == [push_rounds[q] EXCEPT !.at = "sent", !.todo = @ \ {s}, !.now = s,
                                                !.tried = @ \cup {s}]
              answered(s) == [sent(s) EXCEPT !.answer = Pu!StatusError(s)]
              hangs(s) == [sent(s) EXCEPT !.answer = "hangs", !.excused = @ \cup {s},
                                          !.hung = @ + 1]
  <1>1. PICK s \in push_rounds[q].todo :
          \/ push_rounds' = [push_rounds EXCEPT ![q] = answered(s)]
          \/ push_rounds' = [push_rounds EXCEPT ![q] = hangs(s)]
    BY DEF Pu!Send
  <1>2. push_rounds[q] \in Messages
    OBVIOUS
  <1>3. /\ sent(s).at = "sent" /\ sent(s).now = s /\ sent(s).todo = push_rounds[q].todo \ {s}
        /\ sent(s).all = push_rounds[q].all /\ sent(s).told = push_rounds[q].told
        /\ sent(s).excused = push_rounds[q].excused
        /\ DOMAIN sent(s) = DOMAIN push_rounds[q]
    BY <1>2 DEF Messages
  <1>4. DOMAIN push_rounds[q] = {"at", "all", "todo", "now", "answer", "hung", "told", "tried",
                                 "excused"}
    BY <1>2 DEF Messages
  <1>. HIDE DEF sent
  <1>5. /\ answered(s).at = "sent" /\ answered(s).now = s
        /\ answered(s).todo = push_rounds[q].todo \ {s}
        /\ answered(s).all = push_rounds[q].all /\ answered(s).told = push_rounds[q].told
        /\ answered(s).excused = push_rounds[q].excused
        /\ answered(s).answer = Pu!StatusError(s)
    BY <1>3, <1>4
  <1>6. /\ hangs(s).at = "sent" /\ hangs(s).now = s
        /\ hangs(s).todo = push_rounds[q].todo \ {s}
        /\ hangs(s).all = push_rounds[q].all /\ hangs(s).told = push_rounds[q].told
        /\ hangs(s).excused = push_rounds[q].excused \cup {s}
        /\ hangs(s).answer = "hangs"
    BY <1>3, <1>4
  <1>. HIDE DEF answered, hangs
  <1>7. QED
    BY <1>1, <1>5, <1>6

\* What Answered makes of the rounds.
LEMMA AnsweredFields ==
  ASSUME push_rounds \in [Pu!Rounds -> Messages], NEW q \in Pu!Rounds, Pu!Answered(q)
  PROVE  LET n == push_rounds[q] IN
         /\ \A r \in Pu!Rounds : r # q => push_rounds'[r] = push_rounds[r]
         /\ push_rounds'[q].at = "next" /\ push_rounds'[q].todo = n.todo
         /\ push_rounds'[q].all = n.all
         /\ push_rounds'[q].told = IF n.answer = "ok" THEN n.told \cup {n.now} ELSE n.told
         /\ push_rounds'[q].excused = IF n.answer \in {"gone", "refused"}
                                      THEN n.excused \cup {n.now} ELSE n.excused
  <1>. DEFINE n == push_rounds[q]
              told == IF n.answer = "ok" THEN n.told \cup {n.now} ELSE n.told
              excused == IF n.answer \in {"gone", "refused"}
                         THEN n.excused \cup {n.now} ELSE n.excused
              m == [n EXCEPT !.at = "next", !.now = Pu!Nobody, !.answer = "none",
                             !.told = told, !.excused = excused]
  <1>1. push_rounds' = [push_rounds EXCEPT ![q] = m]
    BY DEF Pu!Answered
  <1>2. n \in Messages
    OBVIOUS
  <1>. HIDE DEF told, excused
  <1>3. /\ m.at = "next" /\ m.todo = n.todo /\ m.all = n.all /\ m.told = told
        /\ m.excused = excused
    BY <1>2 DEF Messages
  <1>. HIDE DEF m
  <1>4. QED
    BY <1>1, <1>3 DEF told, excused

\* Two fields of a round written one after the other.
LEMMA BothWritten ==
  ASSUME PushTyped, NEW r \in Pu!Rounds, NEW x, NEW y,
         push_rounds' = [push_rounds EXCEPT ![r].todo = x, ![r].excused = y]
  PROVE  push_rounds' = [push_rounds EXCEPT ![r] = [@ EXCEPT !.todo = x, !.excused = y]]
  BY Zenon DEF PushTyped

LEMMA PushTypedStep ==
  ASSUME Pu!ConstantsOK, PushInv, [Pu!Next]_Pu!vars
  PROVE  PushTyped'
  <1>. Pu!Subs' = Pu!Subs /\ Pu!Nobody' = Pu!Nobody /\ Pu!Rounds' = Pu!Rounds
    BY DEF Pu!Subs, Pu!Nobody, Pu!Rounds
  <1>a. PushTyped
    BY DEF PushInv
  <1>. USE <1>a, PushFields DEF PushTyped
  <1>1. CASE Pu!LoadOrCreateIdentity
    BY <1>1 DEF Pu!LoadOrCreateIdentity, Pu!Fault, Laptops, Histories
  <1>2. CASE Pu!NewIdentity
    <2>1. push_history.keys + 1 \in 0 .. MaxKeys
      BY <1>2 DEF Pu!NewIdentity, KeysOK, PushInv, Pu!ConstantsOK
    <2>2. push_disk' \in Disks
      BY <1>2, <2>1 DEF Pu!NewIdentity, Disks
    <2>3. push_laptop' \in Laptops
      BY <1>2, <2>1 DEF Pu!NewIdentity, Laptops
    <2>4. push_history' \in Histories
      BY <1>2, <2>1 DEF Pu!NewIdentity, Histories
    <2>5. QED
      BY <1>2, <2>2, <2>3, <2>4 DEF Pu!NewIdentity, Disks, Laptops, Histories, Messages
  <1>3. CASE Pu!OpenStore
    BY <1>3 DEF Pu!OpenStore, Laptops, Histories
  <1>4. CASE Pu!SpoilKey
    <2>1. push_disk' \in Disks
      BY <1>4 DEF Pu!SpoilKey, Disks, Pu!NoKey, Pu!ConstantsOK
    <2>2. push_history' \in Histories
      BY <1>4 DEF Pu!SpoilKey, Pu!Fault, Histories
    <2>3. QED
      BY <1>4, <2>1, <2>2 DEF Pu!SpoilKey, Disks, Laptops, Histories, Messages
  <1>5. CASE Pu!Crash
    <2>1. push_laptop' \in Laptops
      BY <1>5, IdleTyped DEF Pu!Crash
    <2>2. Pu!Idle \in Messages /\ [Pu!Idle EXCEPT !.at = "cut off"] \in Messages
      BY IdleTyped, CutOffTyped
    <2>3. push_rounds' \in [Pu!Rounds -> Messages]
      BY <1>5, <2>2 DEF Pu!Crash
    <2>4. QED
      BY <1>5, <2>1, <2>3 DEF Pu!Crash, Disks, Laptops, Histories, Messages
  <1>6. ASSUME NEW p \in Phones, Pu!OfferPushSubscription(p)
        PROVE  PushTyped'
    <2>1. push_browser[p] \in [sub : Pu!Subs \cup {Pu!Nobody}, number : 0 .. MaxNumber]
      OBVIOUS
    <2>2. push_laptop.key \in 1 .. MaxKeys
      BY <1>6 DEF Pu!OfferPushSubscription, KeysOK, PushInv, Pu!ConstantsOK
    <2>3. Pu!Subscribed(p).sub \in Pu!Subs /\ Pu!Subscribed(p).number \in 0 .. MaxNumber
          /\ Pu!Subscribed(p) \in [sub : Pu!Subs \cup {Pu!Nobody}, number : 0 .. MaxNumber]
      <3>1. CASE push_browser[p].sub # Pu!Nobody
        BY <3>1, <2>1 DEF Pu!Subscribed
      <3>2. CASE push_browser[p].sub = Pu!Nobody /\ push_browser[p].number < MaxNumber
        <4>1. push_browser[p].number + 1 \in 1 .. MaxNumber
          BY <3>2 DEF Pu!ConstantsOK
        <4>2. [phone |-> p, number |-> push_browser[p].number + 1, under |-> Pu!PublicKey]
                \in Pu!Subs
          BY <4>1, <2>2 DEF Pu!Subs, Pu!PublicKey
        <4>3. QED
          BY <3>2, <4>1, <4>2 DEF Pu!Subscribed
      <3>3. QED
        BY <1>6, <3>1, <3>2 DEF Pu!OfferPushSubscription
    <2>4. QED
      BY <1>6, <2>3 DEF Pu!OfferPushSubscription, Disks, Laptops, Histories, Messages
  <1>7. ASSUME NEW p \in Phones, Pu!Unsubscribe(p)
        PROVE  PushTyped'
    <2>1. push_browser' \in [Phones -> [sub : Pu!Subs \cup {Pu!Nobody}, number : 0 .. MaxNumber]]
      BY <1>7 DEF Pu!Unsubscribe
    <2>2. QED
      BY <1>7, <2>1 DEF Pu!Unsubscribe, Disks, Laptops, Histories, Messages
  <1>8. CASE Pu!PushSubscribe
    <2>1. PICK s \in push_offered : /\ push_offered' = push_offered \ {s}
                                    /\ \/ Pu!Add(s)
                                       \/ UNCHANGED <<push_laptop, push_disk, push_history>>
                                    /\ UNCHANGED <<push_browser, push_rounds>>
      BY <1>8 DEF Pu!PushSubscribe
    <2>2. CASE Pu!Add(s)
      <3>1. /\ Pu!Without(Pu!Endpoint(s)) \cup {s} \in SUBSET Pu!Subs
            /\ push_history.kept \cup {s} \in SUBSET Pu!Subs
        BY DEF Pu!Without
      <3>2. QED
        BY <2>1, <2>2, <3>1, SaveTyped DEF Pu!Add, Messages
    <2>3. QED
      BY <2>1, <2>2 DEF Disks, Laptops, Histories, Messages
  <1>9. CASE Pu!Notify
    <2>1. push_history.rounds + 1 \in 0 .. MaxRounds
      BY <1>9 DEF Pu!Notify, Pu!ConstantsOK
    <2>2. push_history' \in Histories
      BY <1>9, <2>1 DEF Pu!Notify, Histories
    <2>3. [Pu!Idle EXCEPT !.at = "next", !.all = push_laptop.subs, !.todo = push_laptop.subs]
            \in Messages
      BY IdleTyped, BegunTyped
    <2>4. QED
      BY <1>9, <2>2, <2>3 DEF Pu!Notify, Disks, Laptops
  <1>10. ASSUME NEW r \in Pu!Rounds, Pu!Send(r)
         PROVE  PushTyped'
    <2>1. push_rounds[r].hung + 1 \in 0 .. Budget
      BY <1>10 DEF Pu!Send, Pu!Expired, Pu!ConstantsOK
    <2>2. \A s \in Pu!Subs : Pu!StatusError(s) \in {"gone", "ok", "refused"}
      BY DEF Pu!StatusError
    <2>3. PICK s \in push_rounds[r].todo :
            LET sent == [push_rounds[r] EXCEPT !.at = "sent", !.todo = @ \ {s}, !.now = s,
                                               !.tried = @ \cup {s}]
                answered == [sent EXCEPT !.answer = Pu!StatusError(s)]
                hangs == [sent EXCEPT !.answer = "hangs", !.excused = @ \cup {s},
                                      !.hung = @ + 1] IN
            \/ push_rounds' = [push_rounds EXCEPT ![r] = answered]
            \/ push_rounds' = [push_rounds EXCEPT ![r] = hangs]
      BY <1>10 DEF Pu!Send
    <2>4. push_rounds' \in [Pu!Rounds -> Messages]
      <3>. s \in Pu!Subs /\ Pu!StatusError(s) \in {"gone", "ok", "refused"}
        BY <2>2
      <3>1. push_rounds[r] \in Messages
        OBVIOUS
      <3>. DEFINE sent == [push_rounds[r] EXCEPT !.at = "sent", !.todo = @ \ {s}, !.now = s,
                                                 !.tried = @ \cup {s}]
                  answered == [sent EXCEPT !.answer = Pu!StatusError(s)]
                  hangs == [sent EXCEPT !.answer = "hangs", !.excused = @ \cup {s},
                                        !.hung = @ + 1]
      <3>2. answered \in Messages
        BY <3>1 DEF Messages
      <3>3. hangs \in Messages
        <4>1. sent \in Messages
          BY <3>1 DEF Messages
        <4>2. /\ sent.hung + 1 \in 0 .. Budget
              /\ sent.excused \cup {s} \in SUBSET Pu!Subs
          BY <2>1, <3>1 DEF Messages
        <4>. DEFINE e == sent.excused \cup {s}
                    h == sent.hung + 1
        <4>3. hangs = [sent EXCEPT !.answer = "hangs", !.excused = e, !.hung = h]
          OBVIOUS
        <4>. HIDE DEF sent, e, h, hangs
        <4>4. e \in SUBSET Pu!Subs /\ h \in 0 .. Budget
          BY <4>2 DEF e, h
        <4>5. QED
          BY <4>1, <4>3, <4>4 DEF Messages
      <3>4. \/ push_rounds' = [push_rounds EXCEPT ![r] = answered]
            \/ push_rounds' = [push_rounds EXCEPT ![r] = hangs]
        BY <2>3
      <3>. HIDE DEF answered, hangs
      <3>5. QED
        BY <3>2, <3>3, <3>4
    <2>5. QED
      BY <1>10, <2>4 DEF Pu!Send, Disks, Laptops, Histories
  <1>11. ASSUME NEW r \in Pu!Rounds, Pu!SendTooLate(r)
         PROVE  PushTyped'
    <2>1. PICK s \in push_rounds[r].todo :
            push_rounds' = [push_rounds EXCEPT ![r].todo = @ \ {s}, ![r].excused = @ \cup {s}]
      BY <1>11 DEF Pu!SendTooLate
    <2>. DEFINE m == [push_rounds[r] EXCEPT !.todo = push_rounds[r].todo \ {s},
                                            !.excused = push_rounds[r].excused \cup {s}]
    <2>2. push_rounds' = [push_rounds EXCEPT ![r] = m]
      <3>. DEFINE x == push_rounds[r].todo \ {s}
                  y == push_rounds[r].excused \cup {s}
      <3>1. push_rounds' = [push_rounds EXCEPT ![r].todo = x, ![r].excused = y]
        BY <2>1, Zenon
      <3>. HIDE DEF x, y
      <3>2. push_rounds' = [push_rounds EXCEPT ![r] = [@ EXCEPT !.todo = x, !.excused = y]]
        BY <3>1, BothWritten
      <3>3. QED
        BY <3>2, Zenon DEF x, y
    <2>3. m \in Messages
      <3>1. /\ push_rounds[r] \in Messages
            /\ push_rounds[r].todo \ {s} \in SUBSET Pu!Subs
            /\ push_rounds[r].excused \cup {s} \in SUBSET Pu!Subs
        OBVIOUS
      <3>2. QED
        BY <3>1, LateTyped
    <2>. HIDE DEF m
    <2>4. push_rounds' \in [Pu!Rounds -> Messages]
      BY <2>2, <2>3
    <2>5. QED
      BY <1>11, <2>4 DEF Pu!SendTooLate, Disks, Laptops, Histories
  <1>12. ASSUME NEW r \in Pu!Rounds, Pu!Answered(r)
         PROVE  PushTyped'
    <2>1. push_rounds[r].now \in Pu!Subs
      BY <1>12 DEF Pu!Answered, RoundsOK, RoundOK, PushInv
    <2>2. push_rounds' \in [Pu!Rounds -> Messages]
      <3>. DEFINE s == push_rounds[r].now
                  a == push_rounds[r].answer
                  told == IF a = "ok" THEN push_rounds[r].told \cup {s} ELSE push_rounds[r].told
                  excused == IF a \in {"gone", "refused"} THEN push_rounds[r].excused \cup {s}
                             ELSE push_rounds[r].excused
      <3>1. told \in SUBSET Pu!Subs /\ excused \in SUBSET Pu!Subs
        BY <2>1
      <3>. HIDE DEF told, excused
      <3>2. [push_rounds[r] EXCEPT !.at = "next", !.now = Pu!Nobody, !.answer = "none",
               !.told = told, !.excused = excused] \in Messages
        <4>1. push_rounds[r] \in Messages
          OBVIOUS
        <4>2. QED
          BY <3>1, <4>1, AnsweredTyped
      <3>. DEFINE m == [push_rounds[r] EXCEPT !.at = "next", !.now = Pu!Nobody,
                          !.answer = "none", !.told = told, !.excused = excused]
      <3>3. push_rounds' = [push_rounds EXCEPT ![r] = m]
        BY <1>12 DEF Pu!Answered, told, excused
      <3>4. m \in Messages
        BY <3>2
      <3>. HIDE DEF m
      <3>5. QED
        BY <3>3, <3>4
    <2>3. CASE Pu!Save(Pu!Without(Pu!Endpoint(push_rounds[r].now)), push_history.kept)
      <3>1. Pu!Without(Pu!Endpoint(push_rounds[r].now)) \in SUBSET Pu!Subs
        BY DEF Pu!Without
      <3>2. QED
        BY <1>12, <2>2, <2>3, <3>1, SaveTyped DEF Pu!Answered
    <2>4. CASE UNCHANGED <<push_laptop, push_disk, push_history>>
      BY <1>12, <2>2, <2>4 DEF Pu!Answered, Disks, Laptops, Histories
    <2>5. QED
      BY <1>12, <2>3, <2>4 DEF Pu!Answered, Pu!Remove
  <1>13. CASE UNCHANGED Pu!vars
    BY <1>13 DEF Pu!vars, Disks, Laptops, Histories, Messages
  <1>14. QED
    BY <1>1, <1>2, <1>3, <1>4, <1>5, <1>6, <1>7, <1>8, <1>9, <1>10, <1>11, <1>12, <1>13
       DEF Pu!Next

-----------------------------------------------------------------------------
(***************************************************************************)
(* What a step does to the browsers and to the sets of subscriptions.      *)
(***************************************************************************)
Made(p) == [phone |-> p, number |-> push_browser[p].number + 1, under |-> push_laptop.key]

\* A browser stays as it is, drops its subscription, or makes one.
LEMMA BrowserSteps ==
  ASSUME PushInv, [Pu!Next]_Pu!vars, NEW p \in Phones
  PROVE  \/ push_browser'[p] = push_browser[p]
         \/ /\ push_browser'[p].sub = Pu!Nobody
            /\ push_browser'[p].number = push_browser[p].number
         \/ /\ push_browser[p].sub = Pu!Nobody
            /\ push_browser'[p].sub = Made(p)
            /\ push_browser'[p].number = push_browser[p].number + 1
  <1>. push_browser \in [Phones -> [sub : Pu!Subs \cup {Pu!Nobody}, number : 0 .. MaxNumber]]
    BY DEF PushInv, PushTyped
  <1>1. CASE UNCHANGED push_browser
    BY <1>1
  <1>2. ASSUME NEW q \in Phones, Pu!OfferPushSubscription(q)
        PROVE  \/ push_browser'[p] = push_browser[p]
               \/ /\ push_browser[p].sub = Pu!Nobody
                  /\ push_browser'[p].sub = Made(p)
                  /\ push_browser'[p].number = push_browser[p].number + 1
    <2>1. push_browser' = [push_browser EXCEPT ![q] = Pu!Subscribed(q)]
      BY <1>2 DEF Pu!OfferPushSubscription
    <2>2. CASE push_browser[q].sub # Pu!Nobody
      BY <2>1, <2>2 DEF Pu!Subscribed
    <2>3. CASE push_browser[q].sub = Pu!Nobody
      BY <2>1, <2>3 DEF Pu!Subscribed, Made, Pu!PublicKey
    <2>4. QED
      BY <2>2, <2>3
  <1>3. ASSUME NEW q \in Phones, Pu!Unsubscribe(q)
        PROVE  \/ push_browser'[p] = push_browser[p]
               \/ /\ push_browser'[p].sub = Pu!Nobody
                  /\ push_browser'[p].number = push_browser[p].number
    BY <1>3 DEF Pu!Unsubscribe
  <1>4. QED
    BY <1>1, <1>2, <1>3, Zenon
       DEF Pu!Next, Pu!vars, Pu!LoadOrCreateIdentity, Pu!NewIdentity, Pu!OpenStore,
           Pu!SpoilKey, Pu!Crash, Pu!PushSubscribe, Pu!Notify, Pu!Send, Pu!SendTooLate,
           Pu!Answered

LEMMA NewestStays ==
  ASSUME PushInv, [Pu!Next]_Pu!vars, NEW s \in Pu!Subs, Newest(s)
  PROVE  Newest(s)'
  <1>1. s.phone \in Phones /\ s.number \in Int /\ push_browser[s.phone].number \in Int
    BY DEF PushInv, PushTyped, Pu!Subs
  <1>2. Pu!Nobody' = Pu!Nobody
    BY DEF Pu!Nobody
  <1>3. QED
    BY <1>1, <1>2, BrowserSteps DEF Newest

\* Who is not there any more stays away.
LEMMA GoneStaysAway ==
  ASSUME PushInv, [Pu!Next]_Pu!vars, NEW s \in Pu!Subs, Newest(s), s \in Pu!service'
  PROVE  s \in Pu!service
  <1>1. PICK p \in Phones : s = push_browser'[p].sub /\ s # Pu!Nobody
    BY DEF Pu!service, Pu!Nobody
  <1>2. CASE push_browser'[p] = push_browser[p]
    BY <1>1, <1>2 DEF Pu!service
  <1>3. CASE push_browser'[p].sub = Made(p)
    <2>1. s.phone = p /\ s.number = push_browser[p].number + 1
      BY <1>1, <1>3 DEF Made
    <2>2. s.number <= push_browser[p].number /\ push_browser[p].number \in Int
      BY <2>1 DEF Newest, PushInv, PushTyped
    <2>3. QED
      BY <2>1, <2>2
  <1>4. QED
    BY <1>1, <1>2, <1>3, BrowserSteps

LEMMA BrowsersStep ==
  ASSUME PushInv, [Pu!Next]_Pu!vars
  PROVE  BrowsersOK'
  <1>1. SUFFICES ASSUME NEW p \in Phones, push_browser'[p].sub # Pu!Nobody
                 PROVE  /\ push_browser'[p].sub.phone = p
                        /\ push_browser'[p].sub.number = push_browser'[p].number
    BY DEF BrowsersOK, Pu!Nobody
  <1>2. CASE push_browser'[p] = push_browser[p]
    BY <1>1, <1>2 DEF BrowsersOK, PushInv
  <1>3. CASE /\ push_browser'[p].sub = Made(p)
             /\ push_browser'[p].number = push_browser[p].number + 1
    BY <1>3 DEF Made
  <1>4. QED
    BY <1>1, <1>2, <1>3, BrowserSteps

Kept == push_disk.subs \cup push_laptop.subs \cup push_offered

LEMMA SaveMoves ==
  ASSUME PushTyped, NEW subs, NEW kept, Pu!Save(subs, kept)
  PROVE  /\ push_laptop' = [push_laptop EXCEPT !.subs = subs]
         /\ push_laptop'.subs = subs
         /\ push_laptop'.at = push_laptop.at /\ push_laptop'.key = push_laptop.key
         /\ \/ push_disk' = push_disk /\ push_history'.kept = push_history.kept
            \/ push_disk'.subs = subs /\ push_history'.kept = kept
         /\ push_history'.keys = push_history.keys
  <1>1. push_laptop \in Laptops /\ push_disk \in Disks /\ push_history \in Histories
    BY DEF PushTyped
  <1>2. push_laptop' = [push_laptop EXCEPT !.subs = subs]
    BY DEF Pu!Save
  <1>3. /\ push_laptop'.subs = subs
        /\ push_laptop'.at = push_laptop.at /\ push_laptop'.key = push_laptop.key
    BY <1>1, <1>2 DEF Laptops
  <1>4. CASE push_disk' = [push_disk EXCEPT !.subs = subs] /\ push_history' = [push_history EXCEPT !.kept = kept]
    BY <1>1, <1>2, <1>3, <1>4 DEF Disks, Histories
  <1>5. CASE push_disk' = push_disk /\ Pu!Fault
    BY <1>1, <1>2, <1>3, <1>5 DEF Pu!Fault, Histories
  <1>6. QED
    BY <1>4, <1>5 DEF Pu!Save

\* Where the subscriptions of the next state come from.
LEMMA SubsComeFrom ==
  ASSUME PushInv, [Pu!Next]_Pu!vars
  PROVE  /\ push_disk'.subs \subseteq Kept /\ push_laptop'.subs \subseteq Kept
         /\ push_history'.kept \subseteq push_history.kept \cup Kept
         /\ \/ push_offered' \subseteq push_offered
            \/ \E p \in Phones : push_offered' \subseteq push_offered \cup {push_browser'[p].sub}
  <1>a. PushTyped
    BY DEF PushInv
  <1>b. push_laptop \in Laptops /\ push_disk \in Disks /\ push_history \in Histories
        /\ push_browser \in [Phones -> [sub : Pu!Subs \cup {Pu!Nobody}, number : 0 .. MaxNumber]]
    BY <1>a DEF PushTyped
  <1>1. CASE Pu!LoadOrCreateIdentity
    BY <1>1, <1>b DEF Pu!LoadOrCreateIdentity, Pu!Fault, Kept, Laptops, Histories
  <1>2. CASE Pu!NewIdentity
    BY <1>2, <1>b DEF Pu!NewIdentity, Kept, Laptops, Histories, Disks
  <1>3. CASE Pu!OpenStore
    BY <1>3, <1>b DEF Pu!OpenStore, Kept, Laptops, Histories
  <1>4. CASE Pu!SpoilKey
    BY <1>4, <1>b DEF Pu!SpoilKey, Pu!Fault, Kept, Disks, Histories
  <1>5. CASE Pu!Crash
    BY <1>5 DEF Pu!Crash, Pu!Off, Kept
  <1>6. ASSUME NEW p \in Phones, Pu!OfferPushSubscription(p)
        PROVE  /\ UNCHANGED <<push_disk, push_laptop, push_history>>
               /\ push_offered' \subseteq push_offered \cup {push_browser'[p].sub}
    BY <1>6, <1>b DEF Pu!OfferPushSubscription
  <1>7. CASE Pu!PushSubscribe
    <2>1. PICK s \in push_offered : /\ push_offered' = push_offered \ {s}
                                    /\ \/ Pu!Add(s)
                                       \/ UNCHANGED <<push_laptop, push_disk, push_history>>
      BY <1>7 DEF Pu!PushSubscribe
    <2>2. CASE Pu!Add(s)
      BY <2>1, <2>2, <1>a, SaveMoves DEF Pu!Add, Pu!Without, Kept
    <2>3. QED
      BY <2>1, <2>2 DEF Kept
  <1>8. CASE Pu!Notify
    BY <1>8, <1>b DEF Pu!Notify, Kept, Histories
  <1>9. ASSUME NEW r \in Pu!Rounds, Pu!Answered(r)
        PROVE  /\ push_disk'.subs \subseteq Kept /\ push_laptop'.subs \subseteq Kept
               /\ push_history'.kept \subseteq push_history.kept \cup Kept
               /\ push_offered' \subseteq push_offered
    <2>1. push_offered' = push_offered
      BY <1>9 DEF Pu!Answered
    <2>2. CASE Pu!Save(Pu!Without(Pu!Endpoint(push_rounds[r].now)), push_history.kept)
      BY <2>1, <2>2, <1>a, SaveMoves DEF Pu!Without, Kept
    <2>3. CASE UNCHANGED <<push_laptop, push_disk, push_history>>
      BY <2>1, <2>3 DEF Kept
    <2>4. QED
      BY <1>9, <2>2, <2>3 DEF Pu!Answered, Pu!Remove
  <1>10. CASE UNCHANGED <<push_disk, push_laptop, push_offered, push_history>>
    BY <1>10 DEF Kept
  <1>11. QED
    <2>1. ASSUME NEW p \in Phones, Pu!Unsubscribe(p)
          PROVE  UNCHANGED <<push_disk, push_laptop, push_offered, push_history>>
      BY <2>1 DEF Pu!Unsubscribe
    <2>2. ASSUME NEW r \in Pu!Rounds, Pu!Send(r) \/ Pu!SendTooLate(r)
          PROVE  UNCHANGED <<push_disk, push_laptop, push_offered, push_history>>
      BY <2>2 DEF Pu!Send, Pu!SendTooLate
    <2>3. UNCHANGED Pu!vars => UNCHANGED <<push_disk, push_laptop, push_offered, push_history>>
      BY DEF Pu!vars
    <2>4. ASSUME UNCHANGED <<push_disk, push_laptop, push_history>>
          PROVE  /\ push_disk'.subs \subseteq Kept /\ push_laptop'.subs \subseteq Kept
                 /\ push_history'.kept \subseteq push_history.kept \cup Kept
      BY <2>4 DEF Kept
    <2>5. ASSUME NEW p \in Phones, Pu!OfferPushSubscription(p)
          PROVE  /\ push_disk'.subs \subseteq Kept /\ push_laptop'.subs \subseteq Kept
                 /\ push_history'.kept \subseteq push_history.kept \cup Kept
                 /\ push_offered' \subseteq push_offered \cup {push_browser'[p].sub}
      BY <1>6, <2>4, <2>5
    <2>6. QED
      BY <1>1, <1>2, <1>3, <1>4, <1>5, <1>7, <1>8, <1>9, <1>10, <2>1, <2>2, <2>3, <2>5
         DEF Pu!Next

LEMMA KeysStep ==
  ASSUME Pu!ConstantsOK, PushInv, [Pu!Next]_Pu!vars
  PROVE  KeysOK'
  <1>a. PushTyped /\ KeysOK
    BY DEF PushInv
  <1>b. push_laptop \in Laptops /\ push_disk \in Disks /\ push_history \in Histories
    BY <1>a DEF PushTyped
  <1>1. CASE Pu!LoadOrCreateIdentity
    BY <1>1, <1>a, <1>b DEF Pu!LoadOrCreateIdentity, Pu!Fault, KeysOK, Laptops, Pu!NoKey
  <1>2. CASE Pu!NewIdentity
    BY <1>2, <1>b DEF Pu!NewIdentity, KeysOK, Laptops, Histories
  <1>3. CASE Pu!OpenStore
    BY <1>3, <1>a, <1>b DEF Pu!OpenStore, KeysOK, Laptops, Histories
  <1>4. CASE Pu!SpoilKey
    BY <1>4, <1>a, <1>b DEF Pu!SpoilKey, Pu!Fault, KeysOK, Laptops
  <1>5. CASE Pu!Crash
    BY <1>5 DEF Pu!Crash, Pu!Off, KeysOK
  <1>6. CASE Pu!PushSubscribe
    BY <1>6, <1>a, SaveMoves DEF Pu!PushSubscribe, Pu!Add, KeysOK
  <1>7. CASE Pu!Notify
    BY <1>7, <1>a DEF Pu!Notify, KeysOK
  <1>8. ASSUME NEW r \in Pu!Rounds, Pu!Answered(r)
        PROVE  KeysOK'
    BY <1>8, <1>a, SaveMoves DEF Pu!Answered, Pu!Remove, KeysOK
  <1>9. CASE UNCHANGED <<push_laptop, push_history>>
    BY <1>9, <1>a DEF KeysOK
  <1>10. QED
    BY <1>1, <1>2, <1>3, <1>4, <1>5, <1>6, <1>7, <1>8, <1>9
       DEF Pu!Next, Pu!vars, Pu!OfferPushSubscription, Pu!Unsubscribe, Pu!Send, Pu!SendTooLate

LEMMA RoundsComeFrom ==
  ASSUME PushInv, [Pu!Next]_Pu!vars, NEW r \in Pu!Rounds
  PROVE  push_rounds'[r].all \subseteq push_rounds[r].all \cup push_laptop.subs
  <1>a. push_rounds \in [Pu!Rounds -> Messages]
    BY DEF PushInv, PushTyped
  <1>1. CASE Pu!Crash
    BY <1>1 DEF Pu!Crash, Pu!Idle
  <1>2. CASE Pu!Notify
    BY <1>2, <1>a DEF Pu!Notify, Pu!Idle
  <1>3. ASSUME NEW q \in Pu!Rounds, Pu!Send(q)
        PROVE  push_rounds'[r].all = push_rounds[r].all
    BY <1>3, <1>a, SentFields
  <1>4. ASSUME NEW q \in Pu!Rounds, Pu!SendTooLate(q)
        PROVE  push_rounds'[r].all = push_rounds[r].all
    <2>1. PICK s \in push_rounds[q].todo :
            push_rounds' = [push_rounds EXCEPT ![q].todo = @ \ {s}, ![q].excused = @ \cup {s}]
      BY <1>4 DEF Pu!SendTooLate
    <2>2. QED
      BY <2>1, <1>a, LateFields
  <1>5. ASSUME NEW q \in Pu!Rounds, Pu!Answered(q)
        PROVE  push_rounds'[r].all = push_rounds[r].all
    BY <1>5, <1>a, AnsweredFields
  <1>6. CASE UNCHANGED push_rounds
    BY <1>6
  <1>7. QED
    BY <1>1, <1>2, <1>3, <1>4, <1>5, <1>6
       DEF Pu!Next, Pu!vars, Pu!LoadOrCreateIdentity, Pu!NewIdentity, Pu!OpenStore,
           Pu!SpoilKey, Pu!OfferPushSubscription, Pu!Unsubscribe, Pu!PushSubscribe

LEMMA KnownStep ==
  ASSUME Pu!ConstantsOK, PushInv, [Pu!Next]_Pu!vars
  PROVE  Known'
  <1>a. PushTyped /\ PushTyped' /\ BrowsersOK' /\ Known
    BY PushTypedStep, BrowsersStep DEF PushInv
  <1>b. Pu!Subs' = Pu!Subs /\ Pu!Nobody' = Pu!Nobody /\ Pu!Rounds' = Pu!Rounds
    BY DEF Pu!Subs, Pu!Nobody, Pu!Rounds
  <1>1. /\ push_disk.subs \cup push_laptop.subs \subseteq Pu!Subs
        /\ push_offered \subseteq Pu!Subs /\ push_history.kept \subseteq Pu!Subs
        /\ \A r \in Pu!Rounds : push_rounds[r].all \subseteq Pu!Subs
    BY <1>a, PushFields DEF PushTyped
  <1>2. \A s \in Kept \cup push_history.kept : s \in Pu!Subs /\ Newest(s)
    BY <1>1, <1>a DEF Known, Kept
  <1>3. \A s \in Kept \cup push_history.kept : Newest(s)'
    BY <1>2, NewestStays
  <1>4. \A s \in push_disk'.subs \cup push_laptop'.subs : Newest(s)'
    BY <1>3, SubsComeFrom
  <1>5. \A s \in push_history'.kept : Newest(s)'
    BY <1>3, SubsComeFrom
  <1>6. \A r \in Pu!Rounds : \A s \in push_rounds'[r].all : Newest(s)'
    <2>1. ASSUME NEW r \in Pu!Rounds, NEW s \in push_rounds[r].all
          PROVE  Newest(s)'
      <3>1. s \in Pu!Subs /\ Newest(s)
        BY <1>1, <1>a DEF Known
      <3>2. QED
        BY <3>1, NewestStays
    <2>2. QED
      BY <1>3, <2>1, RoundsComeFrom DEF Kept
  <1>7. \A s \in push_offered' : Newest(s)'
    <2>1. ASSUME NEW s \in Pu!Subs, NEW p \in Phones, s = push_browser'[p].sub
          PROVE  Newest(s)'
      <3>1. s # Pu!Nobody
        BY <2>1, NobodyIsNone
      <3>2. s.phone = p /\ s.number = push_browser'[p].number
        BY <2>1, <3>1, <1>a, <1>b DEF BrowsersOK
      <3>3. push_browser'[p].number \in Int
        BY <1>a DEF PushTyped
      <3>4. QED
        BY <2>1, <3>2, <3>3 DEF Newest
    <2>2. push_offered' \subseteq Pu!Subs
      BY <1>a, <1>b DEF PushTyped
    <2>3. ASSUME NEW s \in push_offered'
          PROVE  s \in push_offered \/ \E p \in Phones : s = push_browser'[p].sub
      BY SubsComeFrom
    <2>4. ASSUME NEW s \in push_offered
          PROVE  Newest(s)'
      BY <1>3 DEF Kept
    <2>5. QED
      BY <2>1, <2>2, <2>3, <2>4
  <1>8. QED
    BY <1>4, <1>5, <1>6, <1>7, <1>b DEF Known

-----------------------------------------------------------------------------
(***************************************************************************)
(* The rounds.                                                             *)
(***************************************************************************)
\* A round nobody touches stays in order, as long as the program is up.
LEMMA RoundLeftAlone ==
  ASSUME PushInv, [Pu!Next]_Pu!vars, NEW r \in Pu!Rounds,
         push_rounds'[r] = push_rounds[r], push_laptop.at = "up" => push_laptop'.at = "up"
  PROVE  RoundOK(r)'
  <1>1. RoundOK(r)
    BY DEF PushInv, RoundsOK
  <1>2. ASSUME push_rounds[r].at = "sent", push_rounds[r].now \notin Pu!service
        PROVE  push_rounds[r].now \notin Pu!service'
    <2>1. push_rounds[r].now \in push_rounds[r].all
      BY <1>1, <1>2 DEF RoundOK
    <2>2. push_rounds[r].now \in Pu!Subs /\ Newest(push_rounds[r].now)
      BY <2>1, PushFields DEF PushInv, Known
    <2>3. QED
      BY <1>2, <2>2, GoneStaysAway
  <1>3. QED
    BY <1>1, <1>2 DEF RoundOK

LEMMA RoundsStep ==
  ASSUME Pu!ConstantsOK, PushInv, [Pu!Next]_Pu!vars
  PROVE  RoundsOK'
  <1>a. PushTyped /\ push_rounds \in [Pu!Rounds -> Messages] /\ push_laptop \in Laptops
        /\ \A r \in Pu!Rounds : RoundOK(r)
    BY DEF PushInv, PushTyped, RoundsOK
  <1>b. Pu!Rounds' = Pu!Rounds
    BY DEF Pu!Rounds
  <1>c. ASSUME push_rounds' = push_rounds, push_laptop.at = "up" => push_laptop'.at = "up"
        PROVE  RoundsOK'
    BY <1>b, <1>c, RoundLeftAlone DEF RoundsOK
  <1>1. CASE Pu!LoadOrCreateIdentity
    BY <1>1, <1>c DEF Pu!LoadOrCreateIdentity
  <1>2. CASE Pu!NewIdentity
    BY <1>2, <1>c DEF Pu!NewIdentity
  <1>3. CASE Pu!OpenStore
    BY <1>3, <1>c DEF Pu!OpenStore
  <1>4. CASE Pu!Crash
    <2>1. ASSUME NEW r \in Pu!Rounds
          PROVE  /\ push_rounds'[r].at \in {"unused", "cut off"}
                 /\ push_rounds'[r].todo = {}
      BY <1>4, <2>1 DEF Pu!Crash, Pu!Idle
    <2>2. QED
      BY <2>1, <1>b DEF RoundsOK, RoundOK
  <1>5. CASE Pu!PushSubscribe
    <2>1. push_rounds' = push_rounds
      BY <1>5 DEF Pu!PushSubscribe
    <2>2. push_laptop'.at = push_laptop.at
      BY <1>5, <1>a, SaveMoves DEF Pu!PushSubscribe, Pu!Add
    <2>3. QED
      BY <2>1, <2>2, <1>c
  <1>6. CASE Pu!Notify
    <2>1. push_laptop' = push_laptop /\ push_laptop.at = "up"
      BY <1>6 DEF Pu!Notify
    <2>. DEFINE m == [Pu!Idle EXCEPT !.at = "next", !.all = push_laptop.subs,
                                     !.todo = push_laptop.subs]
    <2>2. push_rounds' = [push_rounds EXCEPT ![push_history.rounds + 1] = m]
      BY <1>6 DEF Pu!Notify
    <2>3. m.at = "next" /\ m.all = push_laptop.subs /\ m.todo = push_laptop.subs
      BY DEF Pu!Idle
    <2>. HIDE DEF m
    <2>4. ASSUME NEW r \in Pu!Rounds
          PROVE  RoundOK(r)'
      <3>1. CASE push_rounds'[r] = push_rounds[r]
        BY <2>1, <3>1, RoundLeftAlone
      <3>2. CASE push_rounds'[r] = m
        BY <2>1, <2>3, <3>2 DEF RoundOK
      <3>3. QED
        BY <1>a, <2>2, <3>1, <3>2
    <2>5. QED
      BY <2>4, <1>b DEF RoundsOK
  <1>7. ASSUME NEW q \in Pu!Rounds, Pu!Send(q)
        PROVE  RoundsOK'
    <2>1. UNCHANGED <<push_laptop, push_browser>> /\ push_rounds[q].at = "next"
      BY <1>7 DEF Pu!Send
    <2>2. Pu!service' = Pu!service
      BY <2>1 DEF Pu!service, Pu!Nobody
    <2>3. \A s \in push_rounds[q].todo :
            /\ Pu!StatusError(s) \in {"gone", "ok", "refused"}
            /\ Pu!StatusError(s) = "gone" => s \notin Pu!service
      BY DEF Pu!StatusError
    <2>4. RoundOK(q)'
      BY <1>7, <1>a, <2>1, <2>2, <2>3, SentFields DEF RoundOK
    <2>5. ASSUME NEW r \in Pu!Rounds, r # q
          PROVE  RoundOK(r)'
      BY <1>7, <1>a, <2>1, <2>5, SentFields, RoundLeftAlone
    <2>6. QED
      BY <2>4, <2>5, <1>b DEF RoundsOK
  <1>8. ASSUME NEW q \in Pu!Rounds, Pu!SendTooLate(q)
        PROVE  RoundsOK'
    <2>1. push_laptop' = push_laptop /\ push_rounds[q].at = "next"
      BY <1>8 DEF Pu!SendTooLate
    <2>2. PICK s \in push_rounds[q].todo :
            push_rounds' = [push_rounds EXCEPT ![q].todo = @ \ {s}, ![q].excused = @ \cup {s}]
      BY <1>8 DEF Pu!SendTooLate
    <2>3. RoundOK(q)'
      <3>1. RoundOK(q)
        BY <1>a
      <3>2. /\ push_rounds'[q].todo = push_rounds[q].todo \ {s}
            /\ push_rounds'[q].excused = push_rounds[q].excused \cup {s}
            /\ push_rounds'[q].all = push_rounds[q].all /\ push_rounds'[q].at = "next"
            /\ push_rounds'[q].told = push_rounds[q].told
        BY <1>a, <2>1, <2>2, LateFields
      <3>3. QED
        BY <2>1, <3>1, <3>2 DEF RoundOK
    <2>4. ASSUME NEW r \in Pu!Rounds, r # q
          PROVE  RoundOK(r)'
      BY <1>a, <2>1, <2>2, <2>4, LateFields, RoundLeftAlone
    <2>5. QED
      BY <2>3, <2>4, <1>b DEF RoundsOK
  <1>9. ASSUME NEW q \in Pu!Rounds, Pu!Answered(q)
        PROVE  RoundsOK'
    <2>1. push_rounds[q].at = "sent"
      BY <1>9 DEF Pu!Answered
    <2>2. push_laptop'.at = push_laptop.at
      BY <1>9, <1>a, SaveMoves DEF Pu!Answered, Pu!Remove
    <2>3. RoundOK(q)'
      <3>. DEFINE n == push_rounds[q]
      <3>1. /\ push_laptop.at = "up" /\ n.todo \subseteq n.all
            /\ n.all \subseteq n.todo \cup n.told \cup n.excused \cup {n.now}
            /\ n.answer \in {"ok", "gone", "refused", "hangs"}
            /\ n.answer = "hangs" => n.now \in n.excused
        BY <1>a, <2>1 DEF RoundOK
      <3>2. /\ push_rounds'[q].at = "next" /\ push_rounds'[q].todo = n.todo
            /\ push_rounds'[q].all = n.all
            /\ push_rounds'[q].told = IF n.answer = "ok" THEN n.told \cup {n.now} ELSE n.told
            /\ push_rounds'[q].excused = IF n.answer \in {"gone", "refused"}
                                         THEN n.excused \cup {n.now} ELSE n.excused
        BY <1>9, <1>a, AnsweredFields
      <3>3. n.all \subseteq n.todo \cup push_rounds'[q].told \cup push_rounds'[q].excused
        BY <3>1, <3>2
      <3>4. QED
        BY <2>2, <3>1, <3>2, <3>3 DEF RoundOK
    <2>4. ASSUME NEW r \in Pu!Rounds, r # q
          PROVE  RoundOK(r)'
      BY <1>9, <1>a, <2>2, <2>4, AnsweredFields, RoundLeftAlone
    <2>5. QED
      BY <2>3, <2>4, <1>b DEF RoundsOK
  <1>10. CASE UNCHANGED <<push_laptop, push_rounds>>
    BY <1>10, <1>c
  <1>11. QED
    BY <1>1, <1>2, <1>3, <1>4, <1>5, <1>6, <1>7, <1>8, <1>9, <1>10
       DEF Pu!Next, Pu!vars, Pu!SpoilKey, Pu!OfferPushSubscription, Pu!Unsubscribe

-----------------------------------------------------------------------------
(***************************************************************************)
(* What was kept and is still known to its service stays.                  *)
(***************************************************************************)
\* Two subscriptions of one endpoint are the same if one of them is the browser's.
LEMMA OneOfAnEndpoint ==
  ASSUME PushInv, NEW s \in Pu!Subs, NEW t \in Pu!Subs, Newest(t), s \in Pu!service,
         Pu!Endpoint(s) = Pu!Endpoint(t)
  PROVE  s = t
  <1>1. PICK p \in Phones : s = push_browser[p].sub /\ s # Pu!Nobody
    BY DEF Pu!service
  <1>2. s.phone = p /\ s.number = push_browser[p].number
    BY <1>1 DEF PushInv, BrowsersOK
  <1>3. t.phone = s.phone /\ t.number = s.number
    BY Zenon DEF Pu!Endpoint
  <1>4. QED
    BY <1>1, <1>2, <1>3 DEF Newest

LEMMA LiveStays ==
  ASSUME Pu!ConstantsOK, PushInv, [Pu!Next]_Pu!vars
  PROVE  Pu!LiveIsKept'
  <1>a. PushTyped /\ Pu!LiveIsKept /\ push_laptop \in Laptops /\ push_disk \in Disks
        /\ push_history \in Histories
    BY DEF PushInv, PushTyped
  <1>b. ASSUME NEW s \in push_history.kept, s \in Pu!service'
        PROVE  /\ s \in Pu!Subs /\ s \in Pu!service /\ s \in push_disk.subs
               /\ push_laptop.at = "up" => s \in push_laptop.subs
    <2>1. s \in Pu!Subs /\ Newest(s)
      BY <1>b, PushFields DEF PushInv, Known
    <2>2. s \in Pu!service
      BY <1>b, <2>1, GoneStaysAway
    <2>3. QED
      BY <1>a, <2>1, <2>2 DEF Pu!LiveIsKept
  <1>1. CASE Pu!LoadOrCreateIdentity
    BY <1>1, <1>a, <1>b DEF Pu!LoadOrCreateIdentity, Pu!Fault, Pu!LiveIsKept, Laptops, Histories
  <1>2. CASE Pu!NewIdentity
    BY <1>2, <1>a, <1>b DEF Pu!NewIdentity, Pu!LiveIsKept, Laptops, Disks, Histories
  <1>3. CASE Pu!OpenStore
    BY <1>3, <1>a, <1>b DEF Pu!OpenStore, Pu!LiveIsKept, Laptops, Histories
  <1>4. CASE Pu!SpoilKey
    BY <1>4, <1>a, <1>b DEF Pu!SpoilKey, Pu!Fault, Pu!LiveIsKept, Disks, Histories
  <1>5. CASE Pu!Crash
    BY <1>5, <1>b DEF Pu!Crash, Pu!Off, Pu!LiveIsKept
  <1>6. CASE Pu!PushSubscribe
    <2>1. PICK t \in push_offered : \/ push_laptop.at = "up" /\ Pu!Add(t)
                                    \/ UNCHANGED <<push_laptop, push_disk, push_history>>
      BY <1>6 DEF Pu!PushSubscribe
    <2>2. CASE push_laptop.at = "up" /\ Pu!Add(t)
      <3>. DEFINE subs == Pu!Without(Pu!Endpoint(t)) \cup {t}
      <3>1. t \in Pu!Subs /\ Newest(t)
        BY DEF PushInv, PushTyped, Known
      <3>2. ASSUME NEW s \in push_history.kept, s \in Pu!service'
            PROVE  s \in subs /\ s \in push_disk.subs
        BY <1>b, <2>2, <3>1, <3>2, OneOfAnEndpoint DEF Pu!Without
      <3>3. t \in subs
        OBVIOUS
      <3>. HIDE DEF subs
      <3>4. Pu!Save(subs, push_history.kept \cup {t})
        BY <2>2 DEF Pu!Add, subs
      <3>5. QED
        BY <1>a, <3>2, <3>3, <3>4, SaveMoves DEF Pu!LiveIsKept
    <2>3. CASE UNCHANGED <<push_laptop, push_disk, push_history>>
      BY <2>3, <1>b DEF Pu!LiveIsKept
    <2>4. QED
      BY <2>1, <2>2, <2>3
  <1>7. CASE Pu!Notify
    BY <1>7, <1>a, <1>b DEF Pu!Notify, Pu!LiveIsKept, Histories
  <1>8. ASSUME NEW r \in Pu!Rounds, Pu!Answered(r)
        PROVE  Pu!LiveIsKept'
    <2>. DEFINE t == push_rounds[r].now
                subs == Pu!Without(Pu!Endpoint(t))
    <2>1. CASE t \notin Pu!service /\ Pu!Save(subs, push_history.kept)
      <3>1. RoundOK(r) /\ push_rounds[r].at = "sent"
        BY <1>8 DEF Pu!Answered, PushInv, RoundsOK
      <3>2. push_laptop.at = "up" /\ t \in push_rounds[r].all
        BY <3>1 DEF RoundOK
      <3>3. t \in Pu!Subs /\ Newest(t)
        BY <3>2, PushFields DEF PushInv, Known
      <3>4. ASSUME NEW s \in push_history.kept, s \in Pu!service'
            PROVE  s \in subs /\ s \in push_disk.subs
        BY <1>b, <2>1, <3>2, <3>3, <3>4, OneOfAnEndpoint DEF Pu!Without
      <3>. HIDE DEF subs
      <3>5. QED
        BY <1>a, <2>1, <3>4, SaveMoves DEF Pu!LiveIsKept
    <2>2. CASE UNCHANGED <<push_laptop, push_disk, push_history>>
      BY <2>2, <1>b DEF Pu!LiveIsKept
    <2>3. push_rounds[r].answer = "gone" => t \notin Pu!service
      BY <1>8 DEF Pu!Answered, PushInv, RoundsOK, RoundOK
    <2>4. QED
      BY <1>8, <2>1, <2>2, <2>3 DEF Pu!Answered, Pu!Remove
  <1>9. CASE UNCHANGED <<push_laptop, push_disk, push_history>>
    BY <1>9, <1>b DEF Pu!LiveIsKept
  <1>10. QED
    BY <1>1, <1>2, <1>3, <1>4, <1>5, <1>6, <1>7, <1>8, <1>9
       DEF Pu!Next, Pu!vars, Pu!OfferPushSubscription, Pu!Unsubscribe, Pu!Send, Pu!SendTooLate

-----------------------------------------------------------------------------
\* The laptop's key, its subscriptions, the browsers' and the rounds are in order at
\* every moment, for any number of phones, alarms, crashes and failed writes.
THEOREM PushInvariant == ASSUME Pu!ConstantsOK PROVE Pu!Spec => []PushInv
  <1>1. Pu!Init => PushInv
    BY PushInit
  <1>2. PushInv /\ [Pu!Next]_Pu!vars => PushInv'
    <2>1. SUFFICES ASSUME PushInv, [Pu!Next]_Pu!vars
                   PROVE  PushInv'
      OBVIOUS
    <2>2. PushTyped' /\ KeysOK' /\ BrowsersOK'
      BY <2>1, PushTypedStep, KeysStep, BrowsersStep
    <2>3. Known' /\ RoundsOK' /\ Pu!LiveIsKept'
      BY <2>1, KnownStep, RoundsStep, LiveStays
    <2>4. QED
      BY <2>2, <2>3 DEF PushInv
  <1>3. QED
    BY <1>1, <1>2, PTL DEF Pu!Spec

\* A phone that can be told of an alarm is: what the laptop said it would keep and the
\* service still knows is in the file and in memory, and a round ends only when everyone
\* in it was told or had their own reason.  (store.go, notifier.go.)
THEOREM AllAreToldHolds == ASSUME Pu!ConstantsOK PROVE Pu!Spec => []Pu!PhonesAreTold
  <1>1. PushInv => Pu!PhonesAreTold
    <2>1. ASSUME PushInv, NEW r \in Pu!Rounds, Pu!Done(r)
          PROVE  push_rounds[r].all \subseteq push_rounds[r].told \cup push_rounds[r].excused
      <3>1. RoundOK(r) /\ push_rounds[r].at = "next" /\ push_rounds[r].todo = {}
        BY <2>1 DEF PushInv, RoundsOK, Pu!Done
      <3>2. QED
        BY <3>1 DEF RoundOK
    <2>2. QED
      BY <2>1 DEF PushInv, Pu!PhonesAreTold, Pu!OneFailureIsNotAll
  <1>2. QED
    BY <1>1, PushInvariant, PTL

-----------------------------------------------------------------------------
(***************************************************************************)
(* Sink.                                                                   *)
(***************************************************************************)
Entry == [line : Nat, missing : Nat]

SinkTyped ==
  /\ sink_queue \in Seq(Nat) /\ Len(sink_queue) <= Depth
  /\ sink_out \in Seq(Entry)
  /\ sink_dropped \in Nat /\ sink_count \in Nat /\ sink_gone \in Nat
  /\ sink_offered \in 0 .. MaxLines /\ sink_adding \in Nat /\ sink_held \in Nat
  /\ sink_pc \in {"waiting", "taken", "saying", "writing", "done"}

\* Where the goroutine that empties the queue is, and what it has in its hands.
HandsOK ==
  /\ sink_held = 0 <=> sink_pc \in {"waiting", "done"}
  /\ sink_count = 0 <=> sink_pc # "saying"
  /\ \A i \in DOMAIN sink_out : (sink_out[i].line = 0) # (sink_out[i].missing = 0)

\* What waits is in the order it came in, behind the line in hand, and that behind every
\* line that was written.
InOrder ==
  /\ \A i \in DOMAIN sink_queue : sink_queue[i] \in 1 .. sink_offered
  /\ \A i, j \in DOMAIN sink_queue : i < j => sink_queue[i] < sink_queue[j]
  /\ sink_held <= sink_offered /\ sink_adding <= sink_offered
  /\ sink_held # 0 => \A i \in DOMAIN sink_queue : sink_held < sink_queue[i]
  /\ \A i \in DOMAIN sink_out :
       /\ sink_out[i].line <= sink_offered
       /\ sink_held # 0 => sink_out[i].line < sink_held
       /\ \A j \in DOMAIN sink_queue : sink_out[i].line < sink_queue[j]
  /\ Sk!LinesInOrder

Waiting == sink_dropped + Sk!One(sink_adding)

\* Two lines are missing only if one was counted and the queue was full after that.
GapIsAhead == Waiting >= 2 => sink_queue # <<>> \/ sink_pc = "taken"

\* A running total of what was written, as UpTo is: what an entry stands for, one after
\* the other.
Value(e) == IF e.line # 0 THEN 1 ELSE e.missing
IsTotal(f, s) ==
  /\ f \in [0 .. Len(s) -> Nat] /\ f[0] = 0
  /\ \A i \in 1 .. Len(s) : f[i] = f[i - 1] + Value(s[i])

Rest == Len(sink_queue) + Sk!One(sink_held) + sink_gone + sink_dropped + sink_count
          + Sk!One(sink_adding)

Accounted == \E f : IsTotal(f, sink_out) /\ sink_offered = f[Len(sink_out)] + Rest

SinkInv == SinkTyped /\ HandsOK /\ InOrder /\ GapIsAhead /\ Accounted

\* One entry more has a running total that goes on from the last.
LEMMA TotalGoesOn ==
  ASSUME NEW s \in Seq(Entry), NEW e \in Entry, NEW f, IsTotal(f, s)
  PROVE  \E g : IsTotal(g, Append(s, e)) /\ g[Len(Append(s, e))] = f[Len(s)] + Value(e)
  <1>. DEFINE n == Len(s)
              g == [i \in 0 .. n + 1 |-> IF i <= n THEN f[i] ELSE f[n] + Value(e)]
  <1>1. /\ n \in Nat /\ Len(Append(s, e)) = n + 1 /\ Append(s, e)[n + 1] = e
        /\ \A i \in 1 .. n : Append(s, e)[i] = s[i]
    OBVIOUS
  <1>2. Value(e) \in Nat
    BY DEF Entry, Value
  <1>3. /\ f \in [0 .. n -> Nat] /\ f[0] = 0
        /\ \A i \in 1 .. n : f[i] = f[i - 1] + Value(s[i])
    BY DEF IsTotal
  <1>. HIDE DEF n
  <1>4. g \in [0 .. n + 1 -> Nat]
    BY <1>1, <1>2, <1>3
  <1>5. g[0] = 0 /\ g[n + 1] = f[n] + Value(e)
    BY <1>1, <1>3
  <1>6. ASSUME NEW i \in 1 .. n + 1 PROVE g[i] = g[i - 1] + Value(Append(s, e)[i])
    <2>1. CASE i <= n
      <3>1. i \in 1 .. n /\ g[i] = f[i] /\ g[i - 1] = f[i - 1]
        BY <1>1, <2>1
      <3>2. QED
        BY <1>1, <1>3, <3>1
    <2>2. CASE i = n + 1
      <3>1. g[i - 1] = f[n]
        BY <1>1, <2>2
      <3>2. QED
        BY <1>1, <1>5, <2>2, <3>1
    <2>3. QED
      BY <1>1, <2>1, <2>2
  <1>7. IsTotal(g, Append(s, e)) /\ g[Len(Append(s, e))] = f[Len(s)] + Value(e)
    BY <1>1, <1>4, <1>5, <1>6 DEF IsTotal, n
  <1>8. QED
    BY <1>7

LEMMA SinkInit == Sk!ConstantsOK /\ Sk!Init => SinkInv
  <1>. SUFFICES ASSUME Sk!ConstantsOK, Sk!Init PROVE SinkInv
    OBVIOUS
  <1>1. /\ sink_queue = <<>> /\ sink_out = <<>> /\ <<>> \in Seq(Nat) /\ <<>> \in Seq(Entry)
        /\ Len(<<>>) = 0
    BY DEF Sk!Init
  <1>0. SinkTyped /\ HandsOK /\ GapIsAhead
    <2>1. SinkTyped
      BY <1>1 DEF Sk!ConstantsOK, Sk!Init, SinkTyped
    <2>2. HandsOK
      BY DEF Sk!Init, HandsOK
    <2>3. GapIsAhead
      BY DEF Sk!Init, GapIsAhead, Waiting, Sk!One
    <2>4. QED
      BY <2>1, <2>2, <2>3
  <1>2. InOrder
    BY DEF Sk!ConstantsOK, Sk!Init, InOrder, Sk!LinesInOrder
  <1>3. IsTotal([i \in 0 .. 0 |-> 0], sink_out)
    BY DEF Sk!Init, IsTotal
  <1>4. sink_offered = [i \in 0 .. 0 |-> 0][Len(sink_out)] + Rest
    BY DEF Sk!Init, Rest, Sk!One
  <1>5. Accounted
    BY <1>3, <1>4 DEF Accounted
  <1>6. QED
    BY <1>0, <1>2, <1>5 DEF SinkInv

LEMMA Appended ==
  ASSUME NEW S, NEW s \in Seq(S), NEW e \in S
  PROVE  /\ Append(s, e) \in Seq(S) /\ Len(Append(s, e)) = Len(s) + 1
         /\ Append(s, e) # <<>> /\ DOMAIN Append(s, e) = 1 .. Len(s) + 1
         /\ \A i \in 1 .. Len(s) + 1 : Append(s, e)[i] = IF i <= Len(s) THEN s[i] ELSE e
  OBVIOUS

LEMMA HeadAndTail ==
  ASSUME NEW S, NEW s \in Seq(S), s # <<>>
  PROVE  /\ Head(s) = s[1] /\ Head(s) \in S /\ 1 \in DOMAIN s
         /\ Tail(s) \in Seq(S) /\ Len(Tail(s)) = Len(s) - 1 /\ Len(s) \in Nat \ {0}
         /\ DOMAIN Tail(s) = 1 .. Len(s) - 1 /\ DOMAIN s = 1 .. Len(s)
         /\ \A i \in 1 .. Len(s) - 1 : Tail(s)[i] = s[i + 1]
  OBVIOUS

\* What a line that is logged does.
LEMMA WriteCases ==
  ASSUME Sk!Write
  PROVE  /\ sink_adding = 0 /\ sink_offered' = sink_offered + 1
         /\ UNCHANGED <<sink_dropped, sink_held, sink_pc, sink_count, sink_out>>
         /\ \/ /\ Len(sink_queue) < Depth
               /\ sink_queue' = Append(sink_queue, sink_offered') /\ UNCHANGED <<sink_adding, sink_gone>>
            \/ sink_gone' = sink_gone + 1 /\ UNCHANGED <<sink_queue, sink_adding>>
            \/ /\ Len(sink_queue) = Depth
               /\ sink_adding' = sink_offered' /\ UNCHANGED <<sink_queue, sink_gone>>
  BY DEF Sk!Write

LEMMA SinkTypedStep ==
  ASSUME Sk!ConstantsOK, SinkTyped, HandsOK, [Sk!Next]_Sk!vars
  PROVE  SinkTyped'
  <1>1. CASE Sk!Write
    <2>1. sink_offered' \in 0 .. MaxLines /\ sink_offered' = sink_offered + 1
      BY <1>1 DEF Sk!Write, SinkTyped, Sk!ConstantsOK
    <2>2. /\ Append(sink_queue, sink_offered') \in Seq(Nat)
          /\ Len(Append(sink_queue, sink_offered')) = Len(sink_queue) + 1
          /\ Len(sink_queue) \in Nat
      BY <2>1, Appended DEF SinkTyped
    <2>3. /\ sink_queue' \in Seq(Nat) /\ Len(sink_queue') <= Depth
          /\ sink_adding' \in Nat /\ sink_gone' \in Nat
      <3>1. sink_offered' \in Nat
        BY <2>1 DEF SinkTyped
      <3>2. /\ Depth \in Nat /\ sink_queue \in Seq(Nat) /\ Len(sink_queue) <= Depth
            /\ sink_gone \in Nat /\ sink_adding \in Nat
        BY DEF SinkTyped, Sk!ConstantsOK
      <3>3. sink_queue' \in Seq(Nat) /\ Len(sink_queue') <= Depth
        <4>1. CASE sink_queue' = sink_queue
          BY <3>2, <4>1
        <4>2. CASE Len(sink_queue) < Depth /\ sink_queue' = Append(sink_queue, sink_offered')
          BY ONLY <2>2, <3>2, <4>2
        <4>3. QED
          BY <1>1, <4>1, <4>2, WriteCases
      <3>4. sink_gone' \in Nat
        BY <1>1, <3>2, WriteCases
      <3>5. sink_adding' \in Nat
        BY <1>1, <3>1, <3>2, WriteCases
      <3>6. QED
        BY <3>3, <3>4, <3>5
    <2>4. QED
      BY <1>1, <2>1, <2>3, WriteCases DEF SinkTyped
  <1>2. CASE Sk!Add
    BY <1>2 DEF Sk!Add, SinkTyped
  <1>3. CASE Sk!Receive
    <2>1. sink_held' \in Nat /\ sink_queue' \in Seq(Nat) /\ Len(sink_queue') <= Depth
      BY <1>3, HeadAndTail DEF Sk!Receive, SinkTyped, Sk!ConstantsOK
    <2>2. QED
      BY <1>3, <2>1 DEF Sk!Receive, SinkTyped
  <1>4. CASE Sk!Collect
    BY <1>4 DEF Sk!Collect, SinkTyped
  <1>5. CASE Sk!Say
    <2>1. Sk!Notice(sink_count) \in Entry
      BY DEF Sk!Notice, Entry, SinkTyped
    <2>2. QED
      <3>1. Append(sink_out, Sk!Notice(sink_count)) \in Seq(Entry)
        BY <2>1, Appended DEF SinkTyped
      <3>a. sink_out \in Seq(Entry) /\ sink_gone \in Nat /\ sink_count \in Nat
        BY DEF SinkTyped
      <3>2. sink_out' \in Seq(Entry)
        BY <1>5, <3>1, <3>a DEF Sk!Say
      <3>b. sink_gone' \in Nat
        BY <1>5, <3>a DEF Sk!Say
      <3>3. QED
        BY <1>5, <3>2, <3>b DEF Sk!Say, SinkTyped
  <1>6. CASE Sk!Put
    <2>1. Sk!Line(sink_held) \in Entry
      BY DEF Sk!Line, Entry, SinkTyped
    <2>2. QED
      <3>1. Append(sink_out, Sk!Line(sink_held)) \in Seq(Entry)
        BY <2>1, Appended DEF SinkTyped
      <3>a. sink_out \in Seq(Entry) /\ sink_gone \in Nat
        BY DEF SinkTyped
      <3>2. sink_out' \in Seq(Entry)
        BY <1>6, <3>1, <3>a DEF Sk!Put
      <3>b. sink_gone' \in Nat
        BY <1>6, <3>a DEF Sk!Put
      <3>3. QED
        BY <1>6, <3>2, <3>b DEF Sk!Put, SinkTyped
  <1>7. CASE Sk!Close \/ Sk!Return \/ UNCHANGED Sk!vars
    BY <1>7 DEF Sk!Close, Sk!Return, Sk!vars, SinkTyped
  <1>8. QED
    BY <1>1, <1>2, <1>3, <1>4, <1>5, <1>6, <1>7 DEF Sk!Next

LEMMA HandsStep ==
  ASSUME Sk!ConstantsOK, SinkTyped, HandsOK, InOrder, [Sk!Next]_Sk!vars
  PROVE  HandsOK'
  <1>1. CASE Sk!Write \/ Sk!Add \/ Sk!Close \/ Sk!Return \/ UNCHANGED Sk!vars
    BY <1>1 DEF Sk!Write, Sk!Add, Sk!Close, Sk!Return, Sk!vars, HandsOK
  <1>2. CASE Sk!Receive
    <2>1. 1 \in DOMAIN sink_queue /\ Head(sink_queue) = sink_queue[1]
      BY <1>2 DEF Sk!Receive, SinkTyped
    <2>2. sink_held' # 0
      BY <1>2, <2>1 DEF Sk!Receive, InOrder
    <2>3. QED
      BY <1>2, <2>2 DEF Sk!Receive, HandsOK
  <1>3. CASE Sk!Collect
    <2>1. sink_dropped \in Nat /\ sink_pc' = (IF sink_dropped > 0 THEN "saying" ELSE "writing")
      BY <1>3 DEF Sk!Collect, SinkTyped
    <2>2. QED
      BY <1>3, <2>1 DEF Sk!Collect, HandsOK
  <1>4. CASE Sk!Say
    <2>1. /\ Sk!Notice(sink_count) \in Entry /\ Sk!Notice(sink_count).line = 0
          /\ Sk!Notice(sink_count).missing # 0
      BY <1>4 DEF Sk!Say, Sk!Notice, Entry, SinkTyped, HandsOK
    <2>2. \A i \in DOMAIN sink_out' : (sink_out'[i].line = 0) # (sink_out'[i].missing = 0)
      <3>1. CASE sink_out' = sink_out
        BY <3>1 DEF HandsOK
      <3>2. CASE sink_out' = Append(sink_out, Sk!Notice(sink_count))
        BY <2>1, <3>2, Appended DEF HandsOK, SinkTyped
      <3>3. QED
        BY <1>4, <3>1, <3>2 DEF Sk!Say
    <2>3. QED
      BY <1>4, <2>2 DEF Sk!Say, HandsOK
  <1>5. CASE Sk!Put
    <2>1. /\ Sk!Line(sink_held) \in Entry /\ Sk!Line(sink_held).line # 0
          /\ Sk!Line(sink_held).missing = 0
      BY <1>5 DEF Sk!Put, Sk!Line, Entry, SinkTyped, HandsOK
    <2>2. \A i \in DOMAIN sink_out' : (sink_out'[i].line = 0) # (sink_out'[i].missing = 0)
      <3>1. CASE sink_out' = sink_out
        BY <3>1 DEF HandsOK
      <3>2. CASE sink_out' = Append(sink_out, Sk!Line(sink_held))
        BY <2>1, <3>2, Appended DEF HandsOK, SinkTyped
      <3>3. QED
        BY <1>5, <3>1, <3>2 DEF Sk!Put
    <2>3. QED
      BY <1>5, <2>2 DEF Sk!Put, HandsOK
  <1>6. QED
    BY <1>1, <1>2, <1>3, <1>4, <1>5 DEF Sk!Next

LEMMA LineNumbers == ASSUME SinkTyped PROVE \A i \in DOMAIN sink_out : sink_out[i].line \in Nat
  <1>1. \A i \in DOMAIN sink_out : sink_out[i] \in Entry
    BY DEF SinkTyped
  <1>2. QED
    BY <1>1 DEF Entry

\* Both kinds of entry, in the order they are written.
LEMMA EntryInOrder ==
  ASSUME SinkTyped, HandsOK, InOrder, sink_held # 0,
         sink_queue' = sink_queue, sink_offered' = sink_offered, sink_adding' = sink_adding,
         NEW e \in Entry, sink_out' = Append(sink_out, e), e.line \in {0, sink_held},
         e.line = 0 => sink_held' = sink_held, e.line # 0 => sink_held' = 0
  PROVE  InOrder'
  <1>1. /\ DOMAIN sink_out' = 1 .. Len(sink_out) + 1 /\ Len(sink_out) \in Nat
        /\ DOMAIN sink_out = 1 .. Len(sink_out)
        /\ \A i \in 1 .. Len(sink_out) + 1 :
             sink_out'[i] = IF i <= Len(sink_out) THEN sink_out[i] ELSE e
    BY Appended DEF SinkTyped
  <1>2. \A i \in DOMAIN sink_out' :
          \/ sink_out'[i] = sink_out[i] /\ i \in DOMAIN sink_out
          \/ sink_out'[i] = e /\ i = Len(sink_out) + 1
    <2>1. SUFFICES ASSUME NEW i \in DOMAIN sink_out'
                   PROVE  \/ sink_out'[i] = sink_out[i] /\ i \in DOMAIN sink_out
                          \/ sink_out'[i] = e /\ i = Len(sink_out) + 1
      OBVIOUS
    <2>2. CASE i <= Len(sink_out)
      BY <1>1, <2>2
    <2>3. CASE ~(i <= Len(sink_out))
      BY <1>1, <2>3
    <2>4. QED
      BY <2>2, <2>3
  <1>3. /\ sink_held \in Nat \ {0} /\ sink_offered \in Nat
        /\ \A i \in DOMAIN sink_out : sink_out[i].line \in Nat
    BY LineNumbers DEF SinkTyped
  <1>4. \A i \in DOMAIN sink_out : sink_out[i].line < sink_held
    BY <1>3 DEF InOrder
  <1>5. Sk!LinesInOrder'
    <2>1. SUFFICES ASSUME NEW i \in DOMAIN sink_out', NEW j \in DOMAIN sink_out', i < j,
                          sink_out'[i].line # 0, sink_out'[j].line # 0
                   PROVE  sink_out'[i].line < sink_out'[j].line
      BY DEF Sk!LinesInOrder
    <2>2. i \in DOMAIN sink_out /\ sink_out'[i] = sink_out[i]
      BY <1>1, <2>1
    <2>3. CASE sink_out'[j] = e
      <3>1. sink_out'[j].line = sink_held
        BY <2>1, <2>3
      <3>2. QED
        BY <1>4, <2>2, <3>1
    <2>4. CASE sink_out'[j] = sink_out[j] /\ j \in DOMAIN sink_out
      BY <2>1, <2>2, <2>4 DEF InOrder, Sk!LinesInOrder
    <2>5. QED
      BY <1>2, <2>3, <2>4
  <1>6. ASSUME NEW i \in DOMAIN sink_out'
        PROVE  /\ sink_out'[i].line <= sink_offered
               /\ sink_held' # 0 => sink_out'[i].line < sink_held'
               /\ \A j \in DOMAIN sink_queue : sink_out'[i].line < sink_queue[j]
    <2>1. CASE sink_out'[i] = sink_out[i] /\ i \in DOMAIN sink_out
      BY <1>3, <1>4, <2>1 DEF InOrder
    <2>2. CASE sink_out'[i] = e
      <3>1. e.line <= sink_offered /\ (sink_held' # 0 => e.line < sink_held')
        BY <1>3 DEF InOrder
      <3>2. \A j \in DOMAIN sink_queue : e.line < sink_queue[j]
        BY <1>3 DEF InOrder
      <3>3. QED
        BY <2>2, <3>1, <3>2
    <2>3. QED
      BY <1>2, <2>1, <2>2
  <1>7. sink_held' <= sink_offered /\ (sink_held' # 0 => \A i \in DOMAIN sink_queue : sink_held' < sink_queue[i])
    BY <1>3 DEF InOrder
  <1>8. QED
    BY <1>5, <1>6, <1>7 DEF InOrder

LEMMA InOrderStep ==
  ASSUME Sk!ConstantsOK, SinkTyped, HandsOK, InOrder, [Sk!Next]_Sk!vars
  PROVE  InOrder'
  <1>1. CASE Sk!Write
    <2>1. /\ sink_queue \in Seq(Nat) /\ sink_offered \in Nat /\ sink_offered' = sink_offered + 1
          /\ sink_held \in Nat /\ sink_adding \in Nat
          /\ sink_held' = sink_held /\ sink_out' = sink_out
      BY <1>1, WriteCases DEF SinkTyped
    <2>a. \A i \in DOMAIN sink_out : sink_out[i].line \in Nat
      BY LineNumbers
    <2>2. sink_adding' <= sink_offered'
      BY <1>1, <2>1, WriteCases DEF InOrder
    <2>3. \/ sink_queue' = sink_queue \/ sink_queue' = Append(sink_queue, sink_offered + 1)
      BY <1>1, WriteCases
    <2>4. CASE sink_queue' = sink_queue
      BY <2>1, <2>a, <2>2, <2>4 DEF InOrder, Sk!LinesInOrder
    <2>5. CASE sink_queue' = Append(sink_queue, sink_offered + 1)
      <3>1. /\ DOMAIN sink_queue' = 1 .. Len(sink_queue) + 1 /\ Len(sink_queue) \in Nat
            /\ DOMAIN sink_queue = 1 .. Len(sink_queue)
            /\ \A i \in 1 .. Len(sink_queue) + 1 :
                 sink_queue'[i] = IF i <= Len(sink_queue) THEN sink_queue[i] ELSE sink_offered + 1
        BY <2>1, <2>5, Appended
      <3>2. \A i \in DOMAIN sink_queue' : sink_queue'[i] \in 1 .. sink_offered'
        BY <2>1, <3>1 DEF InOrder
      <3>3. \A i, j \in DOMAIN sink_queue' : i < j => sink_queue'[i] < sink_queue'[j]
        BY <2>1, <3>1 DEF InOrder
      <3>4. sink_held' # 0 => \A i \in DOMAIN sink_queue' : sink_held' < sink_queue'[i]
        BY <2>1, <3>1 DEF InOrder
      <3>5. \A i \in DOMAIN sink_out' :
              /\ sink_out'[i].line <= sink_offered'
              /\ sink_held' # 0 => sink_out'[i].line < sink_held'
              /\ \A j \in DOMAIN sink_queue' : sink_out'[i].line < sink_queue'[j]
        BY <2>1, <2>a, <3>1 DEF InOrder
      <3>6. sink_held' <= sink_offered' /\ Sk!LinesInOrder'
        BY <2>1 DEF InOrder, Sk!LinesInOrder
      <3>7. QED
        BY <2>2, <3>2, <3>3, <3>4, <3>5, <3>6 DEF InOrder
    <2>6. QED
      BY <2>3, <2>4, <2>5
  <1>2. CASE Sk!Add \/ Sk!Collect \/ Sk!Close \/ Sk!Return \/ UNCHANGED Sk!vars
    BY <1>2 DEF Sk!Add, Sk!Collect, Sk!Close, Sk!Return, Sk!vars, InOrder, Sk!LinesInOrder,
                SinkTyped
  <1>3. CASE Sk!Receive
    <2>1. /\ sink_held' = sink_queue[1] /\ 1 \in DOMAIN sink_queue
          /\ DOMAIN sink_queue' = 1 .. Len(sink_queue) - 1
          /\ DOMAIN sink_queue = 1 .. Len(sink_queue) /\ Len(sink_queue) \in Nat
          /\ \A i \in 1 .. Len(sink_queue) - 1 : sink_queue'[i] = sink_queue[i + 1]
      BY <1>3, HeadAndTail DEF Sk!Receive, SinkTyped
    <2>2. /\ sink_offered' = sink_offered /\ sink_adding' = sink_adding /\ sink_out' = sink_out
          /\ sink_offered \in Nat
      BY <1>3 DEF Sk!Receive, SinkTyped
    <2>3. \A i \in DOMAIN sink_queue' : i + 1 \in DOMAIN sink_queue /\ 1 < i + 1
      BY <2>1
    <2>4. /\ \A i \in DOMAIN sink_queue' : sink_queue'[i] \in 1 .. sink_offered'
          /\ sink_held' \in 1 .. sink_offered'
      BY <2>1, <2>2, <2>3 DEF InOrder
    <2>5. /\ \A i, j \in DOMAIN sink_queue' : i < j => sink_queue'[i] < sink_queue'[j]
          /\ \A i \in DOMAIN sink_queue' : sink_held' < sink_queue'[i]
      BY SMTT(30), <2>1, <2>3 DEF InOrder
    <2>6. \A i \in DOMAIN sink_out' :
            /\ sink_out'[i].line <= sink_offered'
            /\ sink_out'[i].line < sink_held'
            /\ \A j \in DOMAIN sink_queue' : sink_out'[i].line < sink_queue'[j]
      BY <2>1, <2>2, <2>3 DEF InOrder
    <2>7. Sk!LinesInOrder' /\ sink_adding' <= sink_offered'
      BY <2>2 DEF InOrder, Sk!LinesInOrder
    <2>8. QED
      BY <2>4, <2>5, <2>6, <2>7 DEF InOrder
  <1>4. CASE Sk!Say
    <2>1. /\ sink_queue' = sink_queue /\ sink_offered' = sink_offered
          /\ sink_adding' = sink_adding /\ sink_held' = sink_held
          /\ sink_held \in Nat \ {0} /\ sink_offered \in Nat
      BY <1>4 DEF Sk!Say, SinkTyped, HandsOK
    <2>2. CASE sink_out' = sink_out
      BY <2>1, <2>2 DEF InOrder, Sk!LinesInOrder
    <2>3. CASE sink_out' = Append(sink_out, Sk!Notice(sink_count))
      <3>1. Sk!Notice(sink_count) \in Entry /\ Sk!Notice(sink_count).line = 0
        BY DEF Sk!Notice, Entry, SinkTyped
      <3>2. sink_held # 0 /\ sink_held' = sink_held
        BY <2>1
      <3>3. QED
        BY <2>1, <2>3, <3>1, <3>2, EntryInOrder
    <2>4. QED
      BY <1>4, <2>2, <2>3 DEF Sk!Say
  <1>5. CASE Sk!Put
    <2>1. /\ sink_queue' = sink_queue /\ sink_offered' = sink_offered
          /\ sink_adding' = sink_adding /\ sink_held' = 0
          /\ sink_held \in Nat \ {0} /\ sink_offered \in Nat
      BY <1>5 DEF Sk!Put, SinkTyped, HandsOK
    <2>2. CASE sink_out' = sink_out
      BY <2>1, <2>2 DEF InOrder, Sk!LinesInOrder
    <2>3. CASE sink_out' = Append(sink_out, Sk!Line(sink_held))
      <3>1. Sk!Line(sink_held) \in Entry /\ Sk!Line(sink_held).line = sink_held
        BY <2>1 DEF Sk!Line, Entry
      <3>2. QED
        BY <2>1, <2>3, <3>1, EntryInOrder
    <2>4. QED
      BY <1>5, <2>2, <2>3 DEF Sk!Put
  <1>6. QED
    BY <1>1, <1>2, <1>3, <1>4, <1>5 DEF Sk!Next

LEMMA GapStep ==
  ASSUME Sk!ConstantsOK, SinkTyped, HandsOK, GapIsAhead, [Sk!Next]_Sk!vars
  PROVE  GapIsAhead'
  <1>1. CASE Sk!Write
    BY <1>1 DEF Sk!Write, SinkTyped, GapIsAhead, Waiting, Sk!One, Sk!ConstantsOK
  <1>2. CASE Sk!Add \/ Sk!Collect
    BY <1>2 DEF Sk!Add, Sk!Collect, SinkTyped, GapIsAhead, Waiting, Sk!One
  <1>3. CASE Sk!Receive \/ Sk!Say \/ Sk!Put \/ Sk!Close \/ Sk!Return \/ UNCHANGED Sk!vars
    BY <1>3 DEF Sk!Receive, Sk!Say, Sk!Put, Sk!Close, Sk!Return, Sk!vars, GapIsAhead,
                Waiting, Sk!One
  <1>4. QED
    BY <1>1, <1>2, <1>3 DEF Sk!Next

LEMMA RestTyped ==
  ASSUME SinkTyped
  PROVE  /\ Len(sink_queue) \in Nat /\ sink_gone \in Nat /\ sink_dropped \in Nat
         /\ sink_count \in Nat /\ Sk!One(sink_held) \in Nat /\ Sk!One(sink_adding) \in Nat
         /\ sink_offered \in Nat /\ Rest \in Nat
  <1>1. /\ Len(sink_queue) \in Nat /\ sink_gone \in Nat /\ sink_dropped \in Nat
        /\ sink_count \in Nat /\ sink_offered \in Nat
    BY DEF SinkTyped
  <1>2. Sk!One(sink_held) \in Nat /\ Sk!One(sink_adding) \in Nat
    BY DEF Sk!One
  <1>3. \A a, b, c, d, e, f \in Nat : a + b + c + d + e + f \in Nat
    OBVIOUS
  <1>4. Rest \in Nat
    BY ONLY <1>1, <1>2, <1>3 DEF Rest
  <1>5. QED
    BY <1>1, <1>2, <1>4

LEMMA AccountedStep ==
  ASSUME Sk!ConstantsOK, SinkTyped, HandsOK, InOrder, Accounted, [Sk!Next]_Sk!vars
  PROVE  Accounted'
  <1>1. PICK f : IsTotal(f, sink_out) /\ sink_offered = f[Len(sink_out)] + Rest
    BY DEF Accounted
  <1>2. f[Len(sink_out)] \in Nat /\ sink_out \in Seq(Entry)
    BY SMTT(30), <1>1 DEF IsTotal, SinkTyped
  <1>3. ASSUME sink_out' = sink_out, sink_offered' - Rest' = sink_offered - Rest,
               Rest' \in Nat, Rest \in Nat, sink_offered' \in Nat
        PROVE  Accounted'
    <2>1. sink_offered' = f[Len(sink_out)] + Rest'
      BY SMTT(30), <1>1, <1>2, <1>3 DEF SinkTyped
    <2>2. QED
      BY <1>1, <1>3, <2>1 DEF Accounted
  <1>4. ASSUME NEW e \in Entry, sink_out' = Append(sink_out, e),
               sink_offered' = sink_offered, Rest' + Value(e) = Rest, Rest' \in Nat, Rest \in Nat
        PROVE  Accounted'
    <2>1. PICK g : IsTotal(g, sink_out') /\ g[Len(sink_out')] = f[Len(sink_out)] + Value(e)
      BY <1>1, <1>2, <1>4, TotalGoesOn
    <2>2. Value(e) \in Nat
      BY DEF Entry, Value
    <2>3. sink_offered' = g[Len(sink_out')] + Rest'
      BY <1>1, <1>2, <1>4, <2>1, <2>2
    <2>4. QED
      BY <2>1, <2>3 DEF Accounted
  <1>5. Rest \in Nat /\ Rest' \in Nat /\ sink_offered' \in Nat /\ sink_offered \in Nat
    <2>1. SinkTyped'
      BY SinkTypedStep
    <2>2. QED
      <3>1. /\ Len(sink_queue') \in Nat /\ sink_gone' \in Nat /\ sink_dropped' \in Nat
            /\ sink_count' \in Nat /\ sink_offered' \in Nat
        BY <2>1 DEF SinkTyped
      <3>2. Sk!One(sink_held)' \in Nat /\ Sk!One(sink_adding)' \in Nat
        BY DEF Sk!One
      <3>3. QED
        <4>1. Rest' \in Nat
          BY <3>1, <3>2 DEF Rest
        <4>2. QED
          BY <3>1, <4>1, RestTyped
  <1>6. CASE Sk!Write
    <2>1. sink_offered' - Rest' = sink_offered - Rest
      <3>1. /\ Len(sink_queue) \in Nat /\ Len(Append(sink_queue, sink_offered')) = Len(sink_queue) + 1
            /\ sink_offered' \in Nat \ {0}
        BY <1>5, <1>6, WriteCases, Appended DEF SinkTyped
      <3>2. QED
        <4>1. /\ UNCHANGED <<sink_dropped, sink_held, sink_count>>
              /\ Sk!One(sink_adding) = 0 /\ Sk!One(sink_held)' = Sk!One(sink_held)
          BY <1>6, WriteCases DEF Sk!One
        <4>2. \/ /\ Len(sink_queue') = Len(sink_queue) + 1 /\ sink_gone' = sink_gone
                 /\ Sk!One(sink_adding)' = 0
              \/ /\ Len(sink_queue') = Len(sink_queue) /\ sink_gone' = sink_gone + 1
                 /\ Sk!One(sink_adding)' = 0
              \/ /\ Len(sink_queue') = Len(sink_queue) /\ sink_gone' = sink_gone
                 /\ Sk!One(sink_adding)' = 1
          BY <1>6, <3>1, WriteCases DEF Sk!One
        <4>3. Rest = Len(sink_queue) + Sk!One(sink_held) + sink_gone + sink_dropped + sink_count + 0
          BY <4>1 DEF Rest
        <4>4. Rest' = Rest + 1
          <5>a. /\ Len(sink_queue) \in Nat /\ Sk!One(sink_held) \in Nat /\ sink_gone \in Nat
                /\ sink_dropped \in Nat /\ sink_count \in Nat
            BY RestTyped
          <5>1. CASE Len(sink_queue') = Len(sink_queue) + 1 /\ sink_gone' = sink_gone
                     /\ Sk!One(sink_adding)' = 0
            <6>1. Rest' = (Len(sink_queue) + 1) + Sk!One(sink_held) + sink_gone + sink_dropped + sink_count + 0
              BY <4>1, <5>1 DEF Rest
            <6>2. \A n, m, a, b, c \in Nat : (n + 1) + m + a + b + c + 0 = (n + m + a + b + c + 0) + 1
              OBVIOUS
            <6>3. QED
              BY ONLY SMTT(30), <4>3, <5>a, <6>1, <6>2
          <5>2. CASE Len(sink_queue') = Len(sink_queue) /\ sink_gone' = sink_gone + 1
                     /\ Sk!One(sink_adding)' = 0
            <6>1. Rest' = Len(sink_queue) + Sk!One(sink_held) + (sink_gone + 1) + sink_dropped + sink_count + 0
              BY <4>1, <5>2 DEF Rest
            <6>2. \A n, m, a, b, c \in Nat : n + m + (a + 1) + b + c + 0 = (n + m + a + b + c + 0) + 1
              OBVIOUS
            <6>3. QED
              BY ONLY SMTT(30), <4>3, <5>a, <6>1, <6>2
          <5>3. CASE Len(sink_queue') = Len(sink_queue) /\ sink_gone' = sink_gone
                     /\ Sk!One(sink_adding)' = 1
            <6>1. Rest' = Len(sink_queue) + Sk!One(sink_held) + sink_gone + sink_dropped + sink_count + 1
              BY <4>1, <5>3 DEF Rest
            <6>2. \A n, m, a, b, c \in Nat : n + m + a + b + c + 1 = (n + m + a + b + c + 0) + 1
              OBVIOUS
            <6>3. QED
              BY ONLY SMTT(30), <4>3, <5>a, <6>1, <6>2
          <5>4. QED
            BY <4>2, <5>1, <5>2, <5>3
        <4>5. QED
          BY <1>5, <1>6, <4>4, WriteCases
    <2>2. sink_out' = sink_out
      BY <1>6, WriteCases
    <2>3. QED
      BY <1>3, <1>5, <2>1, <2>2
  <1>7. CASE Sk!Add
    <2>1. Rest' = Rest
      <3>1. /\ UNCHANGED <<sink_queue, sink_held, sink_gone, sink_count>>
            /\ sink_dropped' = sink_dropped + 1
            /\ Sk!One(sink_adding) = 1 /\ Sk!One(sink_adding)' = 0
            /\ Sk!One(sink_held)' = Sk!One(sink_held)
        BY <1>7 DEF Sk!Add, Sk!One
      <3>2. Rest = Len(sink_queue) + Sk!One(sink_held) + sink_gone + sink_dropped + sink_count + 1
        BY <3>1 DEF Rest
      <3>3. Rest' = Len(sink_queue) + Sk!One(sink_held) + sink_gone + (sink_dropped + 1) + sink_count + 0
        BY <3>1 DEF Rest
      <3>4. QED
        BY <3>2, <3>3, RestTyped
    <2>2. sink_offered' - Rest' = sink_offered - Rest
      BY <1>7, <2>1 DEF Sk!Add
    <2>3. QED
      BY <1>3, <1>5, <1>7, <2>2 DEF Sk!Add
  <1>8. CASE Sk!Receive
    <2>1. 1 \in DOMAIN sink_queue /\ Head(sink_queue) = sink_queue[1]
      BY <1>8 DEF Sk!Receive, SinkTyped
    <2>2. sink_held' # 0 /\ sink_held = 0 /\ Len(sink_queue') = Len(sink_queue) - 1
      BY <1>8, <2>1 DEF Sk!Receive, InOrder, HandsOK, SinkTyped
    <2>3. Rest' = Rest
      BY <1>8, <2>2, RestTyped DEF Sk!Receive, Rest, Sk!One
    <2>4. QED
      BY <1>3, <1>5, <1>8, <2>3 DEF Sk!Receive
  <1>9. CASE Sk!Collect
    <2>1. Rest' = Rest
      BY <1>9 DEF Sk!Collect, Rest, Sk!One, SinkTyped, HandsOK
    <2>2. QED
      BY <1>3, <1>5, <1>9, <2>1 DEF Sk!Collect
  <1>10. CASE Sk!Say
    <2>1. CASE sink_gone' = sink_gone + sink_count /\ UNCHANGED sink_out
      <3>1. Rest' = Rest
        BY <1>10, <2>1, RestTyped DEF Sk!Say, Rest
      <3>2. QED
        BY <1>3, <1>5, <1>10, <2>1, <3>1 DEF Sk!Say
    <2>2. CASE sink_out' = Append(sink_out, Sk!Notice(sink_count)) /\ UNCHANGED sink_gone
      <3>1. Sk!Notice(sink_count) \in Entry /\ Value(Sk!Notice(sink_count)) = sink_count
        BY DEF Sk!Notice, Entry, Value, SinkTyped
      <3>2. Rest' + sink_count = Rest
        BY <1>10, <2>2, RestTyped DEF Sk!Say, Rest
      <3>3. QED
        BY <1>4, <1>5, <1>10, <2>2, <3>1, <3>2 DEF Sk!Say
    <2>3. QED
      BY <1>10, <2>1, <2>2 DEF Sk!Say
  <1>11. CASE Sk!Put
    <2>1. sink_held # 0
      BY <1>11 DEF Sk!Put, HandsOK
    <2>2. CASE sink_gone' = sink_gone + 1 /\ UNCHANGED sink_out
      <3>1. Rest' = Rest
        BY <1>11, <2>1, <2>2, RestTyped DEF Sk!Put, Rest, Sk!One
      <3>2. QED
        BY <1>3, <1>5, <1>11, <2>2, <3>1 DEF Sk!Put
    <2>3. CASE sink_out' = Append(sink_out, Sk!Line(sink_held)) /\ UNCHANGED sink_gone
      <3>1. Sk!Line(sink_held) \in Entry /\ Value(Sk!Line(sink_held)) = 1
        BY <2>1 DEF Sk!Line, Entry, Value, SinkTyped
      <3>2. Rest' + 1 = Rest
        BY <1>11, <2>1, <2>3, RestTyped DEF Sk!Put, Rest, Sk!One
      <3>3. QED
        BY <1>4, <1>5, <1>11, <2>3, <3>1, <3>2 DEF Sk!Put
    <2>4. QED
      BY <1>11, <2>2, <2>3 DEF Sk!Put
  <1>12. CASE Sk!Close \/ Sk!Return \/ UNCHANGED Sk!vars
    <2>1. Rest' = Rest /\ sink_out' = sink_out /\ sink_offered' = sink_offered
      BY <1>12 DEF Sk!Close, Sk!Return, Sk!vars, Rest, Sk!One
    <2>2. QED
      BY <1>3, <1>5, <2>1
  <1>13. QED
    BY <1>6, <1>7, <1>8, <1>9, <1>10, <1>11, <1>12 DEF Sk!Next

LEMMA SinkStep == ASSUME Sk!ConstantsOK, SinkInv, [Sk!Next]_Sk!vars PROVE SinkInv'
  BY SinkTypedStep, HandsStep, InOrderStep, GapStep, AccountedStep DEF SinkInv

\* Every line offered to the sink is in one place, and those in the queue and in the hand
\* keep their order: at every moment, for a queue of any length and any file errors.
THEOREM SinkInvariant == ASSUME Sk!ConstantsOK PROVE Sk!Spec => []SinkInv
  <1>1. SinkInv /\ [Sk!Next]_Sk!vars => SinkInv'
    BY SinkStep
  <1>2. QED
    BY <1>1, SinkInit, PTL DEF Sk!Spec

\* There is one running total: two of them that differ would do so first somewhere.
LEMMA TotalIsUnique ==
  ASSUME NEW s, Len(s) \in Nat, NEW f, NEW g, f[0] = g[0],
         \A i \in 1 .. Len(s) : f[i] = f[i - 1] + Value(s[i]),
         \A i \in 1 .. Len(s) : g[i] = g[i - 1] + Value(s[i])
  PROVE  \A i \in 0 .. Len(s) : f[i] = g[i]
  <1>. DEFINE Bad == {i \in 0 .. Len(s) : f[i] # g[i]}
  <1>1. SUFFICES ASSUME Bad # {} PROVE FALSE
    OBVIOUS
  <1>2. PICK i \in Bad : \A j \in Bad : ~(<<j, i>> \in OpToRel(<, Nat))
    <2>1. Bad \subseteq Nat
      OBVIOUS
    <2>. HIDE DEF Bad
    <2>2. QED
      BY <1>1, <2>1, NatLessThanWellFounded, WFMin
  <1>3. i # 0
    <2>1. i \in 0 .. Len(s) /\ f[i] # g[i]
      BY <1>2
    <2>2. QED
      BY <2>1
  <1>4. i - 1 \in 0 .. Len(s) /\ i - 1 < i /\ i \in 1 .. Len(s)
    <2>1. i \in 0 .. Len(s)
      BY <1>2
    <2>2. QED
      BY <1>3, <2>1
  <1>5. <<i - 1, i>> \in OpToRel(<, Nat)
    BY <1>4 DEF OpToRel
  <1>6. f[i - 1] = g[i - 1]
    BY <1>2, <1>4, <1>5
  <1>7. f[i] = g[i]
    BY <1>4, <1>6
  <1>8. QED
    BY <1>2, <1>7

\* What is written adds up as UpTo says.
LEMMA UpToIsTotal ==
  ASSUME SinkTyped, NEW f, IsTotal(f, sink_out) PROVE Sk!UpTo[Len(sink_out)] = f[Len(sink_out)]
  <1>. DEFINE Sums(g) == [i \in 0 .. Len(sink_out) |->
                IF i = 0 THEN 0
                ELSE g[i - 1] + (IF sink_out[i].line # 0 THEN 1 ELSE sink_out[i].missing)]
  <1>1. f = Sums(f)
    BY DEF IsTotal, Value
  <1>2. Sk!UpTo = CHOOSE g : g = Sums(g)
    BY DEF Sk!UpTo
  <1>3. \E g : g = Sums(g)
    BY <1>1
  <1>. HIDE DEF Sums
  <1>4. Sk!UpTo = Sums(Sk!UpTo)
    BY <1>2, <1>3, Zenon
  <1>5. /\ Sk!UpTo[0] = 0
        /\ \A i \in 1 .. Len(sink_out) : Sk!UpTo[i] = Sk!UpTo[i - 1] + Value(sink_out[i])
    <2>1. Len(sink_out) \in Nat
      BY DEF SinkTyped
    <2>. HIDE DEF Sk!UpTo
    <2>2. \A i \in 0 .. Len(sink_out) : Sk!UpTo[i] = Sums(Sk!UpTo)[i]
      BY <1>4
    <2>3. QED
      BY <2>1, <2>2 DEF Sums, Value
  <1>6. QED
    <2>1. /\ Len(sink_out) \in Nat /\ f[0] = 0
          /\ \A i \in 1 .. Len(sink_out) : f[i] = f[i - 1] + Value(sink_out[i])
      BY DEF SinkTyped, IsTotal
    <2>2. \A i \in 0 .. Len(sink_out) : Sk!UpTo[i] = f[i]
      BY <1>5, <2>1, TotalIsUnique
    <2>3. QED
      BY <2>1, <2>2

\* What the log does not hold is known to be missing: for a queue of any depth and any
\* number of lines, every line that was logged is written, on its way, or counted among
\* those that are said to be missing, lines come out in order, and a queue that has been
\* emptied keeps one missing line to itself at most.  (Write, run.)
THEOREM LinesAreAccountedHolds == ASSUME Sk!ConstantsOK PROVE Sk!Spec => []Sk!LogIsHonest
  <1>1. SinkInv => Sk!LogIsHonest
    <2>1. SUFFICES ASSUME SinkInv PROVE Sk!LogIsHonest
      OBVIOUS
    <2>2. Sk!EveryLineIsAccounted
      <3>1. PICK f : IsTotal(f, sink_out) /\ sink_offered = f[Len(sink_out)] + Rest
        BY <2>1 DEF SinkInv, Accounted
      <3>2. Sk!UpTo[Len(sink_out)] = f[Len(sink_out)]
        BY <2>1, <3>1, UpToIsTotal DEF SinkInv
      <3>4. SinkTyped
        BY <2>1 DEF SinkInv
      <3>3. f[Len(sink_out)] \in Nat
        <4>1. Len(sink_out) \in 0 .. Len(sink_out)
          BY <3>4 DEF SinkTyped
        <4>2. QED
          BY <3>1, <4>1 DEF IsTotal
      <3>. HIDE DEF Sk!UpTo
      <3>5. sink_offered = f[Len(sink_out)] + (Len(sink_queue) + Sk!One(sink_held) + sink_gone
                             + sink_dropped + sink_count + Sk!One(sink_adding))
        BY <3>1 DEF Rest
      <3>6. ASSUME NEW n \in Nat, NEW a \in Nat, NEW b \in Nat, NEW c \in Nat, NEW d \in Nat,
                   NEW e \in Nat, NEW g \in Nat
            PROVE  n + (a + b + c + d + e + g) = n + a + b + c + d + e + g
        OBVIOUS
      <3>7. sink_offered = f[Len(sink_out)] + Len(sink_queue) + Sk!One(sink_held) + sink_gone
                             + sink_dropped + sink_count + Sk!One(sink_adding)
        <4>. DEFINE n == f[Len(sink_out)]
                    a == Len(sink_queue)
                    b == Sk!One(sink_held)
                    g == Sk!One(sink_adding)
        <4>1. /\ n \in Nat /\ a \in Nat /\ b \in Nat /\ sink_gone \in Nat /\ sink_dropped \in Nat
              /\ sink_count \in Nat /\ g \in Nat
              /\ sink_offered = n + (a + b + sink_gone + sink_dropped + sink_count + g)
          BY <3>3, <3>4, <3>5, RestTyped
        <4>. HIDE DEF n, a, b, g
        <4>2. sink_offered = n + a + b + sink_gone + sink_dropped + sink_count + g
          BY <4>1, <3>6
        <4>3. QED
          BY <4>2 DEF n, a, b, g
      <3>8. QED
        BY <3>2, <3>7 DEF Sk!EveryLineIsAccounted
    <2>3. Sk!LinesInOrder
      BY <2>1 DEF SinkInv, InOrder
    <2>4. Sk!GapsAreSaid
      <3>1. /\ sink_dropped \in Nat /\ Sk!One(sink_adding) \in Nat
            /\ (Waiting >= 2 => sink_queue # <<>> \/ sink_pc = "taken")
        BY <2>1, RestTyped DEF SinkInv, GapIsAhead
      <3>2. QED
        BY <3>1 DEF Sk!GapsAreSaid, Waiting
    <2>5. QED
      BY <2>2, <2>3, <2>4 DEF Sk!LogIsHonest
  <1>2. QED
    BY <1>1, SinkInvariant, PTL

-----------------------------------------------------------------------------
(***************************************************************************)
(* Restart.                                                                *)
(***************************************************************************)
Configs == [headless : BOOLEAN, restore : BOOLEAN, location : BOOLEAN,
            port : Ports \cup {Re!Nobody}]
Pasts == [runs : 0 .. MaxRuns, faults : 0 .. RestartFaults, keys : 0 .. MaxRuns,
          owed : 0 .. MaxArms, port : Ports \cup {Re!Nobody}, served : 0 .. MaxRuns,
          orderly : BOOLEAN]

Runs == [prev : Re!StateFiles, readable : BOOLEAN, key : 0 .. MaxRuns,
         port : Ports \cup {Re!Nobody}, taken : SUBSET Ports, published : BOOLEAN,
         armed : BOOLEAN, since : 0 .. MaxArms, recorded : BOOLEAN,
         tracker : BOOLEAN, tracking : BOOLEAN]
Owners == [arms : 0 .. MaxArms, half : {"none", "arm", "disarm"}]

\* A run makes one key at most, before it does anything else.
RestartTyped ==
  /\ restart_cfg \in Configs /\ restart_state \in Re!StateFiles
  /\ restart_endpoint \in Ports \cup {Re!Nobody} /\ restart_keyFile \in 0 .. MaxRuns
  /\ restart_step \in Re!Steps /\ restart_run \in Runs
  /\ restart_owner \in Owners /\ restart_history \in Pasts
  /\ restart_history.keys <= restart_history.runs
  /\ restart_step = "key" => restart_history.keys < restart_history.runs

\* What a start remembers of the state file is what is in it, until it has reported.
ReadIsKept ==
  /\ restart_step \in {"listen", "publish", "save_port", "report"} =>
       /\ restart_run.prev.armed = Re!Loaded.armed
       /\ restart_run.prev.since = Re!Loaded.since
       /\ restart_run.prev.armed => restart_run.readable
  /\ restart_step = "listen" => restart_run.prev.port = Re!Loaded.port

\* An arming or a disarming that is half-way is the last there was.
HalfWayOK ==
  /\ restart_owner.half # "none" => Re!Running
  /\ restart_owner.half = "arm" => restart_run.since = restart_owner.arms
  /\ restart_owner.half = "disarm" => ~restart_run.armed

\* A watch that is said to be on record is.
OnRecord ==
  /\ restart_run.armed => restart_step \in {"tracker", "serving", "stopping", "closing"}
  /\ restart_run.armed /\ restart_run.recorded =>
       Re!Loaded.armed /\ Re!Loaded.since = restart_run.since

\* A watch the owner is owed a word about is in the file, and nothing is served before.
OwedIsOnFile ==
  restart_history.owed # 0 =>
    /\ restart_step \notin {"tracker", "serving", "stopping", "closing"}
    /\ Re!Loaded.armed /\ Re!Loaded.since = restart_history.owed

\* The port that was written down last is the one in the file.
PortOnFile == restart_history.port = Re!Loaded.port

\* A headless run has the key that is in the file, which is the one that was served with.
KeyOnFile ==
  restart_cfg.headless =>
    /\ restart_history.served # 0 => restart_keyFile = restart_history.served
    /\ restart_step = "fill" => restart_keyFile = 0
    /\ IF restart_step \in {"down", "key"} THEN restart_run.key = 0
       ELSE restart_step # "fill" => restart_run.key = restart_keyFile

RestartInv ==
  /\ RestartTyped /\ ReadIsKept /\ HalfWayOK /\ OnRecord /\ OwedIsOnFile
  /\ PortOnFile /\ Re!PortIsKept /\ KeyOnFile

LEMMA FreshType ==
  ASSUME Re!ConstantsOK
  PROVE  /\ Re!Empty \in Re!StateFiles /\ Re!Fresh \in Runs
         /\ Re!Unreadable \in Re!StateFiles /\ ~Re!Unreadable.readable
  <1>1. Re!Empty \in Re!StateFiles /\ Re!Fresh \in Runs
    BY DEF Re!ConstantsOK, Re!Empty, Re!Fresh, Re!StateFiles, Re!Nobody, Runs
  <1>2. QED
    BY <1>1 DEF Re!Unreadable, Re!StateFiles

LEMMA RestartInit == Re!ConstantsOK /\ Re!Init => RestartInv
  <1>. SUFFICES ASSUME Re!ConstantsOK, Re!Init PROVE RestartInv
    OBVIOUS
  <1>1. RestartTyped
    <2>1. (CHOOSE p \in Ports : TRUE) \in Ports
      BY DEF Re!ConstantsOK
    <2>2. restart_state \in Re!StateFiles
      BY FreshType DEF Re!Init
    <2>3. restart_cfg \in Configs
      <3>1. {Re!Nobody, CHOOSE p \in Ports : TRUE} \subseteq Ports \cup {Re!Nobody}
        BY <2>1
      <3>2. QED
        BY <3>1 DEF Re!Init, Configs
    <2>4. restart_history \in Pasts
      BY DEF Re!Init, Pasts, Re!Nobody, Re!ConstantsOK
    <2>5. QED
      BY <2>2, <2>3, <2>4, FreshType DEF Re!Init, RestartTyped, Re!Steps, Owners, Re!Nobody,
         Re!ConstantsOK
  <1>2. Re!Loaded = Re!Empty
    BY FreshType DEF Re!Init, Re!Loaded
  <1>3. QED
    BY <1>1, <1>2 DEF RestartInv, Re!Init, ReadIsKept, HalfWayOK, Re!Running, OnRecord, OwedIsOnFile,
       PortOnFile, Re!PortIsKept, KeyOnFile, Re!Fresh, Re!Empty, Re!Nobody

\* What is read of a state file is a readable one.
LEMMA LoadedType ==
  Re!ConstantsOK /\ RestartTyped => Re!Loaded \in Re!StateFiles /\ Re!Loaded.readable
  BY FreshType DEF RestartTyped, Re!Loaded, Re!StateFiles, Re!Empty

\* Every step keeps the types: a start, then the owner, then the end of a run.
LEMMA RestartTypes ==
  ASSUME Re!ConstantsOK, RestartTyped, [Re!Next]_Re!vars
  PROVE  RestartTyped'
  <1>. USE DEF RestartTyped
  <1>1. CASE Re!Begin
    <2>0. restart_history.runs + 1 \in 0 .. MaxRuns
      BY <1>1 DEF Re!Begin, Pasts, Re!ConstantsOK
    <2>1. restart_history' \in Pasts
      BY <1>1, <2>0 DEF Re!Begin, Pasts
    <2>2. restart_history'.keys < restart_history'.runs
      BY <1>1 DEF Re!Begin, Pasts
    <2>3. QED
      BY <1>1, <2>1, <2>2 DEF Re!Begin, Re!Steps, Pasts
  <1>2. CASE Re!StoredKey
    BY <1>2 DEF Re!StoredKey, Runs, Re!Steps
  <1>3. CASE Re!FreshKey \/ Re!EmptyKeyFile
    <2>1. restart_history.keys + 1 \in 0 .. MaxRuns
      BY <1>3 DEF Re!FreshKey, Re!EmptyKeyFile, Pasts, Re!ConstantsOK
    <2>2. restart_history' \in Pasts /\ restart_history'.keys <= restart_history'.runs
      BY <1>3, <2>1 DEF Re!FreshKey, Re!EmptyKeyFile, Pasts
    <2>3. restart_run' \in Runs
      BY <1>3, <2>1 DEF Re!FreshKey, Re!EmptyKeyFile, Runs
    <2>4. QED
      BY <1>3, <2>2, <2>3 DEF Re!FreshKey, Re!EmptyKeyFile, Re!Steps
  <1>4. CASE Re!FillKeyFile
    <2>1. restart_run' \in Runs /\ restart_keyFile' \in 0 .. MaxRuns
      BY <1>4, FreshType DEF Re!FillKeyFile, Runs
    <2>2. restart_history' \in Pasts /\ restart_history'.keys <= restart_history'.runs
      BY <1>4 DEF Re!FillKeyFile, Re!Fails, Pasts, Re!ConstantsOK
    <2>3. QED
      BY <1>4, <2>1, <2>2 DEF Re!FillKeyFile, Re!Steps
  <1>5. CASE Re!Load
    <2>1. restart_run' \in Runs
      BY <1>5, LoadedType DEF Re!Load, Runs, Re!StateFiles
    <2>2. QED
      BY <1>5, <2>1 DEF Re!Load, Re!Steps
  <1>6. CASE Re!Listen
    <2>1. restart_run' \in Runs
      BY <1>6, FreshType DEF Re!Listen, Runs
    <2>2. QED
      BY <1>6, <2>1 DEF Re!Listen, Re!Steps
  <1>7. CASE Re!PublishEndpoint
    <2>1. restart_run' \in Runs
      BY <1>7 DEF Re!PublishEndpoint, Runs
    <2>2. restart_history' \in Pasts /\ restart_history'.keys <= restart_history'.runs
      BY <1>7 DEF Re!PublishEndpoint, Re!Fails, Pasts, Re!ConstantsOK
    <2>3. QED
      BY <1>7, <2>1, <2>2 DEF Re!PublishEndpoint, Re!Publish, Re!Steps, Runs
  <1>8. CASE Re!SavePort
    <2>1. restart_state' \in Re!StateFiles
      BY <1>8, LoadedType DEF Re!SavePort, Runs, Re!StateFiles
    <2>2. restart_history' \in Pasts /\ restart_history'.keys <= restart_history'.runs
      BY <1>8 DEF Re!SavePort, Re!Fails, Pasts, Runs, Re!ConstantsOK
    <2>3. QED
      BY <1>8, <2>1, <2>2 DEF Re!SavePort, Re!Steps
  <1>9. CASE Re!ReportsNothing
    BY <1>9 DEF Re!ReportsNothing, Re!Steps
  <1>10. CASE Re!ReportInterrupted
    <2>1. restart_state' \in Re!StateFiles
      BY <1>10, LoadedType DEF Re!ReportInterrupted, Re!Saved, Runs, Re!StateFiles
    <2>2. Re!Reported \in Pasts /\ Re!Reported.keys = restart_history.keys
          /\ Re!Reported.runs = restart_history.runs
          /\ Re!Reported.faults = restart_history.faults
      BY DEF Re!Reported, Pasts, Re!ConstantsOK
    <2>3. restart_history' \in Pasts /\ restart_history'.keys <= restart_history'.runs
      <3>1. CASE restart_history' = Re!Reported
        BY <2>2, <3>1
      <3>2. CASE /\ restart_history.faults < RestartFaults
                 /\ restart_history' = [Re!Reported EXCEPT !.faults = @ + 1]
        BY <2>2, <3>2 DEF Pasts, Re!ConstantsOK
      <3>3. QED
        BY <1>10, <3>1, <3>2 DEF Re!ReportInterrupted
    <2>4. QED
      BY <1>10, <2>1, <2>3 DEF Re!ReportInterrupted, Re!Steps
  <1>11. CASE Re!RestoreArmed
    <2>1. restart_run' \in Runs
      BY <1>11 DEF Re!RestoreArmed, Runs, Re!StateFiles
    <2>2. restart_history' \in Pasts /\ restart_history'.keys <= restart_history'.runs
      BY <1>11 DEF Re!RestoreArmed, Re!Reported, Pasts, Re!ConstantsOK
    <2>3. QED
      BY <1>11, <2>1, <2>2 DEF Re!RestoreArmed, Re!Steps
  <1>12. CASE Re!SetLocationTracker
    <2>1. restart_run' \in Runs
      BY <1>12 DEF Re!SetLocationTracker, Runs, Configs
    <2>2. restart_history' \in Pasts /\ restart_history'.keys <= restart_history'.runs
      BY <1>12 DEF Re!SetLocationTracker, Pasts, Runs
    <2>3. QED
      BY <1>12, <2>1, <2>2 DEF Re!SetLocationTracker, Re!Steps
  <1>13. CASE Re!Arm
    <2>1. restart_owner.arms + 1 \in 0 .. MaxArms
      BY <1>13 DEF Re!Arm, Owners, Re!ConstantsOK
    <2>2. restart_run' \in Runs /\ restart_owner' \in Owners
      BY <1>13, <2>1 DEF Re!Arm, Runs, Owners
    <2>3. QED
      BY <1>13, <2>2 DEF Re!Arm
  <1>14. CASE Re!Disarm
    <2>1. restart_owner' \in Owners
      BY <1>14 DEF Re!Disarm, Owners
    <2>2. 0 \in 0 .. MaxArms
      BY DEF Re!ConstantsOK
    <2>3. restart_run' \in Runs
      BY <1>14, <2>2 DEF Re!Disarm, Runs
    <2>4. QED
      BY <1>14, <2>1, <2>3 DEF Re!Disarm
  <1>15. CASE Re!Persist
    <2>1. restart_owner' \in Owners
      BY <1>15 DEF Re!Persist, Owners
    <2>2. restart_run' \in Runs
      BY <1>15 DEF Re!Persist, Runs
    <2>3. restart_state' \in Re!StateFiles
      BY <1>15, LoadedType DEF Re!Persist, Re!Saved, Re!StateFiles, Owners
    <2>4. restart_history' \in Pasts /\ restart_history'.keys <= restart_history'.runs
      BY <1>15 DEF Re!Persist, Re!Fails, Pasts, Re!ConstantsOK
    <2>5. restart_step' # "key"
      BY <1>15 DEF Re!Persist, Re!Running
    <2>6. QED
      BY <1>15, <2>1, <2>2, <2>3, <2>4, <2>5 DEF Re!Persist
  <1>16. CASE Re!Shutdown \/ Re!Close
    BY <1>16 DEF Re!Shutdown, Re!Close, Re!Withdraw, Re!Steps
  <1>17. CASE Re!Exit \/ Re!Crash
    <2>1. Re!Down(TRUE) \/ Re!Down(FALSE)
      BY <1>17 DEF Re!Exit, Re!Crash
    <2>2. restart_owner' \in Owners
      BY <2>1 DEF Re!Down, Owners
    <2>3. restart_history' \in Pasts /\ restart_history'.keys <= restart_history'.runs
      BY <2>1 DEF Re!Down, Pasts, Runs
    <2>4. QED
      BY <2>1, <2>2, <2>3, FreshType DEF Re!Down, Re!Steps
  <1>18. CASE UNCHANGED Re!vars
    BY <1>18 DEF Re!vars
  <1>19. QED
    BY <1>1, <1>2, <1>3, <1>4, <1>5, <1>6, <1>7, <1>8, <1>9, <1>10, <1>11, <1>12, <1>13, <1>14,
       <1>15, <1>16, <1>17, <1>18 DEF Re!Next, Re!StartApp

LEMMA ReadStep ==
  ASSUME Re!ConstantsOK, RestartTyped, OnRecord, ReadIsKept, [Re!Next]_Re!vars
  PROVE  ReadIsKept'
  <1>. USE DEF ReadIsKept
  <1>1. CASE Re!Load
    <2>1. Re!Loaded' = Re!Loaded /\ restart_run'.prev = Re!Loaded
      BY <1>1 DEF Re!Load, Re!Loaded, RestartTyped, Runs
    <2>2. Re!Loaded.armed => restart_run'.readable
      BY <1>1 DEF Re!Load, Re!Loaded, Re!Empty, RestartTyped, Runs
    <2>3. QED
      BY <1>1, <2>1, <2>2 DEF Re!Load
  <1>2. CASE Re!Listen
    <2>1. Re!Loaded' = Re!Loaded
      BY <1>2 DEF Re!Listen, Re!Loaded
    <2>2. restart_step' # "down" => restart_run'.prev = restart_run.prev /\ restart_run'.readable = restart_run.readable
      BY <1>2 DEF Re!Listen, RestartTyped, Runs
    <2>3. QED
      BY <1>2, <2>1, <2>2 DEF Re!Listen
  <1>3. CASE Re!PublishEndpoint
    <2>1. /\ Re!Loaded' = Re!Loaded /\ restart_run'.prev = restart_run.prev
          /\ restart_run'.readable = restart_run.readable
      BY <1>3 DEF Re!PublishEndpoint, Re!Loaded, RestartTyped, Runs
    <2>2. QED
      BY <1>3, <2>1 DEF Re!PublishEndpoint
  <1>4. CASE Re!SavePort
    <2>1. Re!Loaded'.armed = Re!Loaded.armed /\ Re!Loaded'.since = Re!Loaded.since
      BY <1>4, LoadedType DEF Re!SavePort, Re!Loaded, Re!StateFiles
    <2>2. QED
      BY <1>4, <2>1 DEF Re!SavePort
  <1>5. CASE \/ Re!Begin \/ Re!StoredKey \/ Re!FreshKey \/ Re!EmptyKeyFile \/ Re!FillKeyFile
             \/ Re!ReportsNothing \/ Re!ReportInterrupted \/ Re!RestoreArmed
             \/ Re!SetLocationTracker \/ Re!Shutdown \/ Re!Close \/ Re!Exit \/ Re!Crash
    <2>1. restart_step' \notin {"listen", "publish", "save_port", "report"}
      BY <1>5 DEF Re!Begin, Re!StoredKey, Re!FreshKey, Re!EmptyKeyFile, Re!FillKeyFile,
         Re!ReportsNothing, Re!ReportInterrupted, Re!RestoreArmed, Re!SetLocationTracker,
         Re!Shutdown, Re!Close, Re!Exit, Re!Crash, Re!Down
    <2>2. QED
      BY <2>1
  <1>6. CASE Re!Arm \/ Re!Disarm \/ Re!Persist
    <2>1. restart_step' \notin {"listen", "publish", "save_port", "report"}
      BY <1>6 DEF Re!Arm, Re!Disarm, Re!Persist, Re!Running
    <2>2. QED
      BY <2>1
  <1>7. CASE UNCHANGED Re!vars
    BY <1>7 DEF Re!vars, Re!Loaded
  <1>8. QED
    BY <1>1, <1>2, <1>3, <1>4, <1>5, <1>6, <1>7 DEF Re!Next, Re!StartApp

LEMMA HalfWayStep ==
  ASSUME RestartTyped, HalfWayOK, [Re!Next]_Re!vars
  PROVE  HalfWayOK'
  <1>. USE DEF HalfWayOK, Re!Running
  <1>1. CASE Re!StartApp
    BY <1>1 DEF Re!StartApp, Re!Begin, Re!StoredKey, Re!FreshKey, Re!EmptyKeyFile,
       Re!FillKeyFile, Re!Load, Re!Listen, Re!PublishEndpoint, Re!SavePort, Re!ReportsNothing,
       Re!ReportInterrupted, Re!RestoreArmed, Re!SetLocationTracker
  <1>2. CASE Re!Arm
    BY <1>2 DEF Re!Arm, RestartTyped, Runs
  <1>3. CASE Re!Disarm
    BY <1>3 DEF Re!Disarm, RestartTyped, Runs, Owners
  <1>4. CASE Re!Persist
    BY <1>4 DEF Re!Persist, RestartTyped, Owners
  <1>5. CASE Re!Shutdown \/ Re!Close
    BY <1>5 DEF Re!Shutdown, Re!Close
  <1>6. CASE Re!Exit \/ Re!Crash
    BY <1>6 DEF Re!Exit, Re!Crash, Re!Down, RestartTyped, Owners
  <1>7. CASE UNCHANGED Re!vars
    BY <1>7 DEF Re!vars
  <1>8. QED
    BY <1>1, <1>2, <1>3, <1>4, <1>5, <1>6, <1>7 DEF Re!Next

LEMMA OnRecordStep ==
  ASSUME Re!ConstantsOK, RestartTyped, ReadIsKept, HalfWayOK, OnRecord, [Re!Next]_Re!vars
  PROVE  OnRecord'
  <1>. USE DEF OnRecord
  <1>1. CASE \/ Re!Begin \/ Re!StoredKey \/ Re!FreshKey \/ Re!EmptyKeyFile \/ Re!FillKeyFile
             \/ Re!Load \/ Re!Listen \/ Re!PublishEndpoint \/ Re!SavePort
             \/ Re!ReportsNothing \/ Re!ReportInterrupted
    <2>1. ~restart_run.armed
      BY <1>1 DEF Re!Begin, Re!StoredKey, Re!FreshKey, Re!EmptyKeyFile, Re!FillKeyFile, Re!Load,
         Re!Listen, Re!PublishEndpoint, Re!SavePort, Re!ReportsNothing, Re!ReportInterrupted
    <2>2. restart_run' = Re!Fresh \/ restart_run'.armed = restart_run.armed
      <3>1. CASE \/ Re!Begin \/ Re!StoredKey \/ Re!FreshKey \/ Re!EmptyKeyFile
                 \/ Re!FillKeyFile \/ Re!Load
        BY <3>1 DEF Re!Begin, Re!StoredKey, Re!FreshKey, Re!EmptyKeyFile, Re!FillKeyFile,
           Re!Load, RestartTyped, Runs
      <3>2. CASE \/ Re!Listen \/ Re!PublishEndpoint \/ Re!SavePort \/ Re!ReportsNothing
                 \/ Re!ReportInterrupted
        BY <3>2 DEF Re!Listen, Re!PublishEndpoint, Re!SavePort, Re!ReportsNothing,
           Re!ReportInterrupted, RestartTyped, Runs
      <3>3. QED
        BY <1>1, <3>1, <3>2
    <2>3. QED
      BY <2>1, <2>2 DEF Re!Fresh
  <1>2. CASE Re!RestoreArmed
    <2>1. Re!Loaded' = Re!Loaded /\ restart_run'.since = restart_run.prev.since
      BY <1>2 DEF Re!RestoreArmed, Re!Loaded, RestartTyped, Runs
    <2>2. QED
      BY <1>2, <2>1 DEF Re!RestoreArmed, ReadIsKept
  <1>3. CASE Re!SetLocationTracker \/ Re!Shutdown \/ Re!Close
    <2>1. /\ Re!Loaded' = Re!Loaded /\ restart_run'.armed = restart_run.armed
          /\ restart_run'.since = restart_run.since
          /\ restart_run'.recorded = restart_run.recorded
      BY <1>3 DEF Re!SetLocationTracker, Re!Shutdown, Re!Close, Re!Loaded, RestartTyped, Runs
    <2>2. restart_step' \in {"serving", "stopping", "closing"}
      BY <1>3 DEF Re!SetLocationTracker, Re!Shutdown, Re!Close
    <2>3. QED
      BY <2>1, <2>2
  <1>4. CASE Re!Arm \/ Re!Disarm
    BY <1>4 DEF Re!Arm, Re!Disarm, Re!Running, RestartTyped, Runs
  <1>5. CASE Re!Persist
    <2>1. restart_run'.armed = restart_run.armed /\ restart_run'.since = restart_run.since
      BY <1>5 DEF Re!Persist, RestartTyped, Runs
    <2>2. CASE restart_state' = Re!Saved(restart_owner.half = "arm", restart_owner.arms)
      <3>1. /\ Re!Loaded'.armed = (restart_owner.half = "arm")
            /\ Re!Loaded'.since = restart_owner.arms
        BY <2>2, LoadedType DEF Re!Saved, Re!Loaded, Re!StateFiles
      <3>2. restart_owner.half \in {"arm", "disarm"}
        BY <1>5 DEF Re!Persist, RestartTyped, Owners
      <3>3. QED
        BY <1>5, <2>1, <3>1, <3>2 DEF Re!Persist, Re!Running, HalfWayOK
    <2>3. CASE UNCHANGED restart_state /\ restart_run'.recorded = restart_run.recorded
      BY <1>5, <2>1, <2>3 DEF Re!Persist, Re!Running, Re!Loaded
    <2>4. QED
      BY <1>5, <2>2, <2>3 DEF Re!Persist, RestartTyped, Runs
  <1>6. CASE Re!Exit \/ Re!Crash
    BY <1>6 DEF Re!Exit, Re!Crash, Re!Down, Re!Fresh
  <1>7. CASE UNCHANGED Re!vars
    BY <1>7 DEF Re!vars, Re!Loaded
  <1>8. QED
    BY <1>1, <1>2, <1>3, <1>4, <1>5, <1>6, <1>7 DEF Re!Next, Re!StartApp

LEMMA OwedStep ==
  ASSUME Re!ConstantsOK, RestartTyped, ReadIsKept, OnRecord, OwedIsOnFile, [Re!Next]_Re!vars
  PROVE  OwedIsOnFile'
  <1>. USE DEF OwedIsOnFile
  <1>1. CASE \/ Re!Begin \/ Re!StoredKey \/ Re!FreshKey \/ Re!EmptyKeyFile \/ Re!FillKeyFile
             \/ Re!Load \/ Re!Listen \/ Re!PublishEndpoint
    <2>1. Re!Loaded' = Re!Loaded
      BY <1>1 DEF Re!Begin, Re!StoredKey, Re!FreshKey, Re!EmptyKeyFile, Re!FillKeyFile, Re!Load,
         Re!Listen, Re!PublishEndpoint, Re!Loaded
    <2>2. restart_history'.owed = restart_history.owed
      BY <1>1 DEF Re!Begin, Re!StoredKey, Re!FreshKey, Re!EmptyKeyFile, Re!FillKeyFile, Re!Load,
         Re!Listen, Re!PublishEndpoint, Re!Fails, RestartTyped, Pasts
    <2>3. restart_step' \notin {"tracker", "serving", "stopping", "closing"}
      BY <1>1 DEF Re!Begin, Re!StoredKey, Re!FreshKey, Re!EmptyKeyFile, Re!FillKeyFile, Re!Load,
         Re!Listen, Re!PublishEndpoint
    <2>4. QED
      BY <2>1, <2>2, <2>3
  <1>2. CASE Re!SavePort
    <2>1. Re!Loaded'.armed = Re!Loaded.armed /\ Re!Loaded'.since = Re!Loaded.since
      BY <1>2, LoadedType DEF Re!SavePort, Re!Loaded, Re!StateFiles
    <2>2. restart_history'.owed = restart_history.owed
      BY <1>2 DEF Re!SavePort, Re!Fails, RestartTyped, Pasts
    <2>3. QED
      BY <1>2, <2>1, <2>2 DEF Re!SavePort
  <1>3. CASE Re!ReportsNothing
    BY <1>3 DEF Re!ReportsNothing, ReadIsKept
  <1>4. CASE Re!ReportInterrupted \/ Re!RestoreArmed
    BY <1>4 DEF Re!ReportInterrupted, Re!RestoreArmed, Re!Reported, RestartTyped, Pasts
  <1>5. CASE \/ Re!SetLocationTracker \/ Re!Arm \/ Re!Disarm \/ Re!Persist \/ Re!Shutdown
             \/ Re!Close
    <2>1. restart_history.owed = 0
      BY <1>5 DEF Re!SetLocationTracker, Re!Arm, Re!Disarm, Re!Persist, Re!Shutdown, Re!Close,
         Re!Running
    <2>2. restart_history'.owed = 0
      BY <1>5, <2>1 DEF Re!SetLocationTracker, Re!Arm, Re!Disarm, Re!Persist, Re!Shutdown,
         Re!Close, Re!Fails, RestartTyped, Pasts
    <2>3. QED
      BY <2>2
  <1>6. CASE Re!Exit \/ Re!Crash
    <2>1. Re!Down(TRUE) \/ Re!Down(FALSE)
      BY <1>6 DEF Re!Exit, Re!Crash
    <2>2. restart_step' = "down" /\ Re!Loaded' = Re!Loaded
      BY <2>1 DEF Re!Down, Re!Loaded
    <2>3. restart_history'.owed = IF restart_run.armed /\ restart_run.recorded
                                  THEN restart_run.since ELSE restart_history.owed
      BY <2>1 DEF Re!Down, RestartTyped, Pasts
    <2>4. QED
      BY <2>2, <2>3 DEF OnRecord
  <1>7. CASE UNCHANGED Re!vars
    BY <1>7 DEF Re!vars, Re!Loaded
  <1>8. QED
    BY <1>1, <1>2, <1>3, <1>4, <1>5, <1>6, <1>7 DEF Re!Next, Re!StartApp

LEMMA PortStep ==
  ASSUME Re!ConstantsOK, RestartTyped, ReadIsKept, PortOnFile, Re!PortIsKept,
         [Re!Next]_Re!vars
  PROVE  PortOnFile' /\ Re!PortIsKept'
  <1>. USE DEF PortOnFile
  <1>1. PortOnFile'
    <2>1. CASE Re!SavePort
      <3>1. CASE /\ restart_state' = IF Re!Loaded.port = restart_run.port THEN restart_state
                                      ELSE [Re!Loaded EXCEPT !.port = restart_run.port]
                 /\ restart_history' = [restart_history EXCEPT !.port = restart_run.port]
        <4>1. Re!Loaded'.port = restart_run.port
          BY <3>1, LoadedType DEF Re!Loaded, Re!StateFiles
        <4>2. QED
          BY <3>1, <4>1 DEF RestartTyped, Pasts
      <3>2. CASE Re!Fails /\ UNCHANGED restart_state
        BY <3>2 DEF Re!Fails, Re!Loaded, RestartTyped, Pasts
      <3>3. QED
        BY <2>1, <3>1, <3>2 DEF Re!SavePort
    <2>2. CASE ~Re!SavePort /\ (Re!StartApp \/ Re!Persist)
      <3>1. restart_history'.port = restart_history.port
        BY <2>2 DEF Re!StartApp, Re!Begin, Re!StoredKey, Re!FreshKey, Re!EmptyKeyFile,
           Re!FillKeyFile, Re!Load, Re!Listen, Re!PublishEndpoint, Re!ReportsNothing,
           Re!ReportInterrupted, Re!RestoreArmed, Re!SetLocationTracker, Re!Persist,
           Re!Fails, Re!Reported, RestartTyped, Pasts
      <3>2. \/ UNCHANGED restart_state
            \/ \E armed \in BOOLEAN, now \in 0 .. MaxArms : restart_state' = Re!Saved(armed, now)
        BY <2>2 DEF Re!StartApp, Re!Begin, Re!StoredKey, Re!FreshKey, Re!EmptyKeyFile,
           Re!FillKeyFile, Re!Load, Re!Listen, Re!PublishEndpoint, Re!ReportsNothing,
           Re!ReportInterrupted, Re!RestoreArmed, Re!SetLocationTracker, Re!Persist,
           RestartTyped, Runs, Owners, Re!StateFiles
      <3>3. ASSUME NEW armed \in BOOLEAN, NEW now \in 0 .. MaxArms,
                   restart_state' = Re!Saved(armed, now)
            PROVE  Re!Loaded'.port = Re!Loaded.port
        BY <3>3, LoadedType DEF Re!Saved, Re!Loaded, Re!StateFiles
      <3>4. Re!Loaded'.port = Re!Loaded.port
        BY <3>2, <3>3 DEF Re!Loaded
      <3>5. QED
        BY <3>1, <3>4
    <2>3. CASE \/ Re!Arm \/ Re!Disarm \/ Re!Shutdown \/ Re!Close \/ Re!Exit \/ Re!Crash
               \/ UNCHANGED Re!vars
      BY <2>3 DEF Re!Arm, Re!Disarm, Re!Shutdown, Re!Close, Re!Exit, Re!Crash, Re!Down, Re!vars,
         Re!Loaded, RestartTyped, Pasts
    <2>4. QED
      BY <2>1, <2>2, <2>3 DEF Re!Next, Re!StartApp
  <1>2. Re!PortIsKept'
    <2>1. CASE Re!Listen
      <3>1. SUFFICES ASSUME restart_step' = "publish" PROVE Re!PortIsKept'
        BY <2>1 DEF Re!Listen, Re!PortIsKept
      <3>2. PICK taken \in SUBSET Ports : \E p \in Ports \ taken :
              /\ Re!ListenPort \in Ports \ taken => p = Re!ListenPort
              /\ restart_run' = [restart_run EXCEPT !.port = p, !.taken = taken]
        BY <2>1, <3>1 DEF Re!Listen
      <3>3. /\ restart_run'.taken = taken
            /\ Re!ListenPort \in Ports \ taken => restart_run'.port = Re!ListenPort
        BY <3>2 DEF RestartTyped, Runs
      <3>4. Re!ListenPort = IF restart_cfg.port # Re!Nobody THEN restart_cfg.port
                            ELSE restart_history.port
        BY <2>1 DEF Re!Listen, Re!ListenPort, ReadIsKept
      <3>5. Re!ListenPort # Re!Nobody => Re!ListenPort \in Ports
        BY <3>4 DEF RestartTyped, Configs, Pasts
      <3>6. restart_cfg' = restart_cfg /\ restart_history' = restart_history
        BY <2>1 DEF Re!Listen
      <3>7. QED
        BY <3>3, <3>4, <3>5, <3>6 DEF Re!PortIsKept
    <2>2. CASE Re!PublishEndpoint
      <3>1. /\ restart_run'.port = restart_run.port /\ restart_run'.taken = restart_run.taken
            /\ restart_history'.port = restart_history.port
        BY <2>2 DEF Re!PublishEndpoint, Re!Fails, RestartTyped, Runs, Pasts
      <3>2. QED
        BY <2>2, <3>1 DEF Re!PublishEndpoint, Re!PortIsKept
    <2>3. CASE (Re!StartApp /\ ~Re!Listen /\ ~Re!PublishEndpoint) \/ Re!Persist
      <3>1. restart_step' \notin {"publish", "save_port"}
        BY <2>3 DEF Re!StartApp, Re!Begin, Re!StoredKey, Re!FreshKey, Re!EmptyKeyFile,
           Re!FillKeyFile, Re!Load, Re!SavePort, Re!ReportsNothing, Re!ReportInterrupted,
           Re!RestoreArmed, Re!SetLocationTracker, Re!Persist, Re!Running
      <3>2. QED
        BY <3>1 DEF Re!PortIsKept
    <2>4. CASE Re!Arm \/ Re!Disarm \/ Re!Shutdown \/ Re!Close \/ Re!Exit \/ Re!Crash
      <3>1. restart_step' \notin {"publish", "save_port"}
        BY <2>4 DEF Re!Arm, Re!Disarm, Re!Shutdown, Re!Close, Re!Exit, Re!Crash, Re!Down,
           Re!Running
      <3>2. QED
        BY <3>1 DEF Re!PortIsKept
    <2>5. CASE UNCHANGED Re!vars
      BY <2>5 DEF Re!vars, Re!PortIsKept
    <2>6. QED
      BY <2>1, <2>2, <2>3, <2>4, <2>5 DEF Re!Next
  <1>3. QED
    BY <1>1, <1>2

LEMMA KeyStep ==
  ASSUME RestartTyped, KeyOnFile, [Re!Next]_Re!vars
  PROVE  KeyOnFile'
  <1>. USE DEF KeyOnFile
  <1>1. CASE Re!Begin
    BY <1>1 DEF Re!Begin, RestartTyped, Pasts
  <1>2. CASE Re!StoredKey
    BY <1>2 DEF Re!StoredKey, RestartTyped, Runs
  <1>3. CASE Re!FreshKey
    BY <1>3 DEF Re!FreshKey
  <1>4. CASE Re!EmptyKeyFile
    BY <1>4 DEF Re!EmptyKeyFile, RestartTyped, Pasts
  <1>5. CASE Re!FillKeyFile
    <2>1. restart_history'.served = restart_history.served
      BY <1>5 DEF Re!FillKeyFile, Re!Fails, RestartTyped, Pasts
    <2>2. QED
      BY <1>5, <2>1 DEF Re!FillKeyFile, Re!Fresh
  <1>6. CASE Re!SetLocationTracker
    <2>1. restart_history'.served = restart_run.key /\ restart_run'.key = restart_run.key
      BY <1>6 DEF Re!SetLocationTracker, RestartTyped, Pasts, Runs
    <2>2. QED
      BY <1>6, <2>1 DEF Re!SetLocationTracker
  <1>7. CASE Re!Listen
    <2>1. \/ restart_step' = "down" /\ restart_run' = Re!Fresh
          \/ restart_step' = "publish" /\ restart_run'.key = restart_run.key
      BY <1>7 DEF Re!Listen, RestartTyped, Runs
    <2>2. Re!Fresh.key = 0
      BY DEF Re!Fresh
    <2>3. QED
      BY <1>7, <2>1, <2>2 DEF Re!Listen
  <1>8. CASE \/ Re!Load \/ Re!PublishEndpoint \/ Re!SavePort \/ Re!ReportsNothing
             \/ Re!ReportInterrupted \/ Re!RestoreArmed
    <2>1. restart_history'.served = restart_history.served /\ restart_run'.key = restart_run.key
      BY <1>8 DEF Re!Load, Re!PublishEndpoint, Re!SavePort, Re!ReportsNothing,
         Re!ReportInterrupted, Re!RestoreArmed, Re!Fails, Re!Reported, RestartTyped, Pasts, Runs
    <2>2. /\ restart_step \notin {"down", "key", "fill"} /\ restart_keyFile' = restart_keyFile
          /\ restart_step' \notin {"down", "key", "fill"} /\ restart_cfg' = restart_cfg
      BY <1>8 DEF Re!Load, Re!PublishEndpoint, Re!SavePort, Re!ReportsNothing,
         Re!ReportInterrupted, Re!RestoreArmed
    <2>3. QED
      BY <2>1, <2>2
  <1>9. CASE Re!Arm \/ Re!Disarm \/ Re!Persist \/ Re!Shutdown \/ Re!Close
    <2>1. restart_history'.served = restart_history.served /\ restart_run'.key = restart_run.key
      BY <1>9 DEF Re!Arm, Re!Disarm, Re!Persist, Re!Shutdown, Re!Close, Re!Fails, RestartTyped,
         Pasts, Runs
    <2>2. /\ restart_step \notin {"down", "key", "fill"} /\ restart_keyFile' = restart_keyFile
          /\ restart_step' \notin {"down", "key", "fill"} /\ restart_cfg' = restart_cfg
      BY <1>9 DEF Re!Arm, Re!Disarm, Re!Persist, Re!Shutdown, Re!Close, Re!Running
    <2>3. QED
      BY <2>1, <2>2
  <1>10. CASE Re!Exit \/ Re!Crash
    <2>1. Re!Down(TRUE) \/ Re!Down(FALSE)
      BY <1>10 DEF Re!Exit, Re!Crash
    <2>2. restart_history'.served = restart_history.served
      BY <2>1 DEF Re!Down, RestartTyped, Pasts
    <2>3. restart_run'.key = 0
      BY <2>1 DEF Re!Down, Re!Fresh
    <2>4. QED
      BY <2>1, <2>2, <2>3 DEF Re!Down
  <1>11. CASE UNCHANGED Re!vars
    BY <1>11 DEF Re!vars
  <1>12. QED
    BY <1>1, <1>2, <1>3, <1>4, <1>5, <1>6, <1>7, <1>8, <1>9, <1>10, <1>11
       DEF Re!Next, Re!StartApp

LEMMA RestartStep == ASSUME Re!ConstantsOK, RestartInv, [Re!Next]_Re!vars PROVE RestartInv'
  BY RestartTypes, ReadStep, HalfWayStep, OnRecordStep, OwedStep, PortStep, KeyStep DEF RestartInv

\* What a start reads is what is in the files until it has reported it, a watch that is
\* owed a word or said to be on record is on record, and port and key are those in their
\* files: after any number of starts, crashes and failed writes.
THEOREM RestartInvariant == ASSUME Re!ConstantsOK PROVE Re!Spec => []RestartInv
  <1>1. RestartInv /\ [Re!Next]_Re!vars => RestartInv'
    BY RestartStep
  <1>2. QED
    BY <1>1, RestartInit, PTL DEF Re!Spec

\* What a run owes to the ones before it, whatever the ports, the number of starts and
\* of failed writes.  (startup.go, state.go, keyfile.go.)
THEOREM RestartsRemember == ASSUME Re!ConstantsOK PROVE Re!Spec => Re!RestartRemembers
  <1>1. RestartInv => Re!NeverSilent /\ Re!PortIsKept /\ Re!KeySurvives
    <2>1. SUFFICES ASSUME RestartInv PROVE Re!NeverSilent /\ Re!PortIsKept /\ Re!KeySurvives
      OBVIOUS
    <2>2. Re!NeverSilent
      BY <2>1 DEF RestartInv, OwedIsOnFile, Re!NeverSilent
    <2>3. Re!PortIsKept
      BY <2>1 DEF RestartInv
    <2>4. Re!KeySurvives
      BY <2>1 DEF RestartInv, KeyOnFile, Re!KeySurvives
    <2>5. QED
      BY <2>2, <2>3, <2>4
  <1>2. RestartInv /\ [Re!Next]_Re!vars =>
          [restart_step = "report" /\ restart_step' = "tracker" /\ restart_run'.armed =>
             /\ restart_history.owed \in {0, restart_run'.since}
             /\ restart_run'.since = Re!Loaded.since]_Re!vars
    <2>1. SUFFICES ASSUME RestartInv, Re!Next, restart_step = "report",
                          restart_step' = "tracker", restart_run'.armed
                   PROVE  /\ restart_history.owed \in {0, restart_run'.since}
                          /\ restart_run'.since = Re!Loaded.since
      OBVIOUS
    <2>2. ~restart_run.armed
      BY <2>1 DEF RestartInv, OnRecord
    <2>3. Re!ReportsNothing \/ Re!ReportInterrupted \/ Re!RestoreArmed
      BY <2>1 DEF Re!Next, Re!StartApp, Re!Begin, Re!StoredKey, Re!FreshKey, Re!EmptyKeyFile,
         Re!FillKeyFile, Re!Load, Re!Listen, Re!PublishEndpoint, Re!SavePort,
         Re!SetLocationTracker, Re!Arm, Re!Disarm, Re!Persist, Re!Running, Re!Shutdown,
         Re!Close, Re!Exit, Re!Crash, Re!Down
    <2>4. restart_run'.since = restart_run.prev.since
      BY <2>1, <2>2, <2>3 DEF Re!ReportsNothing, Re!ReportInterrupted, Re!RestoreArmed,
         RestartInv, RestartTyped, Runs
    <2>5. QED
      BY <2>1, <2>4 DEF RestartInv, ReadIsKept, OwedIsOnFile
  <1>3. QED
    BY <1>1, <1>2, RestartInvariant, PTL DEF Re!Spec, Re!RestartRemembers, Re!CounterResumes

(***************************************************************************)
(* Updates.                                                                *)
(***************************************************************************)
Versions == Published \cup {Up!NoRelease, Up!Running}
Worlds == [clock : 1 .. MaxClock, behind : 0 .. MaxTrouble,
           published : SUBSET (Published \cup {Up!Running})]
Channels == {"stable", "beta"}
Watchers == [at : {"down", "round", "sleeping", "query", "backoff", "report", "save"},
             rec : Up!Records, enabled : BOOLEAN, channel : Channels \cup {"none"},
             last : Channels \cup {"none"}, first : BOOLEAN, due : Nat, failed : Nat,
             found : Versions, real : 0 .. MaxClock, raced : BOOLEAN]
Askers == [at : {"idle", "query", "save", "announce"}, rec : Up!Records, found : Versions,
           channel : Channels \cup {"none"}]
Journals == [starts : Nat, asked : Nat, switches : Nat, faults : Nat, query : 0 .. MaxClock]

UpdatesTyped ==
  /\ updates_world \in Worlds
  /\ updates_config \in [enabled : BOOLEAN, channel : Channels]
  /\ updates_ledger \in Up!Records
  /\ updates_w \in Watchers /\ updates_asked \in Askers
  /\ updates_said \subseteq Published /\ updates_history \in Journals

\* The wall clock has begun, and is never behind by more than it was set back.
ClockOK ==
  /\ updates_world.behind < updates_world.clock
  /\ updates_world.behind <= updates_history.faults
  /\ Up!Trouble <= MaxTrouble

\* The console asks while the program runs, and what it is about to say is newer.
AskerOK ==
  LET a == updates_asked IN
  /\ a.at # "idle" => Up!Up /\ updates_history.asked # 0
  /\ a.at = "announce" => a.found # Up!NoRelease
  /\ a.at \in {"save", "announce"} /\ a.found # Up!NoRelease =>
       Up!IsNewer(a.found, Up!Running)
  /\ a.at = "save" => IF a.found # Up!NoRelease THEN a.rec.seen = a.found
                      ELSE Up!IsNewer(a.rec.seen, Up!Running) => a.rec.seen \in updates_said

Told(r) == r \in updates_said \/ (updates_asked.at = "announce" /\ updates_asked.found = r)

\* What the watcher will write down as seen has been told by then, and nobody else
\* writes unseen by it.
WatcherOK ==
  LET w == updates_w IN
  /\ w.at \in {"query", "save"} /\ Up!IsNewer(w.rec.seen, Up!Running) => Told(w.rec.seen)
  /\ w.at = "report" => w.rec.seen = w.found /\ Up!IsNewer(w.found, Up!Running)
  /\ w.at = "query" /\ ~w.raced => w.rec = updates_ledger
  /\ w.at = "report" /\ ~w.raced => updates_ledger.seen # w.found

\* The moment of the last query that was written down is in the ledger, on a wall clock
\* that may have been set back since, and the next one waits for the floor after it.
ScheduleOK ==
  /\ updates_w.at \in {"report", "save"} =>
       /\ updates_w.rec.check # 0 /\ updates_w.real <= updates_world.clock
       /\ updates_w.rec.check + updates_world.behind >= updates_w.real
  /\ updates_history.asked = 0 /\ updates_history.query # 0 =>
       /\ updates_ledger.check # 0 /\ updates_history.query <= updates_world.clock
       /\ updates_ledger.check + updates_world.behind >= updates_history.query
       /\ updates_w.at = "sleeping" => updates_w.due >= updates_history.query + Floor

UpdatesInv ==
  /\ UpdatesTyped /\ ClockOK /\ AskerOK /\ WatcherOK /\ ScheduleOK
  /\ Up!SeenIsSaid /\ Up!AnnouncedIsNewer

-----------------------------------------------------------------------------
LEMMA VersionsAre ==
  ASSUME Up!ConstantsOK
  PROVE  /\ Versions \subseteq [n : Nat, pre : BOOLEAN]
         /\ \A r \in Versions : Up!Newer(r, Up!Running) => r \in Published
         /\ Up!Blank \in Up!Records /\ Up!Blank.seen = Up!NoRelease /\ Up!Blank.check = 0
         /\ ~Up!IsNewer(Up!NoRelease, Up!Running) /\ ~Up!IsNewer(Up!Running, Up!Running)
  <1>1. Versions \subseteq [n : Nat, pre : BOOLEAN]
    <2>1. Up!NoRelease \in [n : Nat, pre : BOOLEAN] /\ Up!Running \in [n : Nat, pre : BOOLEAN]
      BY DEF Up!NoRelease, Up!Running
    <2>2. Published \subseteq [n : Nat, pre : BOOLEAN]
      BY DEF Up!ConstantsOK
    <2>3. QED
      BY <2>1, <2>2 DEF Versions
  <1>2. \A r \in Versions : Up!Newer(r, Up!Running) => r \in Published
    BY DEF Versions, Up!Newer, Up!NoRelease, Up!Running
  <1>3. Up!Blank \in Up!Records /\ Up!Blank.seen = Up!NoRelease /\ Up!Blank.check = 0
    BY DEF Up!Blank, Up!Records, Up!ConstantsOK
  <1>4. ~Up!IsNewer(Up!NoRelease, Up!Running) /\ ~Up!IsNewer(Up!Running, Up!Running)
    BY DEF Up!IsNewer, Up!Newer, Up!Running
  <1>5. QED
    BY <1>1, <1>2, <1>3, <1>4

\* Of some releases below a bound one is as new as any.
LEMMA OneIsNewest ==
  ASSUME NEW S, S \subseteq [n : Nat, pre : BOOLEAN], S # {}, NEW top \in Nat,
         \A r \in S : r.n <= top
  PROVE  \E r \in S : \A q \in S : ~Up!Newer(q, r)
  <1>. DEFINE Gaps == {top - r.n : r \in S}
  <1>1. Gaps \subseteq Nat /\ Gaps # {}
    OBVIOUS
  <1>2. PICK d \in Gaps : \A e \in Gaps : ~(<<e, d>> \in OpToRel(<, Nat))
    <2>. HIDE DEF Gaps
    <2>1. QED
      BY <1>1, NatLessThanWellFounded, WFMin
  <1>3. PICK r \in S : d = top - r.n
    BY <1>2
  <1>4. \A q \in S : q.n <= r.n
    <2>1. SUFFICES ASSUME NEW q \in S, q.n > r.n PROVE FALSE
      OBVIOUS
    <2>2. top - q.n \in Gaps /\ top - q.n \in Nat /\ d \in Nat /\ top - q.n < d
      BY <1>1, <1>3, <2>1
    <2>3. <<top - q.n, d>> \in OpToRel(<, Nat)
      BY <2>2 DEF OpToRel
    <2>4. QED
      BY <1>2, <2>2, <2>3
  <1>5. CASE \E q \in S : q.n = r.n /\ ~q.pre
    BY <1>4, <1>5 DEF Up!Newer
  <1>6. CASE ~\E q \in S : q.n = r.n /\ ~q.pre
    BY <1>4, <1>6 DEF Up!Newer
  <1>7. QED
    BY <1>5, <1>6

\* Check: nothing, or a release above the one that runs.
LEMMA CheckFinds ==
  ASSUME Up!ConstantsOK, UpdatesTyped, NEW channel
  PROVE  /\ Up!Check(channel) \in Versions
         /\ Up!Check(channel) # Up!NoRelease => Up!IsNewer(Up!Check(channel), Up!Running)
  <1>. DEFINE newer == {r \in Up!Eligible(channel) : Up!Newer(r, Up!Running)}
  <1>1. newer \subseteq Versions /\ newer \subseteq [n : Nat, pre : BOOLEAN]
    BY VersionsAre DEF UpdatesTyped, Worlds, Up!Eligible, Versions
  <1>2. newer \subseteq Published
    BY <1>1, VersionsAre
  <1>3. PICK top \in Published \cup {Up!Running} : \A r \in Published : r.n <= top.n
    BY DEF Up!ConstantsOK
  <1>4. top.n \in Nat
    BY VersionsAre DEF Versions
  <1>5. newer # {} => \E r \in newer : \A q \in newer : ~Up!Newer(q, r)
    <2>. HIDE DEF newer
    <2>1. QED
      BY <1>1, <1>2, <1>3, <1>4, OneIsNewest
  <1>6. Up!Check(channel) = IF newer = {} THEN Up!NoRelease
                            ELSE CHOOSE r \in newer : \A q \in newer : ~Up!Newer(q, r)
    BY DEF Up!Check
  <1>7. Up!Check(channel) = Up!NoRelease \/ Up!Check(channel) \in newer
    <2>. HIDE DEF newer
    <2>1. QED
      BY <1>5, <1>6
  <1>8. QED
    BY <1>1, <1>7 DEF Versions, Up!IsNewer

LEMMA WallClock ==
  ASSUME Up!ConstantsOK, UpdatesTyped, ClockOK PROVE Up!now \in 1 .. MaxClock
  BY DEF Up!ConstantsOK, UpdatesTyped, Worlds, ClockOK, Up!now

\* Until: a wait, which ends with the floor or the schedule, counted from the check.
LEMMA UntilWaits ==
  ASSUME Up!ConstantsOK, UpdatesTyped, ClockOK, NEW rec \in Up!Records, NEW wait \in Nat
  PROVE  /\ Up!Until(rec, wait) \in Nat
         /\ rec.check # 0 =>
              updates_world.clock + Up!Until(rec, wait) >= wait + rec.check + updates_world.behind
              \/ updates_world.clock + Up!Until(rec, wait) >= wait + updates_world.clock
  <1>1. rec.check \in Nat /\ Up!now \in Nat
    BY WallClock DEF Up!Records, Up!ConstantsOK
  <1>2. /\ updates_world.clock \in Nat /\ updates_world.behind \in Nat
        /\ Up!now = updates_world.clock - updates_world.behind
    BY DEF UpdatesTyped, Worlds, Up!ConstantsOK, Up!now
  <1>. HIDE DEF Up!now
  <1>3. QED
    BY <1>1, <1>2 DEF Up!Until

\* Save: the record is on disk, or a fault is spent and what was known of the last query
\* is given up.
LEMMA Saves ==
  ASSUME Up!ConstantsOK, UpdatesTyped, ClockOK, NEW rec \in Up!Records, Up!Save(rec)
  PROVE  /\ updates_history' \in Journals /\ updates_ledger' \in Up!Records
         /\ updates_history'.asked = updates_history.asked
         /\ updates_history'.switches = updates_history.switches
         /\ \/ /\ updates_ledger' = rec /\ updates_history'.faults = updates_history.faults
               /\ updates_history'.query =
                    IF updates_w.at = "query" THEN updates_world.clock
                    ELSE IF updates_w.at = "save" THEN updates_w.real
                    ELSE updates_history.query
            \/ /\ updates_ledger' = updates_ledger /\ updates_history'.query = 0
               /\ updates_history'.faults = updates_history.faults + 1
               /\ Up!Trouble < MaxTrouble
  <1>. DEFINE q == CASE updates_w.at = "query" -> updates_world.clock
                     [] updates_w.at = "save" -> updates_w.real
                     [] OTHER -> updates_history.query
  <1>1. /\ q \in 0 .. MaxClock
        /\ q = IF updates_w.at = "query" THEN updates_world.clock
               ELSE IF updates_w.at = "save" THEN updates_w.real ELSE updates_history.query
    BY DEF UpdatesTyped, Worlds, Watchers, Journals, Up!ConstantsOK
  <1>. HIDE DEF q
  <1>2. CASE updates_ledger' = rec /\ updates_history' = [updates_history EXCEPT !.query = q]
    BY <1>1, <1>2 DEF UpdatesTyped, Journals
  <1>3. CASE /\ Up!Trouble < MaxTrouble /\ UNCHANGED updates_ledger
             /\ updates_history' = [updates_history EXCEPT !.faults = @ + 1, !.query = 0]
    <2>1. 0 \in 0 .. MaxClock
      BY DEF Up!ConstantsOK
    <2>2. updates_history \in Journals /\ updates_ledger \in Up!Records
      BY DEF UpdatesTyped
    <2>3. updates_history.faults + 1 \in Nat
      BY <2>2 DEF Journals
    <2>4. updates_history' \in Journals
      BY <1>3, <2>1, <2>2, <2>3 DEF Journals
    <2>5. /\ updates_history'.query = 0
          /\ updates_history'.faults = updates_history.faults + 1
          /\ updates_history'.asked = updates_history.asked
          /\ updates_history'.switches = updates_history.switches
      BY <1>3, <2>1, <2>2 DEF Journals
    <2>6. QED
      BY <1>3, <2>2, <2>5, <2>4
  <1>4. QED
    BY <1>2, <1>3 DEF Up!Save, q

LEMMA UpdatesInit == Up!ConstantsOK /\ Up!Init => UpdatesInv
  <1>. SUFFICES ASSUME Up!ConstantsOK, Up!Init PROVE UpdatesInv
    OBVIOUS
  <1>1. UpdatesTyped
    <2>1. updates_world \in Worlds /\ updates_history \in Journals
      BY DEF Up!Init, Worlds, Journals, Up!ConstantsOK
    <2>2. updates_w \in Watchers /\ updates_asked \in Askers
      <3>1. 0 \in 0 .. MaxClock
        BY DEF Up!ConstantsOK
      <3>2. QED
        BY <3>1, VersionsAre DEF Up!Init, Watchers, Askers, Versions
    <2>3. updates_ledger \in Up!Records
      BY VersionsAre DEF Up!Init, Up!Records, Versions
    <2>4. QED
      BY <2>1, <2>2, <2>3 DEF Up!Init, UpdatesTyped, Channels
  <1>2. ClockOK /\ AskerOK /\ WatcherOK /\ ScheduleOK
    BY DEF Up!Init, ClockOK, AskerOK, WatcherOK, ScheduleOK, Up!Trouble, Up!ConstantsOK
  <1>3. QED
    BY <1>1, <1>2 DEF UpdatesInv, Up!Init, Up!SeenIsSaid, Up!AnnouncedIsNewer, Up!Up

-----------------------------------------------------------------------------
\* The top of the loop: the ledger, without what was seen on another channel, and a wait.
Reread == [updates_ledger EXCEPT !.seen =
             IF updates_w.last \notin {"none", updates_config.channel} THEN Up!NoRelease ELSE @]

LEMMA RoundIs ==
  ASSUME Up!ConstantsOK, UpdatesTyped, ClockOK, Up!Round
  PROVE  /\ Reread \in Up!Records /\ Reread.check = updates_ledger.check
         /\ Reread.seen \in {Up!NoRelease, updates_ledger.seen}
         /\ Up!Save(Reread) \/ UNCHANGED <<updates_ledger, updates_history>>
         /\ \E due \in Nat :
              /\ updates_w' = [updates_w EXCEPT !.at = "sleeping", !.rec = Reread, !.first = FALSE,
                   !.enabled = updates_config.enabled, !.channel = updates_config.channel,
                   !.last = updates_config.channel, !.due = due]
              /\ updates_ledger.check # 0 =>
                   \/ due >= Floor + updates_ledger.check + updates_world.behind
                   \/ due >= Floor + updates_world.clock
  <1>1. /\ Reread \in Up!Records /\ Reread.check = updates_ledger.check
        /\ Reread.seen \in {Up!NoRelease, updates_ledger.seen}
    BY DEF UpdatesTyped, Up!Records, Reread
  <1>2. PICK j \in Jitter :
          updates_w' = [updates_w EXCEPT !.at = "sleeping", !.rec = Reread, !.first = FALSE,
               !.enabled = updates_config.enabled, !.channel = updates_config.channel,
               !.last = updates_config.channel,
               !.due = updates_world.clock + IF updates_w.first THEN Up!Until(Reread, Floor) + j
                                                        ELSE Up!Until(Reread, Interval)]
    BY DEF Up!Round, Reread
  <1>3. Up!Save(Reread) \/ UNCHANGED <<updates_ledger, updates_history>>
    BY DEF Up!Round, Reread
  <1>. DEFINE due == updates_world.clock + IF updates_w.first THEN Up!Until(Reread, Floor) + j
                                                              ELSE Up!Until(Reread, Interval)
  <1>4. /\ j \in Nat /\ Floor \in Nat /\ Interval \in Nat /\ Floor <= Interval
        /\ updates_world.clock \in Nat /\ updates_world.behind \in Nat
        /\ updates_ledger.check \in Nat
    BY DEF Up!ConstantsOK, UpdatesTyped, Worlds, Up!Records
  <1>5. /\ due \in Nat
        /\ updates_ledger.check # 0 =>
             \/ due >= Floor + updates_ledger.check + updates_world.behind
             \/ due >= Floor + updates_world.clock
    <2>1. CASE updates_w.first
      <3>1. /\ Up!Until(Reread, Floor) \in Nat
            /\ updates_ledger.check # 0 =>
                 \/ updates_world.clock + Up!Until(Reread, Floor)
                      >= Floor + updates_ledger.check + updates_world.behind
                 \/ updates_world.clock + Up!Until(Reread, Floor) >= Floor + updates_world.clock
        BY <1>1, <1>4, UntilWaits
      <3>2. QED
        BY <1>4, <2>1, <3>1
    <2>2. CASE ~updates_w.first
      <3>1. /\ Up!Until(Reread, Interval) \in Nat
            /\ updates_ledger.check # 0 =>
                 \/ updates_world.clock + Up!Until(Reread, Interval)
                      >= Interval + updates_ledger.check + updates_world.behind
                 \/ updates_world.clock + Up!Until(Reread, Interval)
                      >= Interval + updates_world.clock
        BY <1>1, <1>4, UntilWaits
      <3>2. QED
        BY <1>4, <2>2, <3>1
    <2>3. QED
      BY <2>1, <2>2
  <1>6. QED
    <2>. HIDE DEF due
    <2>1. updates_w' = [updates_w EXCEPT !.at = "sleeping", !.rec = Reread, !.first = FALSE,
               !.enabled = updates_config.enabled, !.channel = updates_config.channel,
               !.last = updates_config.channel, !.due = due]
      BY <1>2 DEF due
    <2>2. QED
      BY <1>1, <1>3, <1>5, <2>1

\* What the watcher writes down: the record on disk without what another channel saw, or
\* what it made of the check.
LEMMA WatcherSaves ==
  ASSUME Up!ConstantsOK, UpdatesTyped, ClockOK
  PROVE  LET Lost == UNCHANGED updates_ledger /\ updates_history'.query = 0
             Same == updates_history'.asked = updates_history.asked
         IN
         /\ Up!Round => /\ Same
                        /\ Lost \/ (/\ updates_ledger' \in {updates_ledger, Reread}
                                     /\ updates_history'.query = updates_history.query)
         /\ Up!Skip => /\ Same
                       /\ Lost \/ (/\ updates_ledger' = [updates_ledger EXCEPT !.check = Up!now]
                                    /\ updates_history'.query = updates_history.query)
         /\ Up!Fail => /\ Same
                       /\ Lost \/ (/\ updates_ledger' = [updates_w.rec EXCEPT !.check = Up!now]
                                    /\ updates_history'.query = updates_world.clock)
         /\ Up!Record => /\ Same
                         /\ Lost \/ (/\ updates_ledger' = updates_w.rec
                                      /\ updates_history'.query = updates_w.real)
  <1>1. /\ [updates_ledger EXCEPT !.check = Up!now] \in Up!Records
        /\ [updates_w.rec EXCEPT !.check = Up!now] \in Up!Records
        /\ updates_w.rec \in Up!Records
    BY WallClock DEF Up!Records, UpdatesTyped, Watchers
  <1>2. ASSUME Up!Round
        PROVE  /\ updates_history'.asked = updates_history.asked
               /\ \/ UNCHANGED updates_ledger /\ updates_history'.query = 0
                  \/ /\ updates_ledger' \in {updates_ledger, Reread}
                     /\ updates_history'.query = updates_history.query
    <2>1. Up!Save(Reread) \/ UNCHANGED <<updates_ledger, updates_history>>
      BY <1>2, RoundIs
    <2>2. Reread \in Up!Records /\ updates_w.at = "round"
      BY <1>2, RoundIs DEF Up!Round
    <2>3. QED
      BY <2>1, <2>2, Saves
  <1>3. Up!Skip => Up!Save([updates_ledger EXCEPT !.check = Up!now]) /\ updates_w.at = "sleeping"
    BY DEF Up!Skip, Up!Due
  <1>4. Up!Fail => Up!Save([updates_w.rec EXCEPT !.check = Up!now]) /\ updates_w.at = "query"
    BY DEF Up!Fail
  <1>5. Up!Record => Up!Save(updates_w.rec) /\ updates_w.at = "save"
    BY DEF Up!Record
  <1>6. QED
    BY <1>1, <1>2, <1>3, <1>4, <1>5, Saves

LEMMA AgainType ==
  ASSUME Up!ConstantsOK, UpdatesTyped, NEW at \in {"down", "round", "backoff"}
  PROVE  Up!Again(at) \in Watchers /\ Up!Again(at).at = at
  <1>1. 0 \in 0 .. MaxClock /\ Up!Blank \in Up!Records /\ Up!NoRelease \in Versions
    BY VersionsAre DEF Up!ConstantsOK, Versions
  <1>2. Up!Again(at) \in Watchers
    BY <1>1 DEF UpdatesTyped, Watchers, Up!Again
  <1>3. Up!Again(at).at = at
    BY DEF UpdatesTyped, Watchers, Up!Again
  <1>4. QED
    BY <1>2, <1>3

LEMMA AgainMoves ==
  ASSUME Up!ConstantsOK, UpdatesTyped
  PROVE  /\ Up!Skip \/ Up!Record => updates_w'.at = "round"
         /\ Up!Fail => updates_w'.at = "backoff"
         /\ Up!Crash => updates_w'.at = "down"
  <1>1. \A at \in {"down", "round", "backoff"} :
          Up!Again(at) \in Watchers /\ Up!Again(at).at = at
    BY AgainType
  <1>2. QED
    BY <1>1 DEF Up!Skip, Up!Record, Up!Fail, Up!Crash, Watchers

\* Only a query begins a query.
LEMMA WatcherMoves ==
  ASSUME Up!ConstantsOK, UpdatesTyped, ClockOK, Up!Next, updates_w.at # "query",
         updates_w'.at = "query"
  PROVE  Up!Query
  <1>1. ~(Up!Start \/ Up!Backoff \/ Up!Succeed \/ Up!Report)
    BY DEF Up!Start, Up!Backoff, Up!Succeed, Up!Report, UpdatesTyped, Watchers
  <1>2. ~Up!Round
    <2>1. Up!Round => \E due : updates_w' = [updates_w EXCEPT !.at = "sleeping", !.rec = Reread,
            !.first = FALSE, !.enabled = updates_config.enabled,
            !.channel = updates_config.channel, !.last = updates_config.channel, !.due = due]
      BY RoundIs
    <2>2. QED
      BY <2>1 DEF UpdatesTyped, Watchers
  <1>3. ~(Up!Skip \/ Up!Fail \/ Up!Record \/ Up!Crash)
    BY AgainMoves
  <1>4. ~(\/ Up!Ask \/ Up!Answer \/ Up!AskedSave \/ Up!Announce \/ Up!Switch \/ Up!Publish
          \/ Up!Tick \/ Up!SetBack)
    BY DEF Up!Ask, Up!Answer, Up!AskedSave, Up!Announce, Up!Switch, Up!Publish, Up!Tick,
       Up!SetBack, UpdatesTyped, Watchers
  <1>5. QED
    BY <1>1, <1>2, <1>3, <1>4 DEF Up!Next

LEMMA UpdatesTypes ==
  ASSUME Up!ConstantsOK, UpdatesTyped, ClockOK, AskerOK, WatcherOK, [Up!Next]_Up!vars
  PROVE  UpdatesTyped'
  <1>. USE DEF UpdatesTyped
  <1>a. 0 \in 0 .. MaxClock /\ Up!Blank \in Up!Records /\ Up!NoRelease \in Versions
        /\ Up!now \in 0 .. MaxClock /\ Up!now \in 1 .. MaxClock
    BY VersionsAre, WallClock DEF Up!ConstantsOK, Versions
  <1>b. ASSUME NEW at \in {"down", "round", "backoff"} PROVE Up!Again(at) \in Watchers
    BY AgainType
  <1>1. CASE Up!Start
    <2>1. updates_history' \in Journals
      BY <1>1 DEF Up!Start, Journals
    <2>2. updates_w' \in Watchers
      BY <1>1 DEF Up!Start, Watchers
    <2>3. updates_said' \subseteq Published
      BY <1>1, VersionsAre DEF Up!Start, Up!IsNewer, Up!Records, Versions
    <2>4. QED
      BY <1>1, <2>1, <2>2, <2>3 DEF Up!Start
  <1>2. CASE Up!Round
    <2>1. updates_history' \in Journals /\ updates_ledger' \in Up!Records
      BY <1>2, RoundIs, Saves
    <2>2. updates_w' \in Watchers
      <3>1. Reread \in Up!Records /\ updates_w \in Watchers
              /\ updates_config \in [enabled : BOOLEAN, channel : Channels]
        BY <1>2, RoundIs
      <3>2. PICK due \in Nat : updates_w' =
              [updates_w EXCEPT !.at = "sleeping", !.rec = Reread, !.first = FALSE,
                 !.enabled = updates_config.enabled, !.channel = updates_config.channel,
                 !.last = updates_config.channel, !.due = due]
        BY <1>2, RoundIs
      <3>3. QED
        BY <3>1, <3>2 DEF Watchers, Channels
    <2>3. QED
      BY <1>2, <2>1, <2>2 DEF Up!Round
  <1>3. CASE Up!Skip
    <2>1. [updates_ledger EXCEPT !.check = Up!now] \in Up!Records
      BY <1>a DEF Up!Records
    <2>2. updates_history' \in Journals /\ updates_ledger' \in Up!Records
      BY <1>3, <2>1, Saves DEF Up!Skip
    <2>3. updates_w' \in Watchers
      BY <1>3, <1>b DEF Up!Skip, Watchers
    <2>4. QED
      BY <1>3, <2>2, <2>3 DEF Up!Skip
  <1>4. CASE Up!Query
    <2>1. updates_w' \in Watchers
      BY <1>4 DEF Up!Query, Watchers
    <2>2. QED
      BY <1>4, <2>1 DEF Up!Query
  <1>5. CASE Up!Fail
    <2>1. [updates_w.rec EXCEPT !.check = Up!now] \in Up!Records
      BY <1>a DEF Up!Records, Watchers
    <2>2. updates_history' \in Journals /\ updates_ledger' \in Up!Records
      BY <1>5, <2>1, Saves DEF Up!Fail
    <2>3. updates_world.clock \in Nat /\ updates_world.clock + Retry \in Nat
      BY DEF Worlds, Up!ConstantsOK
    <2>4. updates_w' \in Watchers
      BY <1>5, <1>b, <2>3 DEF Up!Fail, Watchers
    <2>5. QED
      BY <1>5, <2>2, <2>4 DEF Up!Fail
  <1>6. CASE Up!Backoff
    <2>1. updates_w' \in Watchers
      BY <1>6 DEF Up!Backoff, Watchers
    <2>2. QED
      BY <1>6, <2>1 DEF Up!Backoff
  <1>7. CASE Up!Succeed
    <2>1. Up!Check(updates_w.channel) \in Versions
      BY CheckFinds
    <2>2. \A s \in Versions : [check |-> Up!now, success |-> Up!now, seen |-> s] \in Up!Records
      BY <1>a DEF Up!Records, Versions
    <2>3. updates_w.rec.seen \in Versions /\ updates_world.clock \in 0 .. MaxClock
      BY DEF Watchers, Worlds, Up!Records, Versions
    <2>4. \E at \in {"report", "save"}, rec \in Up!Records :
            updates_w' = [updates_w EXCEPT !.at = at, !.found = Up!Check(updates_w.channel),
                                           !.real = updates_world.clock, !.rec = rec]
      BY <1>7, <2>1, <2>2, <2>3 DEF Up!Succeed
    <2>5. updates_w' \in Watchers
      <3>1. PICK at \in {"report", "save"}, rec \in Up!Records :
              updates_w' = [updates_w EXCEPT !.at = at, !.found = Up!Check(updates_w.channel),
                                             !.real = updates_world.clock, !.rec = rec]
        BY <2>4
      <3>2. QED
        BY <2>1, <2>3, <3>1 DEF Watchers
    <2>6. QED
      BY <1>7, <2>5 DEF Up!Succeed
  <1>8. CASE Up!Report
    <2>1. updates_w' \in Watchers
      BY <1>8 DEF Up!Report, Watchers
    <2>2. updates_said' \subseteq Published
      BY <1>8, VersionsAre DEF Up!Report, WatcherOK, Watchers, Up!IsNewer
    <2>3. QED
      BY <1>8, <2>1, <2>2 DEF Up!Report
  <1>9. CASE Up!Record
    <2>1. updates_w.rec \in Up!Records
      BY DEF Watchers
    <2>2. updates_history' \in Journals /\ updates_ledger' \in Up!Records
      BY <1>9, <2>1, Saves DEF Up!Record
    <2>3. QED
      BY <1>9, <1>b, <2>2 DEF Up!Record
  <1>10. CASE Up!Ask
    <2>1. updates_history' \in Journals
      BY <1>10 DEF Up!Ask, Journals
    <2>2. updates_config.channel \in Channels
      OBVIOUS
    <2>3. updates_asked' = [updates_asked EXCEPT !.at = "query",
                                                 !.channel = updates_config.channel]
      BY <1>10 DEF Up!Ask
    <2>4. updates_asked' \in Askers
      BY <2>2, <2>3 DEF Askers
    <2>5. QED
      BY <1>10, <2>1, <2>4 DEF Up!Ask
  <1>11. CASE Up!Answer
    <2>1. Up!Check(updates_asked.channel) \in Versions /\ updates_ledger.seen \in Versions
      BY CheckFinds DEF Up!Records, Versions
    <2>2. \A s \in Versions : [check |-> Up!now, success |-> Up!now, seen |-> s] \in Up!Records
      BY <1>a DEF Up!Records, Versions
    <2>3. \/ updates_asked' = [updates_asked EXCEPT !.at = "idle", !.channel = "none"]
          \/ \E rec \in Up!Records :
               updates_asked' = [at |-> "save", found |-> Up!Check(updates_asked.channel),
                                 channel |-> "none", rec |-> rec]
      BY <1>11, <2>1, <2>2 DEF Up!Answer
    <2>4. updates_asked' \in Askers
      <3>1. CASE updates_asked' = [updates_asked EXCEPT !.at = "idle", !.channel = "none"]
        BY <3>1 DEF Askers
      <3>2. ASSUME NEW rec \in Up!Records,
                   updates_asked' = [at |-> "save", found |-> Up!Check(updates_asked.channel),
                                     channel |-> "none", rec |-> rec]
            PROVE  updates_asked' \in Askers
        BY <2>1, <3>2 DEF Askers
      <3>3. QED
        BY <2>3, <3>1, <3>2
    <2>5. QED
      BY <1>11, <2>4 DEF Up!Answer
  <1>12. CASE Up!AskedSave
    <2>1. updates_asked.rec \in Up!Records
      BY DEF Askers
    <2>2. updates_history' \in Journals /\ updates_ledger' \in Up!Records
      BY <1>12, <2>1, Saves DEF Up!AskedSave
    <2>3. updates_asked' \in Askers
      BY <1>12 DEF Up!AskedSave, Askers
    <2>4. updates_w' \in Watchers
      <3>1. PICK b \in BOOLEAN : updates_w' = [updates_w EXCEPT !.raced = b]
        BY <1>12 DEF Up!AskedSave, Watchers
      <3>2. QED
        BY <3>1 DEF Watchers
    <2>5. QED
      BY <1>12, <2>2, <2>3, <2>4 DEF Up!AskedSave
  <1>13. CASE Up!Announce
    <2>1. updates_asked' \in Askers
      BY <1>13 DEF Up!Announce, Askers
    <2>2. updates_said' \subseteq Published
      BY <1>13, VersionsAre DEF Up!Announce, AskerOK, Askers, Up!IsNewer
    <2>3. QED
      BY <1>13, <2>1, <2>2 DEF Up!Announce
  <1>14. CASE Up!Switch
    <2>1. updates_history' \in Journals
      BY <1>14 DEF Up!Switch, Journals
    <2>2. updates_config' \in [enabled : BOOLEAN, channel : Channels]
      BY <1>14 DEF Up!Switch, Channels
    <2>3. QED
      BY <1>14, <2>1, <2>2 DEF Up!Switch
  <1>15. CASE Up!Publish \/ Up!Tick \/ Up!SetBack
    <2>1. CASE Up!Publish
      <3>1. updates_world' \in Worlds
        BY <2>1 DEF Up!Publish, Worlds
      <3>2. QED
        BY <2>1, <3>1 DEF Up!Publish
    <2>2. CASE Up!Tick
      <3>1. updates_world.clock + 1 \in 1 .. MaxClock
        BY <2>2 DEF Up!Tick, Worlds, Up!ConstantsOK
      <3>2. updates_world' \in Worlds
        BY <2>2, <3>1 DEF Up!Tick, Worlds
      <3>3. QED
        BY <2>2, <3>2 DEF Up!Tick
    <2>3. CASE Up!SetBack
      <3>1. updates_world.behind + 1 \in 0 .. MaxTrouble
        BY <2>3 DEF Up!SetBack, Up!Trouble, ClockOK, Worlds, Journals, Up!ConstantsOK
      <3>2. updates_world' \in Worlds
        BY <2>3, <3>1 DEF Up!SetBack, Worlds
      <3>3. updates_history' \in Journals
        BY <2>3 DEF Up!SetBack, Journals
      <3>4. QED
        BY <2>3, <3>2, <3>3 DEF Up!SetBack
    <2>4. QED
      BY <1>15, <2>1, <2>2, <2>3
  <1>16. CASE Up!Crash
    <2>1. updates_w' \in Watchers
      BY <1>16, <1>b DEF Up!Crash, Watchers
    <2>2. updates_asked' \in Askers
      BY <1>16, <1>a DEF Up!Crash, Askers
    <2>3. QED
      BY <1>16, <2>1, <2>2 DEF Up!Crash
  <1>17. CASE UNCHANGED Up!vars
    BY <1>17 DEF Up!vars
  <1>18. QED
    BY <1>1, <1>2, <1>3, <1>4, <1>5, <1>6, <1>7, <1>8, <1>9, <1>10, <1>11, <1>12, <1>13, <1>14,
       <1>15, <1>16, <1>17 DEF Up!Next

LEMMA ClockStep ==
  ASSUME Up!ConstantsOK, UpdatesTyped, ClockOK, [Up!Next]_Up!vars
  PROVE  ClockOK'
  <1>0. /\ updates_world.clock \in Nat /\ updates_world.behind \in Nat
        /\ updates_history.faults \in Nat /\ updates_history.switches \in Nat
        /\ MaxTrouble \in Nat
    BY DEF UpdatesTyped, Worlds, Journals, Up!ConstantsOK
  <1>. USE DEF ClockOK, Up!Trouble
  <1>1. CASE Up!Start \/ Up!Ask
    BY <1>1 DEF Up!Start, Up!Ask, UpdatesTyped, Journals
  <1>2. ASSUME NEW rec \in Up!Records, Up!Save(rec), UNCHANGED updates_world
        PROVE  ClockOK'
    BY <1>0, <1>2, Saves
  <1>3. CASE Up!Round
    BY <1>0, <1>2, <1>3, RoundIs DEF Up!Round
  <1>4. CASE Up!Skip
    <2>1. [updates_ledger EXCEPT !.check = Up!now] \in Up!Records
      BY WallClock DEF Up!Records, UpdatesTyped
    <2>2. QED
      BY <1>2, <1>4, <2>1 DEF Up!Skip
  <1>5. CASE Up!Fail
    <2>1. [updates_w.rec EXCEPT !.check = Up!now] \in Up!Records
      BY WallClock DEF Up!Records, UpdatesTyped, Watchers
    <2>2. QED
      BY <1>2, <1>5, <2>1 DEF Up!Fail
  <1>6. CASE Up!Record
    BY <1>2, <1>6 DEF Up!Record, UpdatesTyped, Watchers
  <1>7. CASE Up!AskedSave
    BY <1>2, <1>7 DEF Up!AskedSave, UpdatesTyped, Askers
  <1>8. CASE Up!Switch
    BY <1>0, <1>8 DEF Up!Switch, UpdatesTyped, Journals
  <1>9. CASE Up!Tick
    BY <1>0, <1>9 DEF Up!Tick, UpdatesTyped, Worlds
  <1>10. CASE Up!SetBack
    <2>1. /\ updates_world'.clock = updates_world.clock
          /\ updates_world'.behind = updates_world.behind + 1
          /\ updates_history'.faults = updates_history.faults + 1
          /\ updates_history'.switches = updates_history.switches
      BY <1>10 DEF Up!SetBack, UpdatesTyped, Worlds, Journals
    <2>2. QED
      BY <1>0, <1>10, <2>1 DEF Up!SetBack, Up!now
  <1>11. CASE Up!Publish
    BY <1>11 DEF Up!Publish, UpdatesTyped, Worlds
  <1>12. CASE \/ Up!Query \/ Up!Backoff \/ Up!Succeed \/ Up!Report \/ Up!Answer \/ Up!Announce
              \/ Up!Crash \/ UNCHANGED Up!vars
    BY <1>12 DEF Up!Query, Up!Backoff, Up!Succeed, Up!Report, Up!Answer, Up!Announce, Up!Crash,
       Up!vars
  <1>13. QED
    BY <1>1, <1>3, <1>4, <1>5, <1>6, <1>7, <1>8, <1>9, <1>10, <1>11, <1>12 DEF Up!Next

\* The console's check, from the question to the announcement.
LEMMA AskerStep ==
  ASSUME Up!ConstantsOK, UpdatesTyped, ClockOK, AskerOK, Up!SeenIsSaid, [Up!Next]_Up!vars
  PROVE  AskerOK'
  <1>. USE DEF AskerOK
  <1>1. CASE Up!Ask
    BY <1>1 DEF Up!Ask, Up!Up, UpdatesTyped, Askers, Journals
  <1>2. CASE Up!Answer
    <2>1. /\ Up!Check(updates_asked.channel) # Up!NoRelease =>
               Up!IsNewer(Up!Check(updates_asked.channel), Up!Running)
          /\ Up!IsNewer(updates_ledger.seen, Up!Running) => updates_ledger.seen \in updates_said
      BY <1>2, CheckFinds DEF Up!Answer, Up!SeenIsSaid
    <2>2. CASE updates_asked' = [updates_asked EXCEPT !.at = "idle", !.channel = "none"]
      BY <1>2, <2>2 DEF Up!Answer, UpdatesTyped, Askers
    <2>3. CASE updates_asked' = [at |-> "save", found |-> Up!Check(updates_asked.channel),
                 channel |-> "none", rec |-> [check |-> Up!now, success |-> Up!now,
                          seen |-> IF Up!Check(updates_asked.channel) # Up!NoRelease
                                   THEN Up!Check(updates_asked.channel)
                                   ELSE updates_ledger.seen]]
      BY <1>2, <2>1, <2>3 DEF Up!Answer, Up!Up
    <2>4. QED
      BY <1>2, <2>2, <2>3 DEF Up!Answer
  <1>3. CASE Up!AskedSave
    <2>1. /\ updates_history'.asked = updates_history.asked /\ updates_w'.at = updates_w.at
          /\ updates_asked'.found = updates_asked.found /\ updates_asked.at = "save"
          /\ updates_asked'.at = IF updates_asked.found = Up!NoRelease THEN "idle" ELSE "announce"
      BY <1>3, Saves DEF Up!AskedSave, UpdatesTyped, Askers, Watchers
    <2>2. QED
      BY <2>1 DEF Up!Up
  <1>4. CASE Up!Announce
    BY <1>4 DEF Up!Announce, UpdatesTyped, Askers
  <1>5. CASE Up!Crash
    BY <1>5 DEF Up!Crash
  <1>6. CASE Up!Start
    BY <1>6 DEF Up!Start, Up!Up
  <1>7. ASSUME updates_asked' = updates_asked, updates_history'.asked = updates_history.asked,
               updates_said \subseteq updates_said', Up!Up => Up!Up'
        PROVE  AskerOK'
    BY <1>7
  <1>8. CASE Up!Round \/ Up!Skip \/ Up!Fail \/ Up!Record
    <2>1. updates_history'.asked = updates_history.asked
      BY <1>8, WatcherSaves
    <2>2. Up!Up'
      <3>1. CASE Up!Round
        <4>1. \E due \in Nat : updates_w' =
                [updates_w EXCEPT !.at = "sleeping", !.rec = Reread, !.first = FALSE,
                   !.enabled = updates_config.enabled, !.channel = updates_config.channel,
                   !.last = updates_config.channel, !.due = due]
          BY <3>1, RoundIs
        <4>2. QED
          BY <4>1 DEF Up!Up, UpdatesTyped, Watchers
      <3>2. QED
        BY <1>8, <3>1, AgainMoves DEF Up!Up
    <2>3. QED
      BY <1>7, <1>8, <2>1, <2>2 DEF Up!Round, Up!Skip, Up!Fail, Up!Record
  <1>9. CASE Up!Query \/ Up!Backoff \/ Up!Succeed \/ Up!Report
    <2>1. Up!Up'
      BY <1>9 DEF Up!Query, Up!Backoff, Up!Succeed, Up!Report, Up!Up, UpdatesTyped, Watchers
    <2>2. QED
      BY <1>7, <1>9, <2>1 DEF Up!Query, Up!Backoff, Up!Succeed, Up!Report
  <1>10. CASE Up!Switch \/ Up!Publish \/ Up!Tick \/ Up!SetBack \/ UNCHANGED Up!vars
    BY <1>7, <1>10 DEF Up!Switch, Up!Publish, Up!Tick, Up!SetBack, Up!vars, Up!Up, UpdatesTyped,
       Journals
  <1>11. QED
    BY <1>1, <1>2, <1>3, <1>4, <1>5, <1>6, <1>8, <1>9, <1>10 DEF Up!Next

LEMMA WatcherStep ==
  ASSUME Up!ConstantsOK, UpdatesTyped, ClockOK, AskerOK, WatcherOK, Up!SeenIsSaid,
         [Up!Next]_Up!vars
  PROVE  WatcherOK'
  <1>. USE DEF WatcherOK
  <1>1. CASE \/ Up!Start \/ Up!Round \/ Up!Skip \/ Up!Fail \/ Up!Backoff \/ Up!Record
             \/ Up!Crash
    <2>1. updates_w'.at \notin {"query", "report", "save"}
      <3>1. CASE Up!Start \/ Up!Backoff
        BY <3>1 DEF Up!Start, Up!Backoff, UpdatesTyped, Watchers
      <3>2. CASE Up!Round
        <4>1. \E due : updates_w' = [updates_w EXCEPT !.at = "sleeping", !.rec = Reread,
                !.first = FALSE, !.enabled = updates_config.enabled,
                !.channel = updates_config.channel, !.last = updates_config.channel, !.due = due]
          BY <3>2, RoundIs
        <4>2. QED
          BY <4>1 DEF UpdatesTyped, Watchers
      <3>3. CASE Up!Skip \/ Up!Fail \/ Up!Record \/ Up!Crash
        BY <3>3, AgainMoves
      <3>4. QED
        BY <1>1, <3>1, <3>2, <3>3
    <2>2. QED
      BY <2>1
  <1>2. CASE Up!Query
    <2>1. /\ updates_w'.at = "query" /\ updates_w'.rec = updates_ledger
          /\ UNCHANGED <<updates_ledger, updates_said, updates_asked>>
      BY <1>2 DEF Up!Query, UpdatesTyped, Watchers
    <2>2. Up!IsNewer(updates_ledger.seen, Up!Running) => Told(updates_ledger.seen)
      BY <1>2 DEF Up!Query, Up!Due, Up!SeenIsSaid, Up!Up, Told
    <2>3. QED
      BY <2>1, <2>2 DEF Told
  <1>3. CASE Up!Succeed
    <2>1. PICK found \in Versions :
            /\ found # Up!NoRelease => Up!IsNewer(found, Up!Running)
            /\ LET report == found # Up!NoRelease /\ found # updates_w.rec.seen IN
               updates_w' = [updates_w EXCEPT
                 !.at = IF report THEN "report" ELSE "save",
                 !.found = found, !.real = updates_world.clock,
                 !.rec = [check |-> Up!now, success |-> Up!now,
                          seen |-> IF report THEN found ELSE updates_w.rec.seen]]
      BY <1>3, CheckFinds DEF Up!Succeed
    <2>2. CASE found # Up!NoRelease /\ found # updates_w.rec.seen
      <3>1. /\ updates_w'.at = "report" /\ updates_w'.found = found
            /\ updates_w'.rec.seen = found /\ updates_w'.raced = updates_w.raced
        BY <2>1, <2>2 DEF UpdatesTyped, Watchers
      <3>2. QED
        BY <1>3, <2>1, <2>2, <3>1 DEF Up!Succeed
    <2>3. CASE ~(found # Up!NoRelease /\ found # updates_w.rec.seen)
      <3>1. updates_w'.at = "save" /\ updates_w'.rec.seen = updates_w.rec.seen
        BY <2>1, <2>3 DEF UpdatesTyped, Watchers
      <3>2. QED
        BY <1>3, <3>1 DEF Up!Succeed, Told
    <2>4. QED
      BY <2>2, <2>3
  <1>4. CASE Up!Report
    <2>1. /\ updates_w'.at = "save" /\ updates_w'.rec = updates_w.rec
          /\ updates_w.rec.seen = updates_w.found
      BY <1>4 DEF Up!Report, UpdatesTyped, Watchers
    <2>2. QED
      BY <1>4, <2>1 DEF Up!Report, Told
  <1>5. CASE Up!AskedSave
    <2>1. /\ updates_w'.at = updates_w.at /\ updates_w'.rec = updates_w.rec
          /\ updates_w'.found = updates_w.found
          /\ updates_w.at \in {"query", "report"} => updates_w'.raced
      BY <1>5 DEF Up!AskedSave, UpdatesTyped, Watchers
    <2>2. updates_said' = updates_said /\ updates_asked.at = "save"
      BY <1>5 DEF Up!AskedSave
    <2>3. QED
      BY <2>1, <2>2 DEF Told
  <1>6. CASE Up!Announce
    <2>1. updates_said' = updates_said \cup {updates_asked.found}
          /\ UNCHANGED <<updates_w, updates_ledger>>
      BY <1>6 DEF Up!Announce
    <2>2. \A r : Told(r) => r \in updates_said'
      BY <2>1 DEF Told
    <2>3. QED
      BY <2>1, <2>2 DEF Told
  <1>7. CASE Up!Ask \/ Up!Answer
    <2>1. UNCHANGED <<updates_w, updates_ledger, updates_said>> /\ updates_asked.at # "announce"
      BY <1>7 DEF Up!Ask, Up!Answer
    <2>2. QED
      BY <2>1 DEF Told
  <1>8. CASE Up!Switch \/ Up!Publish \/ Up!Tick \/ Up!SetBack \/ UNCHANGED Up!vars
    BY <1>8 DEF Up!Switch, Up!Publish, Up!Tick, Up!SetBack, Up!vars, Told
  <1>9. QED
    BY <1>1, <1>2, <1>3, <1>4, <1>5, <1>6, <1>7, <1>8 DEF Up!Next

\* Who is told of what.
LEMMA SaidStep ==
  ASSUME Up!ConstantsOK, UpdatesTyped, ClockOK, AskerOK, WatcherOK, Up!SeenIsSaid,
         Up!AnnouncedIsNewer, [Up!Next]_Up!vars
  PROVE  Up!SeenIsSaid' /\ Up!AnnouncedIsNewer'
  <1>. USE DEF Up!SeenIsSaid, Up!AnnouncedIsNewer
  <1>1. CASE Up!Start
    <2>1. /\ updates_said' = IF Up!IsNewer(updates_ledger.seen, Up!Running)
                             THEN {updates_ledger.seen} ELSE {}
          /\ updates_ledger' = updates_ledger
      BY <1>1 DEF Up!Start
    <2>2. QED
      BY <2>1 DEF Up!IsNewer
  <1>2. ASSUME updates_said' = updates_said, UNCHANGED updates_asked, Up!Up,
               \/ ~Up!IsNewer(updates_ledger'.seen, Up!Running)
               \/ updates_ledger'.seen = updates_ledger.seen
               \/ Told(updates_ledger'.seen)
        PROVE  Up!SeenIsSaid' /\ Up!AnnouncedIsNewer'
    BY <1>2 DEF Told
  <1>3. CASE Up!Round
    <2>1. updates_ledger'.seen \in {updates_ledger.seen, Up!NoRelease}
      BY <1>3, WatcherSaves, RoundIs
    <2>2. QED
      BY <1>2, <1>3, <2>1, VersionsAre DEF Up!Round, Up!Up
  <1>4. CASE Up!Skip
    <2>1. updates_ledger'.seen = updates_ledger.seen
      BY <1>4, WatcherSaves DEF UpdatesTyped, Up!Records
    <2>2. QED
      BY <1>2, <1>4, <2>1 DEF Up!Skip, Up!Due, Up!Up
  <1>5. CASE Up!Fail
    <2>1. updates_ledger'.seen \in {updates_ledger.seen, updates_w.rec.seen}
      BY <1>5, WatcherSaves DEF UpdatesTyped, Up!Records, Watchers
    <2>2. QED
      BY <1>2, <1>5, <2>1 DEF Up!Fail, Up!Up, WatcherOK
  <1>6. CASE Up!Record
    <2>1. updates_ledger'.seen \in {updates_ledger.seen, updates_w.rec.seen}
      BY <1>6, WatcherSaves
    <2>2. QED
      BY <1>2, <1>6, <2>1 DEF Up!Record, Up!Up, WatcherOK
  <1>7. CASE Up!Report
    <2>1. /\ updates_said' = updates_said \cup {updates_w.found} /\ updates_w.at = "report"
          /\ UNCHANGED <<updates_asked, updates_ledger>>
      BY <1>7 DEF Up!Report
    <2>2. QED
      BY <2>1 DEF Up!IsNewer, Up!Up, WatcherOK
  <1>8. CASE Up!AskedSave
    <2>1. updates_asked.at = "save" /\ updates_said' = updates_said
          /\ updates_ledger' \in {updates_ledger, updates_asked.rec}
      BY <1>8, Saves DEF Up!AskedSave, UpdatesTyped, Askers
    <2>2. /\ updates_asked'.at = IF updates_asked.found = Up!NoRelease THEN "idle" ELSE "announce"
          /\ updates_asked'.found = updates_asked.found
      BY <1>8 DEF Up!AskedSave, UpdatesTyped, Askers
    <2>3. QED
      BY <2>1, <2>2 DEF AskerOK
  <1>9. CASE Up!Announce
    <2>1. /\ updates_said' = updates_said \cup {updates_asked.found}
          /\ UNCHANGED <<updates_w, updates_ledger>> /\ updates_asked.at = "announce"
      BY <1>9 DEF Up!Announce
    <2>2. QED
      BY <2>1 DEF AskerOK, Up!IsNewer, Up!Up
  <1>10. CASE Up!Crash
    BY <1>10 DEF Up!Crash, Up!Again, Up!Up, UpdatesTyped, Watchers
  <1>11. CASE Up!Ask \/ Up!Answer
    <2>1. UNCHANGED <<updates_w, updates_ledger, updates_said>> /\ updates_asked.at # "announce"
      BY <1>11 DEF Up!Ask, Up!Answer
    <2>2. QED
      BY <2>1 DEF Up!Up
  <1>12. CASE Up!Query \/ Up!Backoff \/ Up!Succeed
    <2>1. UNCHANGED <<updates_asked, updates_ledger, updates_said>> /\ Up!Up
      BY <1>12 DEF Up!Query, Up!Due, Up!Backoff, Up!Succeed, Up!Up
    <2>2. QED
      BY <2>1
  <1>13. CASE Up!Switch \/ Up!Publish \/ Up!Tick \/ Up!SetBack \/ UNCHANGED Up!vars
    BY <1>13 DEF Up!Switch, Up!Publish, Up!Tick, Up!SetBack, Up!vars, Up!Up
  <1>14. QED
    BY <1>1, <1>3, <1>4, <1>5, <1>6, <1>7, <1>8, <1>9, <1>10, <1>11, <1>12, <1>13 DEF Up!Next

\* When the next query is due.
LEMMA ScheduleStep ==
  ASSUME Up!ConstantsOK, UpdatesTyped, ClockOK, AskerOK, WatcherOK, ScheduleOK,
         [Up!Next]_Up!vars
  PROVE  ScheduleOK'
  <1>0. /\ updates_world.clock \in Nat \ {0} /\ updates_world.behind \in Nat /\ Floor \in Nat
        /\ updates_history.query \in Nat /\ updates_ledger.check \in Nat
        /\ updates_w.rec.check \in Nat /\ updates_w.real \in Nat /\ updates_w.due \in Nat
        /\ Up!now = updates_world.clock - updates_world.behind /\ Up!now \in Nat \ {0}
    BY WallClock DEF UpdatesTyped, Worlds, Journals, Watchers, Up!Records, Up!ConstantsOK, Up!now
  <1>. HIDE DEF Up!now
  <1>. USE DEF ScheduleOK
  <1>1. CASE Up!Round
    <2>1. PICK due \in Nat :
            /\ updates_w' = [updates_w EXCEPT !.at = "sleeping", !.rec = Reread, !.first = FALSE,
                 !.enabled = updates_config.enabled, !.channel = updates_config.channel,
                 !.last = updates_config.channel, !.due = due]
            /\ updates_ledger.check # 0 =>
                 \/ due >= Floor + updates_ledger.check + updates_world.behind
                 \/ due >= Floor + updates_world.clock
      BY <1>1, RoundIs
    <2>2. updates_w'.at = "sleeping" /\ updates_w'.due = due
      BY <2>1 DEF UpdatesTyped, Watchers
    <2>3. /\ updates_history'.asked = updates_history.asked
          /\ updates_history'.query \in {0, updates_history.query}
          /\ updates_ledger'.check = updates_ledger.check
      BY <1>1, WatcherSaves, RoundIs
    <2>4. updates_world' = updates_world
      BY <1>1 DEF Up!Round
    <2>5. QED
      BY <1>0, <2>1, <2>2, <2>3, <2>4
  <1>2. CASE Up!Skip \/ Up!Fail \/ Up!Record
    <2>1. updates_w'.at \in {"round", "backoff"}
      BY <1>2, AgainMoves
    <2>2. /\ updates_history'.asked = updates_history.asked
          /\ updates_world' = updates_world
      BY <1>2, WatcherSaves DEF Up!Skip, Up!Fail, Up!Record
    <2>3. \/ updates_history'.query = 0
          \/ /\ Up!Skip /\ updates_ledger'.check = Up!now
             /\ updates_history'.query = updates_history.query
          \/ /\ Up!Fail /\ updates_ledger'.check = Up!now
             /\ updates_history'.query = updates_world.clock
          \/ /\ Up!Record /\ updates_ledger'.check = updates_w.rec.check
             /\ updates_history'.query = updates_w.real
      BY <1>2, WatcherSaves DEF UpdatesTyped, Up!Records, Watchers
    <2>4. Up!Record => updates_w.at = "save"
      BY DEF Up!Record
    <2>5. QED
      BY <1>0, <2>1, <2>2, <2>3, <2>4
  <1>3. CASE Up!Succeed
    <2>1. /\ updates_w'.at \in {"report", "save"} /\ updates_w'.rec.check = Up!now
          /\ updates_w'.real = updates_world.clock
      BY <1>3 DEF Up!Succeed, UpdatesTyped, Watchers
    <2>2. UNCHANGED <<updates_world, updates_history, updates_ledger>>
      BY <1>3 DEF Up!Succeed
    <2>3. QED
      BY <1>0, <2>1, <2>2
  <1>4. CASE Up!AskedSave
    <2>1. updates_history'.asked = updates_history.asked /\ updates_history.asked # 0
      BY <1>4, Saves DEF Up!AskedSave, AskerOK, UpdatesTyped, Askers
    <2>2. /\ updates_w'.at = updates_w.at /\ updates_w'.rec = updates_w.rec
          /\ updates_w'.real = updates_w.real /\ updates_world' = updates_world
      BY <1>4 DEF Up!AskedSave, UpdatesTyped, Watchers
    <2>3. QED
      BY <2>1, <2>2
  <1>5. CASE Up!Ask
    <2>1. updates_history'.asked # 0 /\ UNCHANGED <<updates_world, updates_w>>
      BY <1>5 DEF Up!Ask, UpdatesTyped, Journals
    <2>2. QED
      BY <2>1
  <1>6. CASE Up!Start \/ Up!Query \/ Up!Backoff \/ Up!Crash
    <2>1. updates_w'.at \in {"round", "query", "down"}
      BY <1>6, AgainMoves DEF Up!Start, Up!Query, Up!Backoff, UpdatesTyped, Watchers
    <2>2. /\ updates_history'.asked = updates_history.asked
          /\ updates_history'.query = updates_history.query
          /\ UNCHANGED <<updates_world, updates_ledger>>
      BY <1>6 DEF Up!Start, Up!Query, Up!Backoff, Up!Crash, UpdatesTyped, Journals
    <2>3. QED
      BY <2>1, <2>2
  <1>7. CASE Up!Report
    <2>1. /\ updates_w.at = "report" /\ updates_w'.at = "save"
          /\ updates_w'.rec = updates_w.rec /\ updates_w'.real = updates_w.real
          /\ UNCHANGED <<updates_world, updates_ledger, updates_history>>
      BY <1>7 DEF Up!Report, UpdatesTyped, Watchers
    <2>2. QED
      BY <2>1
  <1>8. CASE Up!Tick \/ Up!SetBack \/ Up!Publish
    <2>1. /\ updates_world'.clock \in {updates_world.clock, updates_world.clock + 1}
          /\ updates_world'.behind \in {updates_world.behind, updates_world.behind + 1}
      BY <1>8 DEF Up!Tick, Up!SetBack, Up!Publish, UpdatesTyped, Worlds
    <2>2. /\ updates_history'.asked = updates_history.asked
          /\ updates_history'.query = updates_history.query
          /\ UNCHANGED <<updates_w, updates_ledger>>
      BY <1>8 DEF Up!Tick, Up!SetBack, Up!Publish, UpdatesTyped, Journals
    <2>3. /\ updates_world'.clock >= updates_world.clock
          /\ updates_world'.behind >= updates_world.behind
          /\ updates_world'.clock \in Nat /\ updates_world'.behind \in Nat
      BY <1>0, <2>1
    <2>4. QED
      BY <1>0, <2>2, <2>3
  <1>9. CASE Up!Answer \/ Up!Announce \/ UNCHANGED Up!vars
    BY <1>9 DEF Up!Answer, Up!Announce, Up!vars
  <1>10. CASE Up!Switch
    <2>1. /\ updates_history'.asked = updates_history.asked
          /\ updates_history'.query = updates_history.query
          /\ UNCHANGED <<updates_w, updates_ledger, updates_world>>
      BY <1>10 DEF Up!Switch, UpdatesTyped, Journals
    <2>2. QED
      BY <2>1
  <1>11. QED
    BY <1>1, <1>2, <1>3, <1>4, <1>5, <1>6, <1>7, <1>8, <1>9, <1>10 DEF Up!Next

LEMMA UpdatesStep == ASSUME Up!ConstantsOK, UpdatesInv, [Up!Next]_Up!vars PROVE UpdatesInv'
  BY UpdatesTypes, ClockStep, AskerStep, WatcherStep, ScheduleStep, SaidStep DEF UpdatesInv

\* What the watcher and the console will write down as seen has been told by then, and the
\* ledger knows of the last query that was written down, on whatever wall clock.
THEOREM UpdatesInvariant == ASSUME Up!ConstantsOK PROVE Up!Spec => []UpdatesInv
  <1>1. UpdatesInv /\ [Up!Next]_Up!vars => UpdatesInv'
    BY UpdatesStep
  <1>2. QED
    BY <1>1, UpdatesInit, PTL DEF Up!Spec

\* A release that the ledger holds for told has been told in this run, only newer ones are
\* announced, queries keep the floor over restarts, and what the owner's own check wrote
\* down is not told again: for any releases, intervals and number of starts.  (watcher.go,
\* ledger.go, checkForUpdateNow.)
THEOREM ReleasesAreTold == ASSUME Up!ConstantsOK PROVE Up!Spec => Up!ReleasesAreSaid
  <1>1. UpdatesInv => Up!SeenIsSaid /\ Up!AnnouncedIsNewer
    BY DEF UpdatesInv
  <1>2. UpdatesInv /\ [Up!Next]_Up!vars =>
          [updates_w.at # "query" /\ updates_w'.at = "query" /\ updates_history.query # 0
             /\ updates_history.asked = 0 =>
             updates_world.clock - updates_history.query >= Floor]_Up!vars
    <2>1. SUFFICES ASSUME UpdatesInv, Up!Next, updates_w.at # "query", updates_w'.at = "query",
                          updates_history.query # 0, updates_history.asked = 0
                   PROVE  updates_world.clock - updates_history.query >= Floor
      OBVIOUS
    <2>2. Up!Query
      BY <2>1, WatcherMoves DEF UpdatesInv
    <2>3. /\ updates_w.due \in Nat /\ updates_world.clock \in Nat /\ Floor \in Nat
          /\ updates_history.query \in Nat
      BY <2>1 DEF UpdatesInv, UpdatesTyped, Worlds, Watchers, Journals, Up!ConstantsOK
    <2>4. /\ updates_world.clock >= updates_w.due
          /\ updates_w.due >= updates_history.query + Floor
      BY <2>1, <2>2 DEF Up!Query, Up!Due, UpdatesInv, ScheduleOK
    <2>5. QED
      BY <2>3, <2>4
  <1>3. UpdatesInv /\ [Up!Next]_Up!vars =>
          [updates_w.at = "report" /\ updates_w'.at = "save" /\ ~updates_w.raced =>
             updates_ledger.seen # updates_w.found]_Up!vars
    BY DEF UpdatesInv, WatcherOK
  <1>4. QED
    BY <1>1, <1>2, <1>3, UpdatesInvariant, PTL DEF Up!Spec, Up!ReleasesAreSaid,
       Up!GentleOverRestarts, Up!NotToldTwice

(***************************************************************************)
(* ConfigFile.                                                             *)
(***************************************************************************)
\* What a field may be in a file that somebody edited: a number is one.
Kind(f, v) ==
  /\ f \in Cf!Numbers => v \in Int
  /\ f = "geolocate_key" => v \in Cf!Urls \cup {None}
  /\ f = "pin" => v \in {None, "plain", "hash"}

\* A config has a value for every field, and one the program can act on.
Good(c) ==
  /\ c = [f \in Cf!Fields |-> c[f]]
  /\ \A f \in Cf!Fields : Cf!Acceptable(f, c[f])

OfItsKind(c) == \A f \in DOMAIN c : Kind(f, c[f])

\* What was written is what the phones are shown, or was so before it was read.
OnFile ==
  config_isSaved => config_file = Cf!Written(config_cfg) \/ config_cfg = Cf!Read(config_file)

ConfigInv ==
  /\ Good(config_cfg)
  /\ \A f \in Cf!StartOnly : Cf!Acceptable(f, config_running[f])
  /\ config_told \subseteq {"port", "endpoint refused", "location"}
  /\ config_isSaved \in BOOLEAN /\ config_changes \in 0 .. MaxMessages
  /\ DOMAIN config_file \subseteq Cf!Fields /\ OfItsKind(config_file)
  /\ OnFile

LEMMA FieldsAre ==
  Cf!Fields = Cf!Numbers \cup {"update_channel", "language", "geolocate_url",
                               "geolocate_key", "pin"}
  BY DEF Cf!Fields, Cf!Default, Cf!Numbers

LEMMA NumbersAreNotWords ==
  \A f \in Cf!Numbers : f \notin {"update_channel", "language", "geolocate_url",
                                "geolocate_key", "pin"}
  BY DEF Cf!Numbers

LEMMA LimitsAre ==
  \A f \in Cf!Numbers :
    /\ Cf!Limits[f][1] \in Int /\ Cf!Limits[f][2] \in Int /\ Cf!Limits[f][3] \in Int
    /\ Cf!Limits[f][1] <= Cf!Limits[f][3] /\ Cf!Limits[f][3] <= Cf!Limits[f][2]
  BY DEF Cf!Limits, Cf!Numbers

\* What is acceptable is of the kind of its field, and Validate leaves it alone.
LEMMA AcceptableKind ==
  ASSUME NEW f \in Cf!Fields, NEW v, Cf!Acceptable(f, v)
  PROVE  Kind(f, v)
  <1>1. CASE f \in Cf!Numbers
    <2>1. v = 0 \/ v \in Cf!Limits[f][1] .. Cf!Limits[f][2]
      BY <1>1 DEF Cf!Acceptable
    <2>2. v \in Int
      BY <1>1, <2>1, LimitsAre
    <2>3. QED
      BY <1>1, <2>2 DEF Kind, Cf!Numbers
  <1>2. CASE f \notin Cf!Numbers
    BY <1>2, FieldsAre DEF Cf!Acceptable, Kind
  <1>3. QED
    BY <1>1, <1>2

LEMMA ClampIsAcceptable ==
  ASSUME NEW f \in Cf!Numbers, NEW v \in Int
  PROVE  /\ Cf!Clamp(f, v) \in Cf!Limits[f][1] .. Cf!Limits[f][2]
         /\ v \in Cf!Limits[f][1] .. Cf!Limits[f][2] => Cf!Clamp(f, v) = v
  BY LimitsAre DEF Cf!Clamp

\* Whatever is in a config, of its kind, Validate makes acceptable.
LEMMA ValidateAccepts ==
  ASSUME NEW c, \A f \in Cf!Fields : Kind(f, c[f])
  PROVE  Good(Cf!Validate(c))
  <1>1. Cf!Validate(c) = [f \in Cf!Fields |-> Cf!Validate(c)[f]]
    BY DEF Cf!Validate
  <1>2. ASSUME NEW f \in Cf!Fields PROVE Cf!Acceptable(f, Cf!Validate(c)[f])
    <2>1. CASE f \in Cf!Numbers
      <3>1. c[f] \in Int
        BY <2>1 DEF Kind
      <3>2. Cf!Validate(c)[f] = IF f \in Cf!ZeroIsUnset /\ c[f] = 0 THEN 0 ELSE Cf!Clamp(f, c[f])
        BY <2>1 DEF Cf!Validate
      <3>3. QED
        <4> DEFINE v == Cf!Validate(c)[f]
        <4>1. (f \in Cf!ZeroIsUnset /\ v = 0) \/ v \in Cf!Limits[f][1] .. Cf!Limits[f][2]
          BY <2>1, <3>1, <3>2, ClampIsAcceptable
        <4> HIDE DEF v
        <4>2. Cf!Acceptable(f, v)
          BY <2>1, <4>1, NumbersAreNotWords DEF Cf!Acceptable
        <4>3. QED
          BY <4>2 DEF v
    <2>2. CASE f \notin Cf!Numbers
      <3>1. Cf!Validate(c)[f] = Cf!Corrected(f, c[f])
        BY <2>2 DEF Cf!Validate
      <3>2. QED
        BY <2>2, <3>1, FieldsAre
           DEF Cf!Acceptable, Cf!Corrected, Kind, Cf!Channels, Cf!Languages
    <2>3. QED
      BY <2>1, <2>2
  <1>3. QED
    BY <1>1, <1>2 DEF Good

LEMMA ValidateKeeps ==
  ASSUME NEW c, NEW f \in Cf!Fields, Cf!Acceptable(f, c[f])
  PROVE  Cf!Validate(c)[f] = c[f]
  <1>1. CASE f \in Cf!Numbers
    <2>1. Cf!Validate(c)[f] = IF f \in Cf!ZeroIsUnset /\ c[f] = 0 THEN 0 ELSE Cf!Clamp(f, c[f])
      BY <1>1 DEF Cf!Validate
    <2>2. CASE f \in Cf!ZeroIsUnset /\ c[f] = 0
      BY <2>1, <2>2
    <2>3. CASE ~(f \in Cf!ZeroIsUnset /\ c[f] = 0)
      <3>1. c[f] \in Cf!Limits[f][1] .. Cf!Limits[f][2]
        BY <1>1, <2>3 DEF Cf!Acceptable
      <3>2. c[f] \in Int
        BY <1>1, <3>1, LimitsAre
      <3>3. QED
        BY <1>1, <2>1, <2>3, <3>1, <3>2, ClampIsAcceptable
    <2>4. QED
      BY <2>2, <2>3
  <1>2. CASE f \notin Cf!Numbers
    <2>1. Cf!Validate(c)[f] = Cf!Corrected(f, c[f])
      BY <1>2 DEF Cf!Validate
    <2>2. Cf!Corrected(f, c[f]) = c[f]
      <3>1. CASE f = "language"
        BY <3>1 DEF Cf!Acceptable, Cf!Corrected
      <3>2. CASE f = "update_channel"
        BY <3>2 DEF Cf!Acceptable, Cf!Corrected
      <3>3. CASE f = "geolocate_url"
        BY <3>3 DEF Cf!Acceptable, Cf!Corrected
      <3>4. CASE f \notin {"language", "update_channel", "geolocate_url"}
        BY <3>4 DEF Cf!Corrected
      <3>5. QED
        BY <3>1, <3>2, <3>3, <3>4
    <2>3. QED
      BY <2>1, <2>2
  <1>3. QED
    BY <1>1, <1>2

LEMMA DefaultIsAFunction == Cf!Default = [f \in Cf!Fields |-> Cf!Default[f]]
  <1> DEFINE d(u) == [port |-> 0, max_sessions |-> 3, max_auth_attempts |-> 5,
                   lockout_seconds |-> 60, heartbeat_seconds |-> 15,
                   disconnect_grace_seconds |-> 30, input_threshold |-> 1,
                   session_ttl_minutes |-> 1440, session_idle_minutes |-> 480,
                   poll_seconds |-> 60, update_check_hours |-> 0,
                   delay_seconds |-> 15, volume_percent |-> 50,
                   update_channel |-> u, language |-> u,
                   geolocate_url |-> u, geolocate_key |-> None, pin |-> None]
  <1>1. Cf!Default = d("")
    BY DEF Cf!Default
  <1>2. ASSUME NEW u PROVE d(u) = [f \in DOMAIN d(u) |-> d(u)[f]]
    BY SMT
  <1> HIDE DEF d
  <1>3. QED
    BY <1>1, <1>2, Zenon DEF Cf!Fields

LEMMA DefaultIsGood == Good(Cf!Default)
  <1>1. Cf!Default = [f \in Cf!Fields |-> Cf!Default[f]]
    BY DefaultIsAFunction
  <1>2. ASSUME NEW f \in Cf!Fields PROVE Cf!Acceptable(f, Cf!Default[f])
    <2>1. CASE f \in Cf!Numbers
      <3>1. /\ Cf!Default.port = 0 /\ Cf!Default.max_sessions = 3
            /\ Cf!Default.max_auth_attempts = 5 /\ Cf!Default.lockout_seconds = 60
            /\ Cf!Default.heartbeat_seconds = 15 /\ Cf!Default.disconnect_grace_seconds = 30
            /\ Cf!Default.input_threshold = 1 /\ Cf!Default.session_ttl_minutes = 1440
            /\ Cf!Default.session_idle_minutes = 480 /\ Cf!Default.poll_seconds = 60
            /\ Cf!Default.update_check_hours = 0 /\ Cf!Default.delay_seconds = 15
            /\ Cf!Default.volume_percent = 50
        BY DEF Cf!Default
      <3>2. /\ Cf!Default[f] \in Int
            /\ \/ f = "update_check_hours" /\ Cf!Default[f] = 0
               \/ Cf!Limits[f][1] <= Cf!Default[f] /\ Cf!Default[f] <= Cf!Limits[f][2]
        BY <2>1, <3>1 DEF Cf!Numbers, Cf!Limits
      <3>3. (f \in Cf!ZeroIsUnset /\ Cf!Default[f] = 0)
            \/ Cf!Default[f] \in Cf!Limits[f][1] .. Cf!Limits[f][2]
        BY <2>1, <3>2, LimitsAre DEF Cf!ZeroIsUnset
      <3>4. QED
        BY <2>1, <3>3, NumbersAreNotWords DEF Cf!Acceptable
    <2>2. CASE f \notin Cf!Numbers
      <3>1. f \in {"update_channel", "language", "geolocate_url", "geolocate_key", "pin"}
        BY <2>2, FieldsAre
      <3>2. /\ Cf!Default.update_channel = "" /\ Cf!Default.language = ""
            /\ Cf!Default.geolocate_url = "" /\ Cf!Default.geolocate_key = None
            /\ Cf!Default.pin = None
        BY DEF Cf!Default
      <3>3. QED
        BY <2>2, <3>1, <3>2 DEF Cf!Acceptable
    <2>3. QED
      BY <2>1, <2>2
  <1>3. QED
    BY <1>1, <1>2 DEF Good

\* What is written is of its kind, and so is what is read over the defaults.
LEMMA WrittenIsOfItsKind ==
  ASSUME NEW c, Good(c)
  PROVE  DOMAIN Cf!Written(c) \subseteq Cf!Fields /\ OfItsKind(Cf!Written(c))
  <1>1. \A f \in DOMAIN Cf!Written(c) : f \in Cf!Fields /\ Cf!Written(c)[f] = c[f]
    BY DEF Cf!Written
  <1>2. \A f \in Cf!Fields : Kind(f, c[f])
    BY AcceptableKind DEF Good
  <1>3. QED
    BY <1>1, <1>2 DEF OfItsKind

LEMMA ReadIsOfItsKind ==
  ASSUME DOMAIN config_file \subseteq Cf!Fields, OfItsKind(config_file)
  PROVE  \A f \in Cf!Fields : Kind(f, Cf!Read(config_file)[f])
  <1>1. \A f \in Cf!Fields : Kind(f, Cf!Default[f])
    BY AcceptableKind, DefaultIsGood DEF Good
  <1>2. QED
    BY <1>1 DEF Cf!Read, OfItsKind

\* Once a field's zero is not written, the next start finds the default.
LEMMA WrittenIsRead ==
  ASSUME NEW c, NEW f \in Cf!Fields
  PROVE  Cf!Read(Cf!Written(c))[f] = c[f] \/ Cf!Forgotten(f, c[f])
  <1>1. CASE f \in Cf!Omitted /\ c[f] = 0
    <2>1. Cf!Read(Cf!Written(c))[f] = Cf!Default[f]
      BY <1>1 DEF Cf!Read, Cf!Written
    <2>2. QED
      BY <1>1, <2>1 DEF Cf!Forgotten
  <1>2. CASE ~(f \in Cf!Omitted /\ c[f] = 0)
    BY <1>2 DEF Cf!Read, Cf!Written
  <1>3. QED
    BY <1>1, <1>2

LEMMA SaveKeeps ==
  ASSUME NEW c, Good(c), Cf!Save(c), config_cfg' = c,
         DOMAIN config_file \subseteq Cf!Fields, OfItsKind(config_file)
  PROVE  /\ config_isSaved' \in BOOLEAN /\ OnFile'
         /\ DOMAIN config_file' \subseteq Cf!Fields /\ OfItsKind(config_file')
  <1>1. CASE config_file' = Cf!Written(c) /\ config_isSaved' = TRUE
    BY <1>1, WrittenIsOfItsKind DEF OnFile
  <1>2. CASE UNCHANGED config_file /\ config_isSaved' = FALSE
    BY <1>2 DEF OnFile
  <1>3. QED
    BY <1>1, <1>2 DEF Cf!Save

LEMMA HandedIsAcceptable ==
  ASSUME NEW c, Good(c)
  PROVE  \A f \in Cf!StartOnly : Cf!Acceptable(f, Cf!Handed(c)[f])
  <1>1. Cf!StartOnly \subseteq Cf!Fields
    BY FieldsAre DEF Cf!StartOnly, Cf!Numbers
  <1>2. QED
    BY <1>1 DEF Cf!Handed, Good

LEMMA WithField ==
  ASSUME NEW c, Good(c), NEW g \in Cf!Fields, NEW v, Cf!Acceptable(g, v)
  PROVE  Good([c EXCEPT ![g] = v])
  <1> DEFINE d == [c EXCEPT ![g] = v]
  <1>1. d = [f \in Cf!Fields |-> IF f = g THEN v ELSE c[f]]
    BY DEF Good
  <1>2. QED
    BY <1>1 DEF Good

LEMMA ConfigInit == Cf!ConstantsOK /\ Cf!Init => ConfigInv
  <1>1. SUFFICES ASSUME Cf!ConstantsOK, Cf!Init PROVE ConfigInv
    OBVIOUS
  <1>2. config_told = {} /\ config_changes \in 0 .. MaxMessages
    <2>1. config_told = {} /\ config_changes = 0
      BY <1>1 DEF Cf!Init
    <2>2. MaxMessages \in Nat
      BY <1>1 DEF Cf!ConstantsOK
    <2>3. QED
      BY <2>1, <2>2
  <1>3. PICK edit \in Edits, at \in {"", "https://a"} :
          config_file = [[Cf!Default EXCEPT !.geolocate_url = at,
                            !.geolocate_key = IF at = "" THEN None ELSE at]
                           EXCEPT ![edit[1]] = edit[2]]
    BY <1>1 DEF Cf!Init
  <1>4. DOMAIN config_file = Cf!Fields
    BY <1>3 DEF Cf!Fields
  <1>5. OfItsKind(config_file)
    <2>1. ASSUME NEW f \in Cf!Fields PROVE Kind(f, config_file[f])
      <3>1. "geolocate_key" \in Cf!Fields /\ "geolocate_url" \in Cf!Fields
        BY FieldsAre
      <3>2. Kind(f, Cf!Default[f]) /\ f \in DOMAIN Cf!Default
        BY AcceptableKind, DefaultIsGood DEF Good, Cf!Fields
      <3>3. CASE f = edit[1]
        <4>1. config_file[f] = edit[2]
          BY <1>3, <3>2, <3>3
        <4>2. QED
          BY <1>1, <3>3, <4>1 DEF Kind, Cf!ConstantsOK
      <3>4. CASE f # edit[1] /\ f = "geolocate_key"
        <4>1. config_file[f] = IF at = "" THEN None ELSE at
          BY <1>3, <3>2, <3>4
        <4>2. QED
          BY <3>4, <4>1, NumbersAreNotWords DEF Kind, Cf!Urls, Cf!Secure
      <3>5. CASE f # edit[1] /\ f = "geolocate_url"
        BY <3>5, NumbersAreNotWords DEF Kind
      <3>6. CASE f # edit[1] /\ f \notin {"geolocate_key", "geolocate_url"}
        <4>1. config_file[f] = Cf!Default[f]
          BY <1>3, <3>2, <3>6
        <4>2. QED
          BY <3>2, <4>1
      <3>7. QED
        BY <3>3, <3>4, <3>5, <3>6
    <2>2. QED
      BY <1>4, <2>1 DEF OfItsKind
  <1>6. Good(config_cfg)
    BY <1>1, <1>4, <1>5, ReadIsOfItsKind, ValidateAccepts DEF Cf!Init
  <1>7. \A f \in Cf!StartOnly : Cf!Acceptable(f, config_running[f])
    BY <1>1, <1>6, HandedIsAcceptable DEF Cf!Init
  <1>8. OnFile
    BY <1>1 DEF OnFile, Cf!Init
  <1>9. config_isSaved \in BOOLEAN
    <2>1. config_isSaved = (config_cfg = Cf!Read(config_file))
      BY <1>1 DEF Cf!Init
    <2>2. QED
      BY <2>1
  <1>10. QED
    BY <1>4, <1>5, <1>6, <1>7, <1>8, <1>9, <1>2 DEF ConfigInv

\* What a start makes of the file.
LEMMA StartRuns ==
  ASSUME ConfigInv, Cf!Start
  PROVE  /\ Good(config_cfg') /\ config_running' = Cf!Handed(config_cfg') /\ config_told' = {}
         /\ \A f \in Cf!Fields \ {"language", "pin"} :
              config_cfg'[f] = Cf!Validate(Cf!Read(config_file))[f]
         /\ \/ Cf!Save(config_cfg')
            \/ /\ UNCHANGED config_file
               /\ config_isSaved' = (Cf!Read(config_file) = config_cfg')
  <1> DEFINE loaded == Cf!Validate(Cf!Read(config_file))
  <1>1. Good(loaded)
    BY ReadIsOfItsKind, ValidateAccepts DEF ConfigInv
  <1>2. PICK lang \in {loaded.language} \cup (IF loaded.language = "" THEN Cf!Languages ELSE {}) :
          LET asked == [loaded EXCEPT !.language = lang]
              c == IF asked.pin = "plain" THEN [asked EXCEPT !.pin = "hash"] ELSE asked
          IN /\ config_cfg' = c /\ config_running' = Cf!Handed(c) /\ config_told' = {}
             /\ IF c # loaded THEN Cf!Save(c)
                ELSE config_isSaved' = (Cf!Read(config_file) = c) /\ UNCHANGED config_file
    BY DEF Cf!Start, Cf!Hashed
  <1> DEFINE asked == [loaded EXCEPT !.language = lang]
             c == IF asked.pin = "plain" THEN [asked EXCEPT !.pin = "hash"] ELSE asked
  <1>3. /\ config_cfg' = c /\ config_running' = Cf!Handed(c) /\ config_told' = {}
        /\ IF c # loaded THEN Cf!Save(c)
           ELSE config_isSaved' = (Cf!Read(config_file) = c) /\ UNCHANGED config_file
    BY <1>2
  <1> HIDE DEF loaded
  <1>4. "language" \in Cf!Fields /\ "pin" \in Cf!Fields
    BY FieldsAre
  <1>5. Cf!Acceptable("language", lang) /\ Cf!Acceptable("pin", "hash")
    <2>1. Cf!Acceptable("language", loaded.language)
      BY <1>1, <1>4 DEF Good
    <2>2. loaded.language \in Cf!Languages \cup {""}
      BY <2>1 DEF Cf!Acceptable
    <2>3. lang \in Cf!Languages \cup {""}
      BY <1>2, <2>2 DEF loaded
    <2>4. QED
      BY <2>3, NumbersAreNotWords DEF Cf!Acceptable
  <1>6. Good(asked)
    BY <1>1, <1>4, <1>5, WithField
  <1>7. Good(c)
    BY <1>4, <1>5, <1>6, WithField
  <1>8. \A f \in Cf!Fields \ {"language", "pin"} : c[f] = loaded[f]
    BY <1>1, <1>6 DEF Good
  <1> HIDE DEF c
  <1>9. QED
    BY <1>3, <1>7, <1>8 DEF loaded

\* What a message asks for is of its kind, and so is what is made of it.
LEMMA CopiedIs ==
  \A f, v : /\ Cf!Copied(f, v) = config_cfg[f] \/ Cf!Copied(f, v) = v
            /\ f \in Cf!Unsettable => Cf!Copied(f, v) = config_cfg[f]
  BY DEF Cf!Copied

LEMMA AppliedIsGood ==
  ASSUME Cf!ConstantsOK, ConfigInv, NEW change \in Changes, NEW withKey \in BOOLEAN
  PROVE  /\ Good(Cf!Applied(Cf!Message(change, withKey)))
         /\ Cf!Message(change, withKey).geolocate_key
              \in {None, Cf!Message(change, withKey).geolocate_url}
  <1> DEFINE shown == [config_cfg EXCEPT ![change[1]] = change[2]]
             key == IF withKey THEN shown.geolocate_url ELSE None
             p == Cf!Message(change, withKey)
  <1>1. /\ config_cfg = [f \in Cf!Fields |-> config_cfg[f]]
        /\ \A f \in Cf!Fields : Kind(f, config_cfg[f])
    BY AcceptableKind DEF ConfigInv, Good
  <1>2. /\ change[1] \in Cf!Fields /\ change[1] # "geolocate_key"
        /\ change[1] = "geolocate_url" => change[2] \in Cf!Urls
        /\ change[1] \in Cf!Numbers => change[2] \in Int
    BY DEF Cf!ConstantsOK
  <1>3. "geolocate_key" \in Cf!Fields /\ "geolocate_url" \in Cf!Fields
    BY FieldsAre
  <1>4. /\ \A f \in Cf!Fields \ {"geolocate_key"} :
             p[f] = IF f = change[1] THEN change[2] ELSE config_cfg[f]
        /\ p.geolocate_key = key /\ p.geolocate_url = shown.geolocate_url
    BY <1>1, <1>2, <1>3 DEF Cf!Message
  <1>5. key \in Cf!Urls \cup {None}
    <2>1. Cf!Acceptable("geolocate_url", config_cfg.geolocate_url)
      BY <1>3 DEF ConfigInv, Good
    <2>2. config_cfg.geolocate_url \in Cf!Urls
      BY <2>1 DEF Cf!Acceptable, Cf!Urls
    <2>3. CASE change[1] = "geolocate_url"
      BY <1>1, <1>2, <1>3, <2>3
    <2>4. CASE change[1] # "geolocate_url"
      BY <1>1, <1>2, <1>3, <2>2, <2>4
    <2>5. QED
      BY <2>3, <2>4
  <1> HIDE DEF p, key, shown
  <1> DEFINE url == Cf!ApplyUrl(p.geolocate_url, p.geolocate_key)
             made == [f \in Cf!Fields |-> IF f = "geolocate_url" THEN url.url
                                          ELSE IF f = "geolocate_key" THEN url.key
                                          ELSE Cf!Copied(f, p[f])]
  <1>6. url.key \in Cf!Urls \cup {None}
    <2>1. config_cfg.geolocate_key \in Cf!Urls \cup {None}
      BY <1>1, <1>3 DEF Kind
    <2>2. QED
      BY <1>4, <1>5, <2>1 DEF Cf!ApplyUrl
  <1>7. ASSUME NEW f \in Cf!Fields PROVE Kind(f, made[f])
    <2>1. CASE f = "geolocate_url"
      BY <2>1, NumbersAreNotWords DEF Kind
    <2>2. CASE f = "geolocate_key"
      BY <1>6, <2>2, NumbersAreNotWords DEF Kind
    <2>3. CASE f \notin {"geolocate_url", "geolocate_key"}
      <3>1. made[f] = Cf!Copied(f, p[f])
        BY <2>3
      <3>2. CASE made[f] = config_cfg[f]
        BY <1>1, <3>2
      <3>3. CASE made[f] = p[f] /\ f = change[1] /\ made[f] # config_cfg[f]
        <4>1. made[f] = change[2]
          BY <1>4, <2>3, <3>3
        <4>2. f # "pin"
          BY <3>1, <3>3, CopiedIs DEF Cf!Unsettable
        <4>3. QED
          BY <1>2, <2>3, <3>3, <4>1, <4>2 DEF Kind
      <3>4. CASE made[f] = p[f] /\ f # change[1]
        BY <1>1, <1>4, <2>3, <3>4
      <3>5. QED
        BY <3>1, <3>2, <3>3, <3>4, CopiedIs
    <2>4. QED
      BY <2>1, <2>2, <2>3
  <1>8. Cf!Applied(p) = Cf!Validate(made)
    BY DEF Cf!Applied
  <1> HIDE DEF made, url
  <1>9. Good(Cf!Applied(p))
    BY <1>7, <1>8, ValidateAccepts
  <1>10. p.geolocate_key \in {None, p.geolocate_url}
    BY <1>4 DEF key
  <1>11. QED
    BY <1>9, <1>10 DEF p

LEMMA ConfigStep == ASSUME Cf!ConstantsOK, ConfigInv, [Cf!Next]_Cf!vars PROVE ConfigInv'
  <1>0. MaxMessages \in Nat /\ config_changes \in 0 .. MaxMessages
    BY DEF ConfigInv, Cf!ConstantsOK
  <1>1. CASE Cf!Restart
    <2>1. Cf!Start /\ UNCHANGED config_changes
      BY <1>1 DEF Cf!Restart
    <2>2. /\ Good(config_cfg') /\ config_running' = Cf!Handed(config_cfg') /\ config_told' = {}
          /\ \/ Cf!Save(config_cfg')
             \/ /\ UNCHANGED config_file
                /\ config_isSaved' = (Cf!Read(config_file) = config_cfg')
      BY <2>1, StartRuns
    <2>3. \A f \in Cf!StartOnly : Cf!Acceptable(f, config_running'[f])
      BY <2>2, HandedIsAcceptable
    <2>4. /\ config_isSaved' \in BOOLEAN /\ OnFile'
          /\ DOMAIN config_file' \subseteq Cf!Fields /\ OfItsKind(config_file')
      <3>1. CASE Cf!Save(config_cfg')
        BY <2>2, <3>1, SaveKeeps DEF ConfigInv
      <3>2. CASE /\ UNCHANGED config_file
                 /\ config_isSaved' = (Cf!Read(config_file) = config_cfg')
        <4>1. config_isSaved' \in BOOLEAN
          BY <3>2
        <4>2. Cf!Read(config_file') = Cf!Read(config_file)
          BY <3>2
        <4>3. OnFile'
          BY <3>2, <4>2 DEF OnFile
        <4>4. QED
          BY <3>2, <4>1, <4>3 DEF ConfigInv
      <3>3. QED
        BY <2>2, <3>1, <3>2
    <2>5. QED
      BY <2>1, <2>2, <2>3, <2>4 DEF ConfigInv
  <1>2. ASSUME NEW c, Good(c), config_cfg' = c, Cf!Save(c), UNCHANGED config_running,
               config_told' \subseteq {"port", "endpoint refused", "location"},
               config_changes' \in 0 .. MaxMessages
        PROVE  ConfigInv'
    BY <1>2, SaveKeeps DEF ConfigInv
  <1>3. CASE Cf!Reset
    <2>1. config_changes' \in 0 .. MaxMessages
      <3>1. config_changes < MaxMessages /\ config_changes' = config_changes + 1
        BY <1>3 DEF Cf!Reset
      <3>2. QED
        BY <1>0, <3>1
    <2>2. config_told' \subseteq {"port", "endpoint refused", "location"}
      BY <1>3 DEF Cf!Reset
    <2>3. config_cfg' = Cf!Default /\ Cf!Save(Cf!Default) /\ UNCHANGED config_running
      BY <1>3 DEF Cf!Reset
    <2>4. QED
      BY <1>2, <2>1, <2>2, <2>3, DefaultIsGood
  <1>4. ASSUME NEW lang \in Cf!Languages, Cf!ChooseLanguage(lang) PROVE ConfigInv'
    <2>1. /\ config_cfg' = [config_cfg EXCEPT !.language = lang] /\ config_told' = {}
          /\ Cf!Save(config_cfg') /\ UNCHANGED <<config_running, config_changes>>
      BY <1>4 DEF Cf!ChooseLanguage
    <2>2. "language" \in Cf!Fields /\ Cf!Acceptable("language", lang)
      BY FieldsAre, NumbersAreNotWords DEF Cf!Acceptable
    <2>3. Good(config_cfg')
      BY <2>1, <2>2, WithField DEF ConfigInv
    <2>4. QED
      BY <1>0, <1>2, <2>1, <2>3
  <1>5. ASSUME NEW change \in Changes, NEW withKey \in BOOLEAN, Cf!Update(change, withKey)
        PROVE  ConfigInv'
    <2> DEFINE p == Cf!Message(change, withKey)
    <2>1. /\ config_changes < MaxMessages /\ config_changes' = config_changes + 1
          /\ config_cfg' = Cf!Applied(p) /\ config_told' = Cf!Announced(p)
          /\ Cf!Save(Cf!Applied(p)) /\ UNCHANGED config_running
      BY <1>5 DEF Cf!Update
    <2>2. Good(Cf!Applied(p))
      BY AppliedIsGood
    <2> HIDE DEF p
    <2>3. config_told' \subseteq {"port", "endpoint refused", "location"}
      BY <2>1 DEF Cf!Announced
    <2>4. config_changes' \in 0 .. MaxMessages
      <3>1. config_changes < MaxMessages /\ config_changes' = config_changes + 1
        BY <2>1
      <3>2. QED
        BY <1>0, <3>1
    <2>5. QED
      BY <1>2, <2>1, <2>2, <2>3, <2>4
  <1>6. CASE UNCHANGED Cf!vars
    BY <1>6 DEF Cf!vars, OnFile, ConfigInv
  <1>7. QED
    BY <1>1, <1>3, <1>4, <1>5, <1>6 DEF Cf!Next

\* The config is one the program can act on, what is in the file is of its kind, and
\* what was written is what is shown: after any edits, messages and failed saves.
THEOREM ConfigInvariant == ASSUME Cf!ConstantsOK PROVE Cf!Spec => []ConfigInv
  <1>1. ConfigInv /\ [Cf!Next]_Cf!vars => ConfigInv'
    BY ConfigStep
  <1>2. QED
    BY <1>1, ConfigInit, PTL DEF Cf!Spec

\* The next start comes back with what the phones were shown.
LEMMA StartKeeps ==
  ASSUME ConfigInv, config_isSaved, Cf!Restart, NEW f \in Cf!Fields \ {"language", "pin"}
  PROVE  config_cfg'[f] = config_cfg[f] \/ Cf!Forgotten(f, config_cfg[f])
  <1>1. config_cfg'[f] = Cf!Validate(Cf!Read(config_file))[f]
    BY StartRuns DEF Cf!Restart
  <1>2. Cf!Acceptable(f, config_cfg[f])
    BY DEF ConfigInv, Good
  <1>3. Cf!Read(config_file)[f] = config_cfg[f] \/ Cf!Forgotten(f, config_cfg[f])
    <2>1. CASE config_file = Cf!Written(config_cfg)
      BY <2>1, WrittenIsRead
    <2>2. CASE config_cfg = Cf!Read(config_file)
      BY <2>2
    <2>3. QED
      BY <2>1, <2>2 DEF ConfigInv, OnFile
  <1>4. QED
    BY <1>1, <1>2, <1>3, ValidateKeeps

\* An endpoint that a message has changed has the key the message brings, or none.
LEMMA KeyIsGiven ==
  ASSUME Cf!ConstantsOK, ConfigInv, Cf!Next,
         config_cfg'.geolocate_url \notin {config_cfg.geolocate_url, ""}
  PROVE  config_cfg'.geolocate_key \in {None, config_cfg'.geolocate_url} \/ Cf!Restart
  <1>1. /\ config_cfg = [f \in Cf!Fields |-> config_cfg[f]]
        /\ "geolocate_url" \in Cf!Fields /\ "geolocate_key" \in Cf!Fields
        /\ "language" \in Cf!Fields
    BY FieldsAre DEF ConfigInv, Good
  <1>2. ~Cf!Reset
    <2>1. Cf!Default.geolocate_url = ""
      BY DEF Cf!Default
    <2>2. QED
      BY <2>1 DEF Cf!Reset
  <1>3. ASSUME NEW lang \in Cf!Languages, Cf!ChooseLanguage(lang) PROVE FALSE
    BY <1>1, <1>3 DEF Cf!ChooseLanguage
  <1>4. ASSUME NEW change \in Changes, NEW withKey \in BOOLEAN, Cf!Update(change, withKey)
        PROVE  config_cfg'.geolocate_key \in {None, config_cfg'.geolocate_url}
    <2> DEFINE p == Cf!Message(change, withKey)
               url == Cf!ApplyUrl(p.geolocate_url, p.geolocate_key)
               made == [f \in Cf!Fields |-> IF f = "geolocate_url" THEN url.url
                                            ELSE IF f = "geolocate_key" THEN url.key
                                            ELSE Cf!Copied(f, p[f])]
    <2>1. config_cfg' = Cf!Applied(p)
      BY <1>4 DEF Cf!Update
    <2>2. p.geolocate_key \in {None, p.geolocate_url}
      BY AppliedIsGood
    <2> HIDE DEF p
    <2>3. Cf!Applied(p) = Cf!Validate(made)
      BY DEF Cf!Applied
    <2>4. made.geolocate_url = url.url /\ made.geolocate_key = url.key
      BY <1>1
    <2> HIDE DEF made
    <2>5. /\ config_cfg'.geolocate_key = url.key
          /\ config_cfg'.geolocate_url = IF url.url \in Cf!Secure THEN url.url ELSE ""
      BY <1>1, <2>1, <2>3, <2>4, NumbersAreNotWords DEF Cf!Validate, Cf!Corrected
    <2>6. url.url = config_cfg'.geolocate_url /\ url.url # config_cfg.geolocate_url
      BY <2>5
    <2>7. url.url = p.geolocate_url
      BY <2>6 DEF Cf!ApplyUrl
    <2>8. url.key \in {None, p.geolocate_url}
      BY <2>2, <2>6, <2>7 DEF Cf!ApplyUrl
    <2>9. QED
      BY <2>5, <2>6, <2>7, <2>8
  <1>5. QED
    BY <1>2, <1>3, <1>4 DEF Cf!Next

\* Once the config was written, starting again changes no value of it but the language it
\* asks for, the PIN it hashes and the zeros that are not written; and a message that
\* changes the endpoint leaves no other endpoint's key beside it: whatever was typed into
\* the file or sent.  (config.go, hub.go: applyGeolocateURL.)
THEOREM ConfigKeeps == ASSUME Cf!ConstantsOK PROVE Cf!Spec => Cf!ConfigIsKept
  <1>1. ConfigInv /\ [Cf!Next]_Cf!vars =>
          [(config_cfg' # config_cfg /\ config_isSaved /\ Cf!Restart) =>
             \A f \in Cf!Fields \ {"language", "pin"} :
               config_cfg'[f] = config_cfg[f] \/ Cf!Forgotten(f, config_cfg[f])]_Cf!vars
    BY StartKeeps
  <1>2. ConfigInv /\ [Cf!Next]_Cf!vars =>
          [config_cfg'.geolocate_url \notin {config_cfg.geolocate_url, ""}
             => config_cfg'.geolocate_key \in {None, config_cfg'.geolocate_url}
                  \/ Cf!Restart]_Cf!vars
    BY KeyIsGiven
  <1>3. QED
    BY <1>1, <1>2, ConfigInvariant, PTL
       DEF Cf!Spec, Cf!ConfigIsKept, Cf!RestartKeeps, Cf!KeyIsNotInherited

-----------------------------------------------------------------------------
(***************************************************************************)
(* The history: rotating files, and the event log over them.  First what   *)
(* its sums, picks and pieces are; induction is by the least of the        *)
(* numbers for which something fails.                                      *)
(***************************************************************************)
\* Induction along an interval, on the set of the numbers for which something holds.
LEMMA Upward ==
  ASSUME NEW n \in Nat, NEW T, 0 \in T, \A i \in 1 .. n : i - 1 \in T => i \in T
  PROVE  \A i \in 0 .. n : i \in T
  <1>. DEFINE Bad == {i \in 0 .. n : i \notin T}
  <1>1. SUFFICES ASSUME Bad # {} PROVE FALSE
    OBVIOUS
  <1>2. PICK i \in Bad : \A j \in Bad : ~(<<j, i>> \in OpToRel(<, Nat))
    <2>1. Bad \subseteq Nat
      OBVIOUS
    <2>2. ASSUME NEW B, B \subseteq Nat, B # {}
          PROVE  \E k \in B : \A j \in B : ~(<<j, k>> \in OpToRel(<, Nat))
      BY <2>2, NatLessThanWellFounded, WFMin
    <2>. HIDE DEF Bad
    <2>3. QED
      BY <1>1, <2>1, <2>2
  <1>3. i \in 1 .. n /\ i \notin T
    <2>1. i \in 0 .. n /\ i \notin T
      BY <1>2
    <2>2. QED
      BY <2>1
  <1>4. i - 1 \in 0 .. n /\ i - 1 < i /\ i - 1 \in Nat /\ i \in Nat
    BY <1>3
  <1>5. <<i - 1, i>> \in OpToRel(<, Nat)
    BY <1>4 DEF OpToRel
  <1>6. i - 1 \in T
    BY <1>2, <1>4, <1>5
  <1>7. QED
    BY <1>3, <1>6

\* A function that is worked out one after another.
WorkedOut(f, b, G, n) == f[0] = b /\ \A i \in 1 .. n : f[i] = G[i][f[i - 1]]

\* What is worked out one after another exists.
LEMMA Recursion ==
  ASSUME NEW n \in Nat, NEW V, NEW b \in V, NEW G, G \in [1 .. n -> [V -> V]]
  PROVE  \E f \in [0 .. n -> V] : WorkedOut(f, b, G, n)
  <1>. DEFINE Grown(k, f) == WorkedOut(f, b, G, k)
              T == {k \in 0 .. n : \E f \in [0 .. k -> V] : Grown(k, f)}
  <1>1. 0 \in T
    <2>. DEFINE g == [i \in 0 .. 0 |-> b]
    <2>1. g \in [0 .. 0 -> V]
      OBVIOUS
    <2>2. g[0] = b /\ 1 .. 0 = {}
      OBVIOUS
    <2>3. Grown(0, g)
      BY <2>2 DEF WorkedOut
    <2>4. 0 \in 0 .. n
      OBVIOUS
    <2>. HIDE DEF g, Grown
    <2>5. QED
      BY <2>1, <2>3, <2>4
  <1>2. ASSUME NEW i \in 1 .. n, i - 1 \in T PROVE i \in T
    <2>1. PICK f \in [0 .. i - 1 -> V] : Grown(i - 1, f)
      BY <1>2
    <2>. DEFINE g == [j \in 0 .. i |-> IF j = i THEN G[i][f[i - 1]] ELSE f[j]]
    <2>2. f[i - 1] \in V /\ G[i][f[i - 1]] \in V
      OBVIOUS
    <2>3. g \in [0 .. i -> V]
      BY <2>2
    <2>4. g[0] = b
      BY <2>1 DEF WorkedOut
    <2>5. ASSUME NEW j \in 1 .. i PROVE g[j] = G[j][g[j - 1]]
      <3>1. j - 1 \in 0 .. i - 1 /\ j - 1 # i /\ j - 1 \in 0 .. i /\ j \in 0 .. i
        OBVIOUS
      <3>2. g[j - 1] = f[j - 1]
        BY <3>1
      <3>3. g[j] = IF j = i THEN G[i][f[i - 1]] ELSE f[j]
        BY <3>1
      <3>. HIDE DEF g
      <3>4. CASE j = i
        BY <3>2, <3>3, <3>4
      <3>5. CASE j # i
        <4>1. j \in 1 .. i - 1 /\ g[j] = f[j]
          BY <3>3, <3>5
        <4>2. QED
          BY <2>1, <3>2, <4>1 DEF WorkedOut
      <3>6. QED
        BY <3>4, <3>5
    <2>6. Grown(i, g)
      BY <2>4, <2>5 DEF WorkedOut
    <2>7. i \in 0 .. n
      OBVIOUS
    <2>. HIDE DEF g, Grown
    <2>8. QED
      BY <2>3, <2>6, <2>7
  <1>3. n \in T
    <2>. HIDE DEF T
    <2>1. n \in 0 .. n
      OBVIOUS
    <2>2. QED
      BY <1>1, <1>2, <2>1, Upward
  <1>4. QED
    BY <1>3

\* ... and there is one of them.
InStep(f, g, n) == f[0] = g[0] /\ \A i \in 1 .. n : f[i - 1] = g[i - 1] => f[i] = g[i]
Equal(f, g, n) == \A i \in 0 .. n : f[i] = g[i]

LEMMA OneResult ==
  ASSUME NEW n \in Nat, NEW f, NEW g, InStep(f, g, n) PROVE Equal(f, g, n)
  <1>. DEFINE T == {i \in 0 .. n : f[i] = g[i]}
  <1>1. 0 \in T /\ \A i \in 1 .. n : i - 1 \in T => i \in T
    BY DEF InStep
  <1>. HIDE DEF T
  <1>2. \A i \in 0 .. n : i \in T
    BY <1>1, Upward
  <1>3. QED
    BY <1>2 DEF T, Equal

-----------------------------------------------------------------------------
(***************************************************************************)
(* Files.                                                                  *)
(***************************************************************************)
Stored == Ev!Record \cup {Ev!Torn}

LEMMA StoredIs ==
  ASSUME Ev!ConstantsOK PROVE \A r \in Stored : r.len \in Nat /\ r.len > 0
  <1>1. \A r \in Ev!Record : r.len \in Lengths
    BY DEF Ev!Record
  <1>2. Ev!Torn.len = 1
    BY DEF Ev!Torn
  <1>3. \A l \in Lengths : l \in Nat /\ l > 0
    <2>1. Lengths \subseteq Nat \ {0}
      BY DEF Ev!ConstantsOK
    <2>2. QED
      BY <2>1
  <1>4. QED
    BY <1>1, <1>2, <1>3 DEF Stored

LEMMA TornIsNone == Ev!Torn \notin Ev!Record
  BY DEF Ev!Torn, Ev!Record

\* Sums, one after another.
LEMMA BytesSum ==
  ASSUME Ev!ConstantsOK, NEW s \in Seq(Stored)
  PROVE  \E f \in [0 .. Len(s) -> Nat] :
           f[0] = 0 /\ (\A i \in 1 .. Len(s) : f[i] = f[i - 1] + s[i].len) /\ Ev!Bytes(s) = f[Len(s)]
  <1>. DEFINE n == Len(s)
              G == [i \in 1 .. n |-> [x \in Nat |-> x + s[i].len]]
  <1>1. n \in Nat /\ \A i \in 1 .. n : s[i].len \in Nat
    BY StoredIs
  <1>2. G \in [1 .. n -> [Nat -> Nat]] /\ 0 \in Nat
    BY <1>1
  <1>3. \A i \in 1 .. n, x \in Nat : G[i][x] = x + s[i].len
    OBVIOUS
  <1>4. \E f \in [0 .. n -> Nat] : WorkedOut(f, 0, G, n)
    <2>. HIDE DEF G, n
    <2>1. QED
      BY <1>1, <1>2, Recursion
  <1>. HIDE DEF G, n
  <1>5. PICK f \in [0 .. n -> Nat] : f[0] = 0 /\ \A i \in 1 .. n : f[i] = G[i][f[i - 1]]
    BY <1>4 DEF WorkedOut
  <1>6. ASSUME NEW i \in 1 .. n PROVE f[i - 1] \in Nat /\ f[i] = f[i - 1] + s[i].len
    <2>1. i - 1 \in 0 .. n
      BY <1>1
    <2>2. f[i - 1] \in Nat
      BY <1>5, <2>1
    <2>3. QED
      BY <1>3, <1>5, <2>2
  <1>. DEFINE Grown(g) == [i \in 0 .. n |-> IF i = 0 THEN 0 ELSE g[i - 1] + s[i].len]
              up == CHOOSE g : g = Grown(g)
  <1>7. f = Grown(f)
    BY <1>1, <1>5, <1>6
  <1>8. up = Grown(up)
    BY <1>7
  <1>9. Ev!Bytes(s) = up[n]
    BY DEF Ev!Bytes, n
  <1>. HIDE DEF up
  <1>10. up[0] = 0 /\ \A i \in 1 .. n : up[i] = up[i - 1] + s[i].len
    <2>1. \A i \in 0 .. n : up[i] = Grown(up)[i]
      BY <1>8
    <2>2. QED
      BY <1>1, <2>1
  <1>11. InStep(up, f, n)
    BY <1>5, <1>6, <1>10 DEF InStep
  <1>12. up[n] = f[n]
    BY <1>1, <1>11, OneResult DEF Equal
  <1>13. QED
    BY <1>5, <1>6, <1>9, <1>12 DEF n

\* The same of the elements that are picked.
PicksInTurn(f, s, S) ==
  /\ f[0] = <<>>
  /\ \A i \in 1 .. Len(s) : f[i] = IF s[i] \in S THEN Append(f[i - 1], s[i]) ELSE f[i - 1]
  /\ Ev!Picked(s, S) = f[Len(s)]

LEMMA PickedInTurn ==
  ASSUME NEW A, NEW s \in Seq(A), NEW S
  PROVE  \E f \in [0 .. Len(s) -> Seq(A \cap S)] : PicksInTurn(f, s, S)
  <1>. DEFINE n == Len(s)
              V == Seq(A \cap S)
              G == [i \in 1 .. n |-> [x \in V |-> IF s[i] \in S THEN Append(x, s[i]) ELSE x]]
  <1>1. n \in Nat /\ (\A i \in 1 .. n : s[i] \in A) /\ <<>> \in V
    OBVIOUS
  <1>2. G \in [1 .. n -> [V -> V]]
    <2>1. ASSUME NEW i \in 1 .. n, NEW x \in V
          PROVE (IF s[i] \in S THEN Append(x, s[i]) ELSE x) \in V
      BY <1>1
    <2>2. QED
      BY <2>1
  <1>3. \A i \in 1 .. n, x \in V : G[i][x] = IF s[i] \in S THEN Append(x, s[i]) ELSE x
    OBVIOUS
  <1>4. \E f \in [0 .. n -> V] : WorkedOut(f, <<>>, G, n)
    <2>. HIDE DEF G, n, V
    <2>1. QED
      BY <1>1, <1>2, Recursion
  <1>. HIDE DEF G, n, V
  <1>5. PICK f \in [0 .. n -> V] : f[0] = <<>> /\ \A i \in 1 .. n : f[i] = G[i][f[i - 1]]
    BY <1>4 DEF WorkedOut
  <1>6. ASSUME NEW i \in 1 .. n
        PROVE  f[i - 1] \in V /\ f[i] = IF s[i] \in S THEN Append(f[i - 1], s[i]) ELSE f[i - 1]
    <2>1. i - 1 \in 0 .. n
      BY <1>1
    <2>2. f[i - 1] \in V
      BY <1>5, <2>1
    <2>3. QED
      BY <1>3, <1>5, <2>2
  <1>. DEFINE Grown(g) == [i \in 0 .. n |-> IF i = 0 THEN <<>>
                          ELSE IF s[i] \in S THEN Append(g[i - 1], s[i]) ELSE g[i - 1]]
              up == CHOOSE g : g = Grown(g)
  <1>7. f = Grown(f)
    <2>1. ASSUME NEW i \in 0 .. n PROVE f[i] = Grown(f)[i]
      <3>1. CASE i = 0
        BY <1>5, <3>1
      <3>2. CASE i # 0
        <4>1. i \in 1 .. n
          BY <1>1, <3>2
        <4>2. QED
          BY <1>6, <3>2, <4>1
      <3>3. QED
        BY <3>1, <3>2
    <2>2. Grown(f) = [i \in 0 .. n |-> Grown(f)[i]] /\ f = [i \in 0 .. n |-> f[i]]
      BY <1>5
    <2>. HIDE DEF Grown
    <2>3. QED
      BY <2>1, <2>2
  <1>8. up = Grown(up)
    BY <1>7
  <1>9. Ev!Picked(s, S) = up[n]
    BY DEF Ev!Picked, n
  <1>. HIDE DEF up
  <1>10. up[0] = <<>>
         /\ \A i \in 1 .. n : up[i] = IF s[i] \in S THEN Append(up[i - 1], s[i]) ELSE up[i - 1]
    <2>1. \A i \in 0 .. n : up[i] = Grown(up)[i]
      BY <1>8
    <2>2. QED
      BY <1>1, <2>1
  <1>11. InStep(up, f, n)
    BY <1>5, <1>6, <1>10 DEF InStep
  <1>12. up[n] = f[n]
    BY <1>1, <1>11, OneResult DEF Equal
  <1>13. QED
    BY <1>5, <1>6, <1>9, <1>12 DEF n, V, PicksInTurn

LEMMA PickedOfNone == ASSUME NEW S PROVE Ev!Picked(<<>>, S) = <<>>
  <1>1. <<>> \in Seq({}) /\ Len(<<>>) = 0
    OBVIOUS
  <1>2. \E f \in [0 .. Len(<<>>) -> Seq({} \cap S)] : PicksInTurn(f, <<>>, S)
    BY <1>1, PickedInTurn
  <1>3. QED
    BY <1>1, <1>2 DEF PicksInTurn

LEMMA PickedIsPicked == ASSUME NEW A, NEW s \in Seq(A), NEW S PROVE Ev!Picked(s, S) \in Seq(A \cap S)
  <1>1. Len(s) \in 0 .. Len(s)
    OBVIOUS
  <1>2. QED
    BY <1>1, PickedInTurn DEF PicksInTurn

LEMMA PickedAppend ==
  ASSUME NEW A, NEW s \in Seq(A), NEW r \in A, NEW S
  PROVE  Ev!Picked(Append(s, r), S) = IF r \in S THEN Append(Ev!Picked(s, S), r) ELSE Ev!Picked(s, S)
  <1>. DEFINE n == Len(s)
              t == Append(s, r)
              V == Seq(A \cap S)
  <1>1. n \in Nat /\ t \in Seq(A) /\ Len(t) = n + 1 /\ t[n + 1] = r /\ \A i \in 1 .. n : t[i] = s[i]
    OBVIOUS
  <1>2. PICK f \in [0 .. n -> V] :
          /\ f[0] = <<>>
          /\ \A i \in 1 .. n : f[i] = IF s[i] \in S THEN Append(f[i - 1], s[i]) ELSE f[i - 1]
          /\ Ev!Picked(s, S) = f[n]
    <2>1. \E f \in [0 .. n -> V] : PicksInTurn(f, s, S)
      BY PickedInTurn
    <2>. HIDE DEF V
    <2>2. QED
      BY <2>1 DEF PicksInTurn
  <1>3. PICK g \in [0 .. n + 1 -> V] :
          /\ g[0] = <<>>
          /\ \A i \in 1 .. n + 1 : g[i] = IF t[i] \in S THEN Append(g[i - 1], t[i]) ELSE g[i - 1]
          /\ Ev!Picked(t, S) = g[n + 1]
    <2>1. \E g \in [0 .. Len(t) -> V] : PicksInTurn(g, t, S)
      <3>. HIDE DEF t
      <3>1. QED
        BY <1>1, PickedInTurn
    <2>. HIDE DEF V, t
    <2>2. QED
      BY <1>1, <2>1 DEF PicksInTurn
  <1>. HIDE DEF n, t, V
  <1>4. InStep(f, g, n)
    <2>1. ASSUME NEW i \in 1 .. n, f[i - 1] = g[i - 1] PROVE f[i] = g[i]
      <3>1. i \in 1 .. n + 1 /\ t[i] = s[i]
        BY <1>1
      <3>2. QED
        BY <1>2, <1>3, <2>1, <3>1
    <2>2. QED
      BY <1>2, <1>3, <2>1 DEF InStep
  <1>5. f[n] = g[n]
    BY <1>1, <1>4, OneResult DEF Equal
  <1>6. g[n + 1] = IF r \in S THEN Append(g[n], r) ELSE g[n]
    <2>1. n + 1 \in 1 .. n + 1 /\ (n + 1) - 1 = n
      BY <1>1
    <2>2. QED
      BY <1>1, <1>3, <2>1
  <1>7. QED
    BY <1>2, <1>3, <1>5, <1>6 DEF t

LEMMA BytesAppend ==
  ASSUME Ev!ConstantsOK, NEW s \in Seq(Stored), NEW r \in Stored
  PROVE  Ev!Bytes(Append(s, r)) = Ev!Bytes(s) + r.len
  <1>. DEFINE n == Len(s)
              t == Append(s, r)
  <1>1. n \in Nat /\ t \in Seq(Stored) /\ Len(t) = n + 1 /\ t[n + 1] = r /\ \A i \in 1 .. n : t[i] = s[i]
    OBVIOUS
  <1>2. PICK f \in [0 .. n -> Nat] :
          f[0] = 0 /\ (\A i \in 1 .. n : f[i] = f[i - 1] + s[i].len) /\ Ev!Bytes(s) = f[n]
    BY BytesSum
  <1>3. PICK g \in [0 .. n + 1 -> Nat] :
          g[0] = 0 /\ (\A i \in 1 .. n + 1 : g[i] = g[i - 1] + t[i].len) /\ Ev!Bytes(t) = g[n + 1]
    BY <1>1, BytesSum
  <1>. HIDE DEF n, t
  <1>4. InStep(f, g, n)
    <2>1. ASSUME NEW i \in 1 .. n, f[i - 1] = g[i - 1] PROVE f[i] = g[i]
      <3>1. i \in 1 .. n + 1 /\ t[i] = s[i]
        BY <1>1
      <3>2. QED
        BY <1>2, <1>3, <2>1, <3>1
    <2>2. QED
      BY <1>2, <1>3, <2>1 DEF InStep
  <1>5. f[n] = g[n]
    BY <1>1, <1>4, OneResult DEF Equal
  <1>6. g[n + 1] = g[n] + r.len
    <2>1. n + 1 \in 1 .. n + 1 /\ (n + 1) - 1 = n
      BY <1>1
    <2>2. QED
      BY <1>1, <1>3, <2>1
  <1>7. QED
    BY <1>2, <1>3, <1>5, <1>6 DEF t

LEMMA BytesAreMany ==
  ASSUME Ev!ConstantsOK, NEW s \in Seq(Stored)
  PROVE  Ev!Bytes(s) \in Nat /\ (Ev!Bytes(s) = 0 <=> s = <<>>)
  <1>. DEFINE n == Len(s)
  <1>1. PICK f \in [0 .. n -> Nat] :
          f[0] = 0 /\ (\A i \in 1 .. n : f[i] = f[i - 1] + s[i].len) /\ Ev!Bytes(s) = f[n]
    BY BytesSum
  <1>2. n \in Nat /\ (n = 0 <=> s = <<>>) /\ \A i \in 1 .. n : s[i].len \in Nat /\ s[i].len > 0
    BY StoredIs
  <1>. HIDE DEF n
  <1>3. n \in 0 .. n /\ f[n] \in Nat
    BY <1>1, <1>2
  <1>4. CASE n = 0
    BY <1>1, <1>2, <1>3, <1>4
  <1>5. CASE n # 0
    <2>1. n \in 1 .. n /\ n - 1 \in 0 .. n
      BY <1>2, <1>5
    <2>2. f[n] = f[n - 1] + s[n].len /\ f[n - 1] \in Nat
      BY <1>1, <2>1
    <2>3. f[n] > 0
      BY <1>2, <2>1, <2>2
    <2>4. QED
      BY <1>1, <1>2, <1>3, <1>5, <2>3
  <1>6. QED
    BY <1>4, <1>5

-----------------------------------------------------------------------------
(***************************************************************************)
(* Pieces of the history.  cut[f + 1] records of it are older than those   *)
(* of file f, which are piece[f].                                          *)
(***************************************************************************)
Cuts(cut, piece, m, s) ==
  /\ cut \in [0 .. m + 1 -> 0 .. Len(s)] /\ cut[0] = Len(s)
  /\ \A f \in 0 .. m : cut[f + 1] <= cut[f] /\ piece[f] = SubSeq(s, cut[f + 1] + 1, cut[f])

\* The piece between two cuts that coincide is empty, and an empty one is of such.
LEMMA PieceIs ==
  ASSUME NEW A, NEW s \in Seq(A), NEW lo \in 0 .. Len(s), NEW hi \in 0 .. Len(s), lo <= hi
  PROVE  /\ SubSeq(s, lo + 1, hi) \in Seq(A)
         /\ Len(SubSeq(s, lo + 1, hi)) = hi - lo
         /\ SubSeq(s, lo + 1, hi) = <<>> <=> lo = hi
         /\ \A i \in 1 .. hi - lo : SubSeq(s, lo + 1, hi)[i] = s[lo + i]
  <1>1. \A i \in lo + 1 .. hi : s[i] \in A
    BY LenProperties
  <1>2. lo + 1 \in Int /\ hi \in Int
    OBVIOUS
  <1>3. /\ SubSeq(s, lo + 1, hi) \in Seq(A)
        /\ Len(SubSeq(s, lo + 1, hi)) = IF lo + 1 <= hi THEN hi - (lo + 1) + 1 ELSE 0
        /\ \A i \in 1 .. hi - (lo + 1) + 1 : SubSeq(s, lo + 1, hi)[i] = s[(lo + 1) + i - 1]
    BY <1>1, <1>2, SubSeqProperties
  <1>4. hi - (lo + 1) + 1 = hi - lo /\ \A i \in Int : (lo + 1) + i - 1 = lo + i
    OBVIOUS
  <1>5. Len(SubSeq(s, lo + 1, hi)) = hi - lo
    BY <1>3
  <1>6. \A t \in Seq(A) : t = <<>> <=> Len(t) = 0
    OBVIOUS
  <1>7. SubSeq(s, lo + 1, hi) = <<>> <=> hi - lo = 0
    BY <1>3, <1>5, <1>6
  <1>8. \A i \in 1 .. hi - lo : SubSeq(s, lo + 1, hi)[i] = s[lo + i]
    BY <1>3, <1>4
  <1>9. QED
    BY <1>3, <1>5, <1>7, <1>8

LEMMA Coincide ==
  ASSUME NEW A, NEW s \in Seq(A)
  PROVE  \A lo, hi \in 0 .. Len(s) : lo <= hi /\ SubSeq(s, lo + 1, hi) = <<>> => lo = hi
  <1>1. SUFFICES ASSUME NEW lo \in 0 .. Len(s), NEW hi \in 0 .. Len(s), lo <= hi,
                        SubSeq(s, lo + 1, hi) = <<>>
                 PROVE  lo = hi
    OBVIOUS
  <1>2. SubSeq(s, lo + 1, hi) = <<>> <=> lo = hi
    BY <1>1, PieceIs
  <1>3. QED
    BY <1>1, <1>2

\* Nothing is lost where a piece takes the empty place of the next one.
LEMMA PieceMoves ==
  ASSUME NEW A, NEW m \in Nat, NEW s \in Seq(A), NEW cut, NEW piece, Cuts(cut, piece, m, s),
         NEW g \in 0 .. m - 1, piece[g + 1] = <<>>, NEW q, q[g + 1] = piece[g], q[g] = <<>>,
         \A f \in 0 .. m : f \notin {g, g + 1} => q[f] = piece[f]
  PROVE  \E c : Cuts(c, q, m, s)
  <1>. DEFINE c == [cut EXCEPT ![g + 1] = cut[g]]
  <1>1. Len(s) \in Nat /\ \A f \in 0 .. m + 1 : cut[f] \in 0 .. Len(s)
    <2>1. cut \in [0 .. m + 1 -> 0 .. Len(s)]
      BY DEF Cuts
    <2>2. QED
      BY <2>1
  <1>2. c \in [0 .. m + 1 -> 0 .. Len(s)] /\ c[0] = Len(s)
    <2>1. cut \in [0 .. m + 1 -> 0 .. Len(s)] /\ cut[0] = Len(s)
      BY DEF Cuts
    <2>2. g \in 0 .. m + 1 /\ g + 1 # 0 /\ 0 \in 0 .. m + 1
      OBVIOUS
    <2>3. cut[g] \in 0 .. Len(s)
      BY <2>1, <2>2
    <2>4. QED
      BY <2>1, <2>2, <2>3
  <1>3. cut[g + 2] = cut[g + 1]
    <2>1. g + 1 \in 0 .. m /\ g + 2 \in 0 .. m + 1 /\ g + 1 \in 0 .. m + 1 /\ (g + 1) + 1 = g + 2
      OBVIOUS
    <2>2. cut[g + 2] <= cut[g + 1] /\ SubSeq(s, cut[g + 2] + 1, cut[g + 1]) = <<>>
      BY <2>1 DEF Cuts
    <2>3. cut[g + 2] \in 0 .. Len(s) /\ cut[g + 1] \in 0 .. Len(s)
      BY <1>1, <2>1
    <2>4. \A lo, hi \in 0 .. Len(s) : lo <= hi /\ SubSeq(s, lo + 1, hi) = <<>> => lo = hi
      BY Coincide
    <2>5. QED
      BY <2>2, <2>3, <2>4
  <1>4. ASSUME NEW f \in 0 .. m
        PROVE  c[f + 1] <= c[f] /\ q[f] = SubSeq(s, c[f + 1] + 1, c[f])
    <2>1. f + 1 \in 0 .. m + 1 /\ f \in 0 .. m + 1 /\ g \in 0 .. m + 1 /\ g + 1 \in 0 .. m + 1
          /\ g \in 0 .. m /\ g + 1 \in 0 .. m /\ (g + 1) + 1 = g + 2 /\ g + 2 # g + 1
      OBVIOUS
    <2>2. cut[f + 1] <= cut[f] /\ piece[f] = SubSeq(s, cut[f + 1] + 1, cut[f])
      BY DEF Cuts
    <2>3. CASE f = g
      <3>1. c[f + 1] = cut[g] /\ c[f] = cut[g]
        BY <1>2, <2>1, <2>3 DEF Cuts
      <3>2. SubSeq(s, cut[g] + 1, cut[g]) = <<>> /\ cut[g] <= cut[g]
        <4>1. cut[g] \in 0 .. Len(s) /\ cut[g] <= cut[g]
          BY <1>1, <2>1
        <4>. HIDE DEF c
        <4>2. QED
          BY <4>1, PieceIs
      <3>3. QED
        BY <2>3, <3>1, <3>2
    <2>4. CASE f = g + 1
      <3>1. c[f + 1] = cut[g + 2] /\ c[f] = cut[g]
        BY <2>1, <2>4 DEF Cuts
      <3>2. cut[g + 1] <= cut[g] /\ piece[g] = SubSeq(s, cut[g + 1] + 1, cut[g])
        BY <2>1 DEF Cuts
      <3>3. QED
        BY <1>3, <2>4, <3>1, <3>2
    <2>5. CASE f \notin {g, g + 1}
      <3>1. c[f] = cut[f] /\ c[f + 1] = cut[f + 1]
        BY <2>1, <2>5 DEF Cuts
      <3>2. QED
        BY <2>2, <2>5, <3>1
    <2>6. QED
      BY <2>3, <2>4, <2>5
  <1>5. Cuts(c, q, m, s)
    BY <1>2, <1>4 DEF Cuts
  <1>6. QED
    BY <1>5

\* The oldest piece may go.
LEMMA PieceGoes ==
  ASSUME NEW A, NEW m \in Nat, NEW s \in Seq(A), NEW cut, NEW piece, Cuts(cut, piece, m, s),
         NEW q, q[m] = <<>>, \A f \in 0 .. m : f # m => q[f] = piece[f]
  PROVE  \E c : Cuts(c, q, m, s)
  <1>. DEFINE c == [cut EXCEPT ![m + 1] = cut[m]]
  <1>1. Len(s) \in Nat /\ \A f \in 0 .. m + 1 : cut[f] \in 0 .. Len(s)
    <2>1. cut \in [0 .. m + 1 -> 0 .. Len(s)]
      BY DEF Cuts
    <2>2. QED
      BY <2>1
  <1>2. c \in [0 .. m + 1 -> 0 .. Len(s)] /\ c[0] = Len(s)
    BY <1>1 DEF Cuts
  <1>3. ASSUME NEW f \in 0 .. m
        PROVE  c[f + 1] <= c[f] /\ q[f] = SubSeq(s, c[f + 1] + 1, c[f])
    <2>1. f + 1 \in 0 .. m + 1 /\ f \in 0 .. m + 1 /\ m \in 0 .. m + 1 /\ f # m + 1
      OBVIOUS
    <2>2. CASE f = m
      <3>1. c[f + 1] = cut[m] /\ c[f] = cut[m]
        BY <2>1, <2>2 DEF Cuts
      <3>2. SubSeq(s, cut[m] + 1, cut[m]) = <<>> /\ cut[m] <= cut[m]
        <4>1. cut[m] \in 0 .. Len(s) /\ cut[m] <= cut[m]
          BY <1>1, <2>1
        <4>. HIDE DEF c
        <4>2. QED
          BY <4>1, PieceIs
      <3>3. QED
        BY <2>2, <3>1, <3>2
    <2>3. CASE f # m
      <3>1. c[f] = cut[f] /\ c[f + 1] = cut[f + 1]
        BY <2>1, <2>3 DEF Cuts
      <3>2. QED
        BY <2>3, <3>1 DEF Cuts
    <2>4. QED
      BY <2>2, <2>3
  <1>4. Cuts(c, q, m, s)
    BY <1>2, <1>3 DEF Cuts
  <1>5. QED
    BY <1>4

\* A record goes to the newest piece.
LEMMA PieceGrows ==
  ASSUME NEW A, NEW m \in Nat, NEW s \in Seq(A), NEW r \in A, NEW cut, NEW piece,
         Cuts(cut, piece, m, s),
         NEW q, q[0] = Append(piece[0], r), \A f \in 1 .. m : q[f] = piece[f]
  PROVE  \E c : Cuts(c, q, m, Append(s, r))
  <1>. DEFINE n == Len(s)
              t == Append(s, r)
              c == [cut EXCEPT ![0] = n + 1]
  <1>1. n \in Nat /\ \A f \in 0 .. m + 1 : cut[f] \in 0 .. n
    BY DEF Cuts
  <1>2. t \in Seq(A) /\ Len(t) = n + 1 /\ t[n + 1] = r /\ \A i \in 1 .. n : t[i] = s[i]
    OBVIOUS
  <1>3. c \in [0 .. m + 1 -> 0 .. n + 1] /\ c[0] = n + 1
    BY <1>1 DEF Cuts
  <1>. HIDE DEF n, t
  <1>4. ASSUME NEW lo \in 0 .. n, NEW hi \in 0 .. n, lo <= hi
        PROVE  SubSeq(t, lo + 1, hi) = SubSeq(s, lo + 1, hi)
    <2>1. lo \in 0 .. n + 1 /\ hi \in 0 .. n + 1
      BY <1>1
    <2>2. /\ SubSeq(t, lo + 1, hi) \in Seq(A) /\ Len(SubSeq(t, lo + 1, hi)) = hi - lo
          /\ \A i \in 1 .. hi - lo : SubSeq(t, lo + 1, hi)[i] = t[lo + i]
      BY <1>2, <1>4, <2>1, PieceIs
    <2>3. /\ SubSeq(s, lo + 1, hi) \in Seq(A) /\ Len(SubSeq(s, lo + 1, hi)) = hi - lo
          /\ \A i \in 1 .. hi - lo : SubSeq(s, lo + 1, hi)[i] = s[lo + i]
      BY <1>1, <1>4, PieceIs DEF n
    <2>4. \A i \in 1 .. hi - lo : t[lo + i] = s[lo + i]
      BY <1>1, <1>2
    <2>5. \A i \in 1 .. hi - lo : SubSeq(t, lo + 1, hi)[i] = SubSeq(s, lo + 1, hi)[i]
      BY <2>2, <2>3, <2>4
    <2>6. QED
      BY <2>2, <2>3, <2>5, SeqEqual
  <1>5. SubSeq(t, cut[1] + 1, n + 1) = Append(SubSeq(s, cut[1] + 1, n), r)
    <2>. DEFINE lo == cut[1]
    <2>1. lo \in 0 .. n /\ lo \in 0 .. n + 1 /\ lo <= n /\ n \in 0 .. n /\ n + 1 \in 0 .. n + 1
      BY <1>1
    <2>. HIDE DEF lo
    <2>2. /\ SubSeq(t, lo + 1, n + 1) \in Seq(A) /\ Len(SubSeq(t, lo + 1, n + 1)) = n + 1 - lo
          /\ \A i \in 1 .. n + 1 - lo : SubSeq(t, lo + 1, n + 1)[i] = t[lo + i]
      BY <1>1, <1>2, <2>1, PieceIs
    <2>3. /\ SubSeq(s, lo + 1, n) \in Seq(A) /\ Len(SubSeq(s, lo + 1, n)) = n - lo
          /\ \A i \in 1 .. n - lo : SubSeq(s, lo + 1, n)[i] = s[lo + i]
      BY <1>1, <2>1, PieceIs DEF n
    <2>. DEFINE u == SubSeq(s, lo + 1, n)
    <2>. HIDE DEF u
    <2>4. /\ Append(u, r) \in Seq(A) /\ Len(Append(u, r)) = n + 1 - lo
          /\ Append(u, r)[n + 1 - lo] = r
          /\ \A i \in 1 .. n - lo : Append(u, r)[i] = s[lo + i]
      <3>1. u \in Seq(A) /\ Len(u) = n - lo /\ \A i \in 1 .. n - lo : u[i] = s[lo + i]
        BY <2>3 DEF u
      <3>2. (n - lo) + 1 = n + 1 - lo
        BY <1>1, <2>1
      <3>3. QED
        BY <3>1, <3>2, AppendProperties
    <2>5. ASSUME NEW i \in 1 .. n + 1 - lo PROVE SubSeq(t, lo + 1, n + 1)[i] = Append(u, r)[i]
      <3>1. SubSeq(t, lo + 1, n + 1)[i] = t[lo + i]
        BY <2>2
      <3>2. CASE i = n + 1 - lo
        <4>1. lo + i = n + 1
          BY <1>1, <2>1, <3>2
        <4>2. QED
          BY <1>2, <2>4, <3>1, <3>2, <4>1
      <3>3. CASE i # n + 1 - lo
        <4>1. i \in 1 .. n - lo /\ lo + i \in 1 .. n
          BY <1>1, <2>1, <3>3
        <4>2. QED
          BY <1>2, <2>4, <3>1, <4>1
      <3>4. QED
        BY <3>2, <3>3
    <2>6. SubSeq(t, lo + 1, n + 1) = Append(u, r)
      BY <2>2, <2>4, <2>5, SeqEqual
    <2>7. QED
      BY <2>6 DEF u, lo
  <1>6. ASSUME NEW f \in 0 .. m
        PROVE  c[f + 1] <= c[f] /\ q[f] = SubSeq(t, c[f + 1] + 1, c[f])
    <2>1. f + 1 \in 0 .. m + 1 /\ f \in 0 .. m + 1 /\ f + 1 # 0 /\ 1 \in 0 .. m + 1
      OBVIOUS
    <2>2. cut[f + 1] <= cut[f] /\ piece[f] = SubSeq(s, cut[f + 1] + 1, cut[f])
          /\ cut[0] = n /\ cut[f] \in 0 .. n /\ cut[f + 1] \in 0 .. n /\ cut \in [0 .. m + 1 -> 0 .. n]
      BY <1>1, <2>1 DEF Cuts, n
    <2>3. CASE f = 0
      <3>1. c[0] = n + 1 /\ c[1] = cut[1]
        <4>1. 0 \in 0 .. m + 1 /\ 1 # 0
          OBVIOUS
        <4>2. QED
          BY <2>1, <2>2, <4>1
      <3>2. q[0] = Append(SubSeq(s, cut[1] + 1, n), r) /\ f + 1 = 1
        <4>1. f + 1 = 1
          BY <2>3
        <4>2. piece[0] = SubSeq(s, cut[1] + 1, cut[0])
          BY <2>2, <2>3, <4>1
        <4>3. QED
          BY <2>2, <4>1, <4>2
      <3>3. cut[1] <= n + 1
        BY <1>1, <2>1
      <3>4. QED
        BY <1>5, <2>3, <3>1, <3>2, <3>3
    <2>4. CASE f # 0
      <3>1. c[f] = cut[f] /\ c[f + 1] = cut[f + 1]
        BY <2>1, <2>2, <2>4
      <3>2. q[f] = piece[f]
        BY <2>4
      <3>3. QED
        BY <1>4, <2>2, <3>1, <3>2
    <2>5. QED
      BY <2>3, <2>4
  <1>7. Cuts(c, q, m, t)
    BY <1>2, <1>3, <1>6 DEF Cuts
  <1>8. QED
    BY <1>7 DEF t

\* A sequence of sequences is flattened one after another.
Flattens(f, seqs) ==
  /\ f[0] = <<>>
  /\ \A i \in 1 .. Len(seqs) : f[i] = f[i - 1] \o seqs[i]
  /\ Ev!FlattenSeq(seqs) = f[Len(seqs)]

LEMMA FlattenedInTurn ==
  ASSUME NEW A, NEW seqs \in Seq(Seq(A))
  PROVE  \E f \in [0 .. Len(seqs) -> Seq(A)] : Flattens(f, seqs)
  <1>. DEFINE n == Len(seqs)
              V == Seq(A)
              G == [i \in 1 .. n |-> [x \in V |-> x \o seqs[i]]]
  <1>1. n \in Nat /\ (\A i \in 1 .. n : seqs[i] \in V) /\ <<>> \in V
    BY LenProperties
  <1>2. G \in [1 .. n -> [V -> V]]
    <2>1. ASSUME NEW i \in 1 .. n, NEW x \in V PROVE x \o seqs[i] \in V
      BY <1>1, ConcatProperties
    <2>2. QED
      BY <2>1
  <1>3. \A i \in 1 .. n, x \in V : G[i][x] = x \o seqs[i]
    OBVIOUS
  <1>4. \E f \in [0 .. n -> V] : WorkedOut(f, <<>>, G, n)
    <2>. HIDE DEF G, n, V
    <2>1. QED
      BY <1>1, <1>2, Recursion
  <1>5. PICK f \in [0 .. n -> V] : f[0] = <<>> /\ \A i \in 1 .. n : f[i] = G[i][f[i - 1]]
    <2>. HIDE DEF G, n, V
    <2>1. QED
      BY <1>4 DEF WorkedOut
  <1>6. ASSUME NEW i \in 1 .. n PROVE f[i - 1] \in V /\ f[i] = f[i - 1] \o seqs[i]
    <2>. HIDE DEF G, n, V
    <2>1. i - 1 \in 0 .. n
      BY <1>1
    <2>2. f[i - 1] \in V
      BY <1>5, <2>1
    <2>3. QED
      BY <1>3, <1>5, <2>2
  <1>7. Ev!FlattenSeq(seqs) = f[n]
    <2>1. CASE n = 0
      <3>1. Ev!FlattenSeq(seqs) = seqs /\ seqs = <<>>
        BY <2>1 DEF Ev!FlattenSeq
      <3>2. QED
        BY <1>5, <2>1, <3>1
    <2>2. CASE n # 0
      <3>. DEFINE Grown(g) == [i \in 1 .. n |-> IF i = 1 THEN seqs[i] ELSE g[i - 1] \o seqs[i]]
                  up == CHOOSE g : g = Grown(g)
                  h == [i \in 1 .. n |-> f[i]]
                  e == [i \in 0 .. n |-> IF i = 0 THEN <<>> ELSE up[i]]
      <3>. HIDE DEF V, G
      <3>1. 1 \in 1 .. n /\ n \in 1 .. n /\ n \in 0 .. n /\ n # 0
        BY <1>1, <2>2
      <3>2. f[1] = seqs[1]
        <4>1. f[1] = <<>> \o seqs[1]
          <5>1. f[1] = f[1 - 1] \o seqs[1]
            BY <1>6, <3>1
          <5>2. f[1 - 1] = <<>>
            BY <1>5
          <5>3. QED
            BY <5>1, <5>2
        <4>2. seqs[1] \in Seq(A)
          BY <1>1, <3>1 DEF V
        <4>3. QED
          BY <4>1, <4>2, ConcatEmptySeq
      <3>3. h = Grown(h)
        <4>1. ASSUME NEW i \in 1 .. n PROVE h[i] = Grown(h)[i]
          <5>1. CASE i = 1
            BY <3>2, <5>1
          <5>2. CASE i # 1
            <6>1. i - 1 \in 1 .. n
              BY <1>1, <5>2
            <6>2. h[i - 1] = f[i - 1] /\ Grown(h)[i] = h[i - 1] \o seqs[i] /\ h[i] = f[i]
              BY <5>2, <6>1
            <6>3. QED
              BY <1>6, <6>2
          <5>3. QED
            BY <5>1, <5>2
        <4>2. Grown(h) = [i \in 1 .. n |-> Grown(h)[i]] /\ h = [i \in 1 .. n |-> h[i]]
          OBVIOUS
        <4>. HIDE DEF Grown, h
        <4>3. QED
          BY <4>1, <4>2
      <3>4. up = Grown(up)
        <4>. HIDE DEF Grown, h
        <4>1. QED
          BY <3>3
      <3>5. Ev!FlattenSeq(seqs) = up[n]
        BY <2>2 DEF Ev!FlattenSeq, n
      <3>. HIDE DEF up, n
      <3>6. \A i \in 1 .. n : up[i] = Grown(up)[i]
        <4>. HIDE DEF Grown
        <4>1. QED
          BY <3>4
      <3>7. ASSUME NEW i \in 1 .. n, e[i - 1] = f[i - 1] PROVE e[i] = f[i]
        <4>1. i \in 0 .. n /\ i # 0 /\ i - 1 \in 0 .. n
          BY <1>1
        <4>2. e[i] = up[i]
          BY <4>1
        <4>3. CASE i = 1
          <5>1. up[i] = seqs[1]
            BY <3>6, <4>3
          <5>2. QED
            BY <3>2, <4>2, <4>3, <5>1
        <4>4. CASE i # 1
          <5>1. i - 1 # 0
            BY <4>4
          <5>2. e[i - 1] = up[i - 1]
            BY <4>1, <5>1
          <5>3. up[i] = up[i - 1] \o seqs[i]
            BY <3>6, <4>4
          <5>4. QED
            BY <1>6, <3>7, <4>2, <5>2, <5>3
        <4>5. QED
          BY <4>3, <4>4
      <3>8. e[0] = <<>>
        <4>1. 0 \in 0 .. n
          BY <1>1
        <4>2. QED
          BY <4>1
      <3>9. e[n] = up[n]
        BY <3>1
      <3>. HIDE DEF e
      <3>10. InStep(e, f, n)
        BY <1>5, <3>7, <3>8 DEF InStep
      <3>11. e[n] = f[n]
        BY <1>1, <3>1, <3>10, OneResult DEF Equal
      <3>12. QED
        BY <3>5, <3>9, <3>11
    <2>3. QED
      BY <2>1, <2>2
  <1>8. Flattens(f, seqs)
    BY <1>5, <1>6, <1>7 DEF Flattens
  <1>9. QED
    BY <1>8

\* What comes after a cut is a suffix.
LEMMA EndIsSuffix ==
  ASSUME NEW A, NEW s \in Seq(A), NEW lo \in 0 .. Len(s)
  PROVE  Ev!IsSuffix(SubSeq(s, lo + 1, Len(s)), s)
  <1>. DEFINE n == Len(s)
              t == SubSeq(s, lo + 1, n)
              rs == [i \in 1 .. n |-> s[(n - i) + 1]]
              k == n - lo
              rt == [i \in 1 .. k |-> t[(k - i) + 1]]
  <1>1. n \in Nat /\ k \in Nat /\ k <= n /\ n \in 0 .. n /\ lo \in 0 .. n /\ lo <= n
    OBVIOUS
  <1>2. t \in Seq(A) /\ Len(t) = k /\ \A i \in 1 .. k : t[i] = s[lo + i]
    BY <1>1, PieceIs
  <1>3. Ev!Reverse(s) = rs /\ Ev!Reverse(t) = rt
    <2>1. Ev!Reverse(t) = [i \in 1 .. Len(t) |-> t[(Len(t) - i) + 1]]
      BY DEF Ev!Reverse
    <2>2. QED
      BY <1>2, <2>1 DEF Ev!Reverse
  <1>4. \A i \in 1 .. n : s[i] \in A
    OBVIOUS
  <1>. HIDE DEF n, t, k
  <1>5. rs \in Seq(A) /\ Len(rs) = n
    <2>1. ASSUME NEW i \in 1 .. n PROVE s[(n - i) + 1] \in A
      <3>1. (n - i) + 1 \in 1 .. n
        BY <1>1
      <3>2. QED
        BY <1>4, <3>1
    <2>2. QED
      BY <1>1, <2>1
  <1>6. rt \in Seq(A) /\ Len(rt) = k
    <2>1. ASSUME NEW i \in 1 .. k PROVE t[(k - i) + 1] \in A
      <3>1. (k - i) + 1 \in 1 .. k
        BY <1>1
      <3>2. QED
        BY <1>2, <3>1
    <2>2. QED
      BY <1>1, <2>1
  <1>7. ASSUME NEW i \in 1 .. k PROVE rt[i] = rs[i]
    <2>1. (k - i) + 1 \in 1 .. k /\ lo + ((k - i) + 1) = (n - i) + 1 /\ i \in 1 .. n
      BY <1>1 DEF k
    <2>2. rt[i] = t[(k - i) + 1] /\ rs[i] = s[(n - i) + 1]
      BY <2>1
    <2>3. QED
      BY <1>2, <2>1, <2>2
  <1>. HIDE DEF rs, rt
  <1>8. SubSeq(rt, 1, k) = SubSeq(rs, 1, k)
    <2>1. SubSeq(rs, 0 + 1, k) \in Seq(A) /\ Len(SubSeq(rs, 0 + 1, k)) = k - 0
          /\ \A i \in 1 .. k - 0 : SubSeq(rs, 0 + 1, k)[i] = rs[0 + i]
      <3>1. 0 \in 0 .. Len(rs) /\ k \in 0 .. Len(rs) /\ 0 <= k
        BY <1>1, <1>5
      <3>2. QED
        BY <1>5, <3>1, PieceIs
    <2>2. SubSeq(rs, 1, k) \in Seq(A) /\ Len(SubSeq(rs, 1, k)) = k
          /\ \A i \in 1 .. k : SubSeq(rs, 1, k)[i] = rs[i]
      <3>1. 0 + 1 = 1 /\ k - 0 = k /\ \A i \in 1 .. k : 0 + i = i
        BY <1>1
      <3>2. QED
        BY <2>1, <3>1
    <2>3. SubSeq(rt, 1, k) = rt
      BY <1>6, SubSeqFull
    <2>4. \A i \in 1 .. Len(rt) : rt[i] = SubSeq(rs, 1, k)[i]
      BY <1>6, <1>7, <2>2
    <2>5. rt = SubSeq(rs, 1, k)
      BY <1>6, <2>2, <2>4, SeqEqual
    <2>6. QED
      BY <2>3, <2>5
  <1>9. Ev!IsPrefix(rt, rs)
    BY <1>1, <1>5, <1>6, <1>8 DEF Ev!IsPrefix
  <1>10. QED
    BY <1>3, <1>9 DEF Ev!IsSuffix, t, n

\* The pieces, put together again, are the end of what they were cut from.
LEMMA PiecesAreTheEnd ==
  ASSUME NEW A, NEW m \in Nat, NEW s \in Seq(A), NEW cut, NEW piece, Cuts(cut, piece, m, s),
         NEW seqs, seqs = [i \in 1 .. m + 1 |-> piece[m + 1 - i]]
  PROVE  Ev!IsSuffix(Ev!FlattenSeq(seqs), s)
  <1>. DEFINE n == m + 1
              lo == cut[n]
              g == [i \in 0 .. n |-> SubSeq(s, lo + 1, cut[n - i])]
  <1>1. n \in Nat /\ Len(s) \in Nat /\ cut \in [0 .. n -> 0 .. Len(s)] /\ n \in 0 .. n
    BY DEF Cuts
  <1>2. \A i \in 0 .. n : cut[i] \in 0 .. Len(s)
    BY <1>1
  <1>3. ASSUME NEW f \in 0 .. m
        PROVE cut[f + 1] <= cut[f] /\ piece[f] = SubSeq(s, cut[f + 1] + 1, cut[f]) /\ piece[f] \in Seq(A)
    <2>1. f + 1 \in 0 .. n /\ f \in 0 .. n
      OBVIOUS
    <2>2. cut[f + 1] <= cut[f] /\ piece[f] = SubSeq(s, cut[f + 1] + 1, cut[f])
      BY DEF Cuts
    <2>3. cut[f + 1] \in 0 .. Len(s) /\ cut[f] \in 0 .. Len(s)
      BY <1>2, <2>1
    <2>4. QED
      BY <2>2, <2>3, PieceIs
  <1>4. seqs \in Seq(Seq(A)) /\ Len(seqs) = n /\ \A i \in 1 .. n : seqs[i] = piece[n - i]
    <2>1. ASSUME NEW i \in 1 .. n PROVE piece[n - i] \in Seq(A)
      <3>1. n - i \in 0 .. m
        OBVIOUS
      <3>2. QED
        BY <1>3, <3>1
    <2>2. QED
      BY <1>1, <2>1
  <1>5. PICK f \in [0 .. Len(seqs) -> Seq(A)] : Flattens(f, seqs)
    BY <1>4, FlattenedInTurn
  <1>. DEFINE T == {i \in 0 .. n : lo <= cut[n - i] /\ f[i] = SubSeq(s, lo + 1, cut[n - i])}
  <1>6. 0 \in T
    <2>1. n - 0 = n /\ 0 \in 0 .. n
      BY <1>1
    <2>2. lo \in 0 .. Len(s) /\ lo <= lo
      BY <1>1, <1>2
    <2>3. SubSeq(s, lo + 1, lo) = <<>>
      <3>. HIDE DEF lo
      <3>1. QED
        BY <2>2, PieceIs
    <2>4. f[0] = <<>>
      BY <1>5 DEF Flattens
    <2>5. QED
      BY <2>1, <2>2, <2>3, <2>4
  <1>7. ASSUME NEW i \in 1 .. n, i - 1 \in T PROVE i \in T
    <2>. DEFINE a == cut[n - i]
                b == cut[n - (i - 1)]
    <2>1. n - i \in 0 .. m /\ n - i \in 0 .. n /\ (n - i) + 1 = n - (i - 1) /\ n - (i - 1) \in 0 .. n
      OBVIOUS
    <2>2. a \in 0 .. Len(s) /\ b \in 0 .. Len(s) /\ lo \in 0 .. Len(s)
      BY <1>1, <1>2, <2>1
    <2>3. b <= a /\ piece[n - i] = SubSeq(s, b + 1, a)
      <3>. HIDE DEF n
      <3>1. QED
        BY <1>3, <2>1
    <2>4. lo <= b /\ f[i - 1] = SubSeq(s, lo + 1, b)
      BY <1>7
    <2>5. f[i] = f[i - 1] \o seqs[i]
      BY <1>4, <1>5 DEF Flattens
    <2>6. seqs[i] = piece[n - i]
      BY <1>4
    <2>. HIDE DEF n, a, b, lo
    <2>7. f[i] = SubSeq(s, lo + 1, b) \o SubSeq(s, b + 1, a)
      BY <2>3, <2>4, <2>5, <2>6
    <2>8. f[i] = SubSeq(s, lo + 1, a)
      <3>1. lo + 1 \in 1 .. Len(s) + 1 /\ b \in (lo + 1) - 1 .. Len(s) /\ a \in b .. Len(s)
        BY <1>1, <2>2, <2>3, <2>4
      <3>2. QED
        BY <2>7, <3>1, ConcatAdjacentSubSeq
    <2>9. lo <= a
      BY <2>2, <2>3, <2>4
    <2>10. QED
      BY <2>8, <2>9 DEF a
  <1>8. n \in T
    <2>. HIDE DEF T, n
    <2>1. \A i \in 0 .. n : i \in T
      BY <1>1, <1>6, <1>7, Upward
    <2>2. QED
      BY <1>1, <2>1
  <1>9. f[n] = SubSeq(s, lo + 1, Len(s)) /\ lo \in 0 .. Len(s)
    <2>1. f[n] = SubSeq(s, lo + 1, cut[n - n])
      BY <1>8
    <2>2. n - n = 0 /\ cut[0] = Len(s)
      BY <1>1 DEF Cuts
    <2>3. QED
      BY <1>1, <1>2, <2>1, <2>2
  <1>10. Ev!FlattenSeq(seqs) = SubSeq(s, lo + 1, Len(s))
    BY <1>4, <1>5, <1>9 DEF Flattens
  <1>11. QED
    BY <1>9, <1>10, EndIsSuffix

-----------------------------------------------------------------------------
(***************************************************************************)
(* The writer.  A rotation works on a file that nobody has open, and what  *)
(* it moves a file to is free; a record that is about to be written fits.  *)
(***************************************************************************)
HistTyped == Ev!TypeOK /\ history_kept \in Seq(Ev!Record)

Vacated ==
  /\ history_pc \in {"remove", "shift", "retire", "open"} => history_handle = "nil"
  /\ history_pc = "close" => history_handle # "nil"
  /\ history_pc = "shift" =>
       history_at \in 1 .. MaxFiles - 1 /\ history_at + 1 \notin DOMAIN history_disk
  /\ history_pc = "retire" => MaxFiles > 0 /\ 1 \notin DOMAIN history_disk
  /\ history_pc = "open" => 0 \notin DOMAIN history_disk

Fits ==
  /\ history_pc \notin {"idle", "down"} => history_pending \in Ev!Record
  /\ history_pc = "append" /\ history_handle = "open" =>
       history_size = 0 \/ history_size + history_pending.len <= MaxBytes

Pieces == [f \in 0 .. MaxFiles |-> Ev!Whole(Ev!File(f))]
Continues == \E cut : Cuts(cut, Pieces, MaxFiles, history_kept)

RotInv == HistTyped /\ Vacated /\ Fits /\ Ev!FilesAreBounded /\ Continues

\* Every file but the oldest has all it had, under some name.
Spared ==
  \A f \in DOMAIN history_disk \ {MaxFiles} :
    \E g \in DOMAIN history_disk' : Ev!IsPrefix(history_disk[f], history_disk'[g])

LEMMA OwnPrefix == ASSUME NEW A, NEW s \in Seq(A) PROVE Ev!IsPrefix(s, s)
  BY DEF Ev!IsPrefix

LEMMA AppendedPrefix == ASSUME NEW A, NEW s \in Seq(A), NEW r \in A PROVE Ev!IsPrefix(s, Append(s, r))
  <1>. DEFINE n == Len(s)  t == Append(s, r)
  <1>1. n \in Nat /\ t \in Seq(A) /\ Len(t) = n + 1 /\ \A i \in 1 .. n : t[i] = s[i]
    BY AppendProperties
  <1>2. SubSeq(s, 1, n) = s
    BY SubSeqFull
  <1>. HIDE DEF n, t
  <1>3. SubSeq(t, 0 + 1, n) \in Seq(A) /\ Len(SubSeq(t, 0 + 1, n)) = n - 0
        /\ \A i \in 1 .. n - 0 : SubSeq(t, 0 + 1, n)[i] = t[0 + i]
    <2>1. 0 \in 0 .. Len(t) /\ n \in 0 .. Len(t) /\ 0 <= n
      BY <1>1
    <2>2. QED
      BY <1>1, <2>1, PieceIs
  <1>4. SubSeq(t, 1, n) \in Seq(A) /\ Len(SubSeq(t, 1, n)) = n
        /\ \A i \in 1 .. n : SubSeq(t, 1, n)[i] = t[i]
    <2>1. 0 + 1 = 1 /\ n - 0 = n /\ \A i \in 1 .. n : 0 + i = i
      BY <1>1
    <2>2. QED
      BY <1>3, <2>1
  <1>5. \A i \in 1 .. Len(s) : s[i] = SubSeq(t, 1, n)[i]
    BY <1>1, <1>4 DEF n
  <1>6. s = SubSeq(t, 1, n)
    BY <1>4, <1>5, SeqEqual DEF n
  <1>7. QED
    BY <1>1, <1>2, <1>6 DEF Ev!IsPrefix, n, t

LEMMA FileIs ==
  ASSUME HistTyped
  PROVE  /\ DOMAIN history_disk \subseteq 0 .. MaxFiles
         /\ \A f \in DOMAIN history_disk : history_disk[f] \in Seq(Stored)
         /\ \A f \in 0 .. MaxFiles : Ev!File(f) \in Seq(Stored)
  BY DEF HistTyped, Ev!TypeOK, Ev!Files, Ev!File, Stored

\* A step that leaves the files alone.
LEMMA FilesStay ==
  ASSUME RotInv, history_disk' = history_disk, history_kept' = history_kept
  PROVE  Ev!FilesAreBounded' /\ Continues' /\ Spared
  <1>1. Ev!FilesAreBounded'
    BY DEF RotInv, Ev!FilesAreBounded, Ev!Bytes
  <1>2. Pieces' = Pieces
    BY DEF Pieces, Ev!Whole, Ev!File, Ev!Picked
  <1>3. Continues'
    BY <1>2 DEF RotInv, Continues
  <1>4. Spared
    <2>1. \A f \in DOMAIN history_disk : history_disk[f] \in Seq(Stored)
      BY FileIs DEF RotInv
    <2>2. QED
      BY <2>1, OwnPrefix DEF Spared
  <1>5. QED
    BY <1>1, <1>3, <1>4

LEMMA WriteStep ==
  ASSUME Ev!ConstantsOK, RotInv, Ev!Write PROVE RotInv' /\ Spared
  <1>1. history_disk' = history_disk /\ history_kept' = history_kept
        /\ history_handle' = history_handle /\ history_size' = history_size
        /\ history_at' = history_at /\ history_faults' = history_faults
        /\ history_pc = "idle" /\ history_tried < MaxRecords
        /\ history_tried' = history_tried + 1
        /\ history_pending' \in [id : {history_tried + 1}, len : Lengths]
        /\ history_pc' = IF history_handle = "nil" THEN "idle"
                         ELSE IF Ev!NeedsRotation(history_pending') THEN "close" ELSE "append"
    BY DEF Ev!Write
  <1>2. history_tried \in Nat /\ history_tried + 1 \in 1 .. MaxRecords
    BY <1>1 DEF RotInv, HistTyped, Ev!TypeOK, Ev!ConstantsOK
  <1>3. history_pending' \in Ev!Record
    BY <1>1, <1>2 DEF Ev!Record
  <1>4. history_pc' \in {"idle", "close", "append"}
        /\ (history_pc' = "close" => history_handle # "nil")
        /\ (history_pc' = "append" => ~Ev!NeedsRotation(history_pending'))
    BY <1>1
  <1>5. Ev!TypeOK'
    <2>1. history_tried' \in 0 .. MaxRecords
      BY <1>1, <1>2
    <2>2. (history_handle = "open" => 0 \in DOMAIN history_disk /\ history_size = Ev!Bytes(history_disk[0]))'
      BY <1>1 DEF RotInv, HistTyped, Ev!TypeOK, Ev!Bytes
    <2>3. QED
      BY <1>1, <1>3, <1>4, <2>1, <2>2 DEF RotInv, HistTyped, Ev!TypeOK, Ev!Files
  <1>6. HistTyped'
    BY <1>1, <1>5 DEF RotInv, HistTyped
  <1>7. Vacated'
    BY <1>1, <1>4 DEF Vacated
  <1>8. Fits'
    <2>1. ASSUME history_pc' = "append", history_handle' = "open"
          PROVE  history_size' = 0 \/ history_size' + history_pending'.len <= MaxBytes
      <3>1. history_size = Ev!Bytes(history_disk[0]) /\ history_disk[0] \in Seq(Stored)
        BY <1>1, <2>1, FileIs DEF RotInv, HistTyped, Ev!TypeOK
      <3>2. history_size \in Nat
        BY <3>1, BytesAreMany
      <3>3. history_pending'.len \in Nat
        BY <1>3, StoredIs DEF Stored
      <3>4. ~(history_size > 0 /\ history_size + history_pending'.len > MaxBytes) /\ MaxBytes \in Nat
        BY <1>4, <2>1 DEF Ev!NeedsRotation, Ev!ConstantsOK
      <3>5. QED
        BY <1>1, <3>2, <3>3, <3>4
    <2>2. QED
      BY <1>3, <2>1 DEF Fits
  <1>9. QED
    BY <1>1, <1>6, <1>7, <1>8, FilesStay DEF RotInv

LEMMA CloseLiveStep ==
  ASSUME Ev!ConstantsOK, RotInv, Ev!CloseLive PROVE RotInv' /\ Spared
  <1>1. history_disk' = history_disk /\ history_kept' = history_kept
        /\ history_size' = history_size /\ history_at' = history_at
        /\ history_pending' = history_pending /\ history_tried' = history_tried
    BY DEF Ev!CloseLive
  <1>2. history_pc = "close" /\ history_pc' \in {"remove", "append"}
        /\ history_handle' \in {"nil", "shut"}
        /\ (history_pc' = "remove" => history_handle' = "nil")
        /\ (history_faults' = history_faults \/
            (history_faults < LogFaults /\ history_faults' = history_faults + 1))
    BY DEF Ev!CloseLive, Ev!Goto, Ev!CanFail
  <1>3. history_faults' \in 0 .. LogFaults
    BY <1>2 DEF RotInv, HistTyped, Ev!TypeOK, Ev!ConstantsOK
  <1>4. HistTyped'
    BY <1>1, <1>2, <1>3 DEF RotInv, HistTyped, Ev!TypeOK, Ev!Files
  <1>5. Vacated'
    BY <1>2 DEF Vacated
  <1>6. Fits'
    BY <1>1, <1>2 DEF RotInv, Fits
  <1>7. QED
    BY <1>1, <1>4, <1>5, <1>6, FilesStay DEF RotInv

LEMMA GiveUpStep ==
  ASSUME Ev!ConstantsOK, RotInv, Ev!GiveUp PROVE RotInv' /\ Spared
  <1>1. history_disk' = history_disk /\ history_kept' = history_kept
        /\ history_size' = history_size /\ history_at' = history_at
        /\ history_pending' = history_pending /\ history_tried' = history_tried
        /\ history_handle' = history_handle /\ history_pc' = "append"
        /\ history_pc \in {"remove", "shift", "retire", "open"}
        /\ history_faults < LogFaults /\ history_faults' = history_faults + 1
    BY DEF Ev!GiveUp, Ev!CanFail
  <1>2. history_faults' \in 0 .. LogFaults
    BY <1>1 DEF RotInv, HistTyped, Ev!TypeOK, Ev!ConstantsOK
  <1>3. history_handle' = "nil"
    BY <1>1 DEF RotInv, Vacated
  <1>4. HistTyped'
    BY <1>1, <1>2, <1>3 DEF RotInv, HistTyped, Ev!TypeOK, Ev!Files
  <1>5. Vacated'
    BY <1>1 DEF Vacated
  <1>6. Fits'
    BY <1>1, <1>3 DEF RotInv, Fits
  <1>7. QED
    BY <1>1, <1>4, <1>5, <1>6, FilesStay DEF RotInv

LEMMA EndStep ==
  ASSUME Ev!ConstantsOK, RotInv, Ev!Close \/ Ev!Crash PROVE RotInv' /\ Spared
  <1>1. history_disk' = history_disk /\ history_kept' = history_kept
        /\ history_size' = history_size /\ history_at' = history_at
        /\ history_pending' = history_pending /\ history_tried' = history_tried
        /\ history_handle' = "nil" /\ history_pc' = "down"
        /\ (history_faults' = history_faults \/
            (history_faults < LogFaults /\ history_faults' = history_faults + 1))
    BY DEF Ev!Close, Ev!Crash, Ev!CanFail, Ev!Goto
  <1>2. history_faults' \in 0 .. LogFaults
    BY <1>1 DEF RotInv, HistTyped, Ev!TypeOK, Ev!ConstantsOK
  <1>3. HistTyped'
    BY <1>1, <1>2 DEF RotInv, HistTyped, Ev!TypeOK, Ev!Files
  <1>4. Vacated' /\ Fits'
    BY <1>1 DEF Vacated, Fits
  <1>5. QED
    BY <1>1, <1>3, <1>4, FilesStay DEF RotInv

LEMMA NoRecords == Ev!Whole(<<>>) = <<>>
  BY PickedOfNone DEF Ev!Whole

\* A rename to a name that is free.
LEMMA RenamedFiles ==
  ASSUME HistTyped, NEW from \in 0 .. MaxFiles - 1, MaxFiles \in Nat, from + 1 \notin DOMAIN history_disk,
         history_disk' = Ev!Renamed(from, from + 1)
  PROVE  /\ DOMAIN history_disk' \subseteq 0 .. MaxFiles
         /\ from \notin DOMAIN history_disk'
         /\ \A f \in DOMAIN history_disk' : \E g \in DOMAIN history_disk : history_disk'[f] = history_disk[g]
         /\ \A f \in DOMAIN history_disk : \E g \in DOMAIN history_disk' : history_disk'[g] = history_disk[f]
         /\ Ev!File(from + 1)' = Ev!File(from) /\ Ev!File(from)' = <<>> /\ Ev!File(from + 1) = <<>>
         /\ \A f \in 0 .. MaxFiles : f \notin {from, from + 1} => Ev!File(f)' = Ev!File(f)
  <1>. DEFINE to == from + 1
  <1>1. from \in 0 .. MaxFiles /\ to \in 0 .. MaxFiles /\ to # from /\ to \notin DOMAIN history_disk
    OBVIOUS
  <1>2. DOMAIN history_disk \subseteq 0 .. MaxFiles
    BY FileIs
  <1>3. history_disk' = Ev!Renamed(from, to)
    OBVIOUS
  <1>. HIDE DEF to
  <1>4. CASE from \in DOMAIN history_disk
    <2>1. history_disk' = [f \in (DOMAIN history_disk \ {from}) \cup {to} |->
                             IF f = to THEN history_disk[from] ELSE history_disk[f]]
      BY <1>3, <1>4 DEF Ev!Renamed
    <2>2. DOMAIN history_disk' = (DOMAIN history_disk \ {from}) \cup {to}
      BY <2>1
    <2>3. \A f \in DOMAIN history_disk' : history_disk'[f] = IF f = to THEN history_disk[from] ELSE history_disk[f]
      BY <2>1
    <2>4. /\ \A f \in DOMAIN history_disk' : \E g \in DOMAIN history_disk : history_disk'[f] = history_disk[g]
          /\ \A f \in DOMAIN history_disk : \E g \in DOMAIN history_disk' : history_disk'[g] = history_disk[f]
      BY <1>1, <1>4, <2>2, <2>3
    <2>5. \A f : Ev!File(f)' = IF f \in DOMAIN history_disk' THEN history_disk'[f] ELSE <<>>
      BY DEF Ev!File
    <2>6. \A f : Ev!File(f) = IF f \in DOMAIN history_disk THEN history_disk[f] ELSE <<>>
      BY DEF Ev!File
    <2>7. Ev!File(to)' = Ev!File(from) /\ Ev!File(from)' = <<>> /\ Ev!File(to) = <<>>
      BY <1>1, <1>4, <2>2, <2>3, <2>5, <2>6
    <2>8. \A f : f \notin {from, to} => Ev!File(f)' = Ev!File(f)
      BY <2>2, <2>3, <2>5, <2>6
    <2>9. QED
      BY <1>1, <1>2, <2>2, <2>4, <2>7, <2>8 DEF to
  <1>5. CASE from \notin DOMAIN history_disk
    <2>1. history_disk' = history_disk
      BY <1>3, <1>5 DEF Ev!Renamed
    <2>2. \A f : Ev!File(f)' = Ev!File(f)
      BY <2>1 DEF Ev!File
    <2>3. Ev!File(to) = <<>> /\ Ev!File(from) = <<>>
      BY <1>1, <1>5 DEF Ev!File
    <2>4. QED
      BY <1>2, <1>5, <2>1, <2>2, <2>3 DEF to
  <1>6. QED
    BY <1>4, <1>5

LEMMA RenameKeeps ==
  ASSUME Ev!ConstantsOK, RotInv, NEW from \in 0 .. MaxFiles - 1, from + 1 \notin DOMAIN history_disk,
         history_disk' = Ev!Renamed(from, from + 1), history_kept' = history_kept,
         history_handle = "nil", history_handle' = "nil"
  PROVE  /\ DOMAIN history_disk' \subseteq 0 .. MaxFiles
         /\ from \notin DOMAIN history_disk'
         /\ \A f \in DOMAIN history_disk' : history_disk'[f] \in Seq(Stored)
         /\ Ev!FilesAreBounded' /\ Continues' /\ Spared
  <1>1. MaxFiles \in Nat
    BY DEF Ev!ConstantsOK
  <1>2. HistTyped
    BY DEF RotInv
  <1>3. /\ DOMAIN history_disk' \subseteq 0 .. MaxFiles
        /\ from \notin DOMAIN history_disk'
        /\ \A f \in DOMAIN history_disk' : \E g \in DOMAIN history_disk : history_disk'[f] = history_disk[g]
        /\ \A f \in DOMAIN history_disk : \E g \in DOMAIN history_disk' : history_disk'[g] = history_disk[f]
        /\ Ev!File(from + 1)' = Ev!File(from) /\ Ev!File(from)' = <<>> /\ Ev!File(from + 1) = <<>>
        /\ \A f \in 0 .. MaxFiles : f \notin {from, from + 1} => Ev!File(f)' = Ev!File(f)
    BY <1>1, <1>2, RenamedFiles
  <1>4. \A f \in DOMAIN history_disk : history_disk[f] \in Seq(Stored)
    BY <1>2, FileIs
  <1>5. \A f \in DOMAIN history_disk' : history_disk'[f] \in Seq(Stored)
    BY <1>3, <1>4
  <1>6. Ev!FilesAreBounded'
    <2>1. \A f \in DOMAIN history_disk : Ev!Bytes(history_disk[f]) <= MaxBytes \/ Len(history_disk[f]) = 1
      BY DEF RotInv, Ev!FilesAreBounded
    <2>2. ASSUME NEW f \in DOMAIN history_disk'
          PROVE  Ev!Bytes(history_disk'[f]) <= MaxBytes \/ Len(history_disk'[f]) = 1
      <3>1. PICK g \in DOMAIN history_disk : history_disk'[f] = history_disk[g]
        BY <1>3
      <3>2. QED
        BY <2>1, <3>1
    <2>3. QED
      BY <2>2 DEF Ev!FilesAreBounded, Ev!Bytes
  <1>7. Continues'
    <2>1. PICK cut : Cuts(cut, Pieces, MaxFiles, history_kept)
      BY DEF RotInv, Continues
    <2>2. from \in 0 .. MaxFiles /\ from + 1 \in 0 .. MaxFiles
      BY <1>1
    <2>3. \A f : Ev!Whole(Ev!File(f))' = Ev!Whole(Ev!File(f)')
      BY DEF Ev!Whole, Ev!Picked, Ev!Record
    <2>4. Pieces' = [f \in 0 .. MaxFiles |-> Ev!Whole(Ev!File(f)')]
      BY <2>3 DEF Pieces
    <2>5. /\ Pieces[from + 1] = <<>> /\ Pieces'[from + 1] = Pieces[from] /\ Pieces'[from] = <<>>
          /\ \A f \in 0 .. MaxFiles : f \notin {from, from + 1} => Pieces'[f] = Pieces[f]
      BY <1>3, <2>2, <2>4, NoRecords DEF Pieces
    <2>6. history_kept \in Seq(Ev!Record)
      BY <1>2 DEF HistTyped
    <2>7. \E c : Cuts(c, Pieces', MaxFiles, history_kept)
      BY <1>1, <2>1, <2>5, <2>6, PieceMoves
    <2>8. QED
      BY <2>7 DEF Continues
  <1>8. Spared
    <2>1. ASSUME NEW f \in DOMAIN history_disk
          PROVE  \E g \in DOMAIN history_disk' : Ev!IsPrefix(history_disk[f], history_disk'[g])
      <3>1. PICK g \in DOMAIN history_disk' : history_disk'[g] = history_disk[f]
        BY <1>3
      <3>2. Ev!IsPrefix(history_disk[f], history_disk'[g])
        BY <1>4, <3>1, OwnPrefix
      <3>3. QED
        BY <3>2
    <2>2. QED
      BY <2>1 DEF Spared
  <1>9. QED
    BY <1>3, <1>5, <1>6, <1>7, <1>8

LEMMA ShiftStep ==
  ASSUME Ev!ConstantsOK, RotInv, Ev!Shift PROVE RotInv' /\ Spared
  <1>1. history_disk' = Ev!Renamed(history_at, history_at + 1) /\ history_pc = "shift"
        /\ history_at' = history_at - 1
        /\ history_pc' = (IF history_at = 1 THEN "retire" ELSE "shift")
        /\ history_kept' = history_kept /\ history_size' = history_size
        /\ history_pending' = history_pending /\ history_tried' = history_tried
        /\ history_handle' = history_handle /\ history_faults' = history_faults
    BY DEF Ev!Shift
  <1>2. history_at \in 1 .. MaxFiles - 1 /\ history_at + 1 \notin DOMAIN history_disk /\ history_handle = "nil"
    BY <1>1 DEF RotInv, Vacated
  <1>3. MaxFiles \in Nat
    BY DEF Ev!ConstantsOK
  <1>4. history_at \in 0 .. MaxFiles - 1 /\ history_at' \in 0 .. MaxFiles
    BY <1>1, <1>2, <1>3
  <1>5. /\ DOMAIN history_disk' \subseteq 0 .. MaxFiles
        /\ history_at \notin DOMAIN history_disk'
        /\ \A f \in DOMAIN history_disk' : history_disk'[f] \in Seq(Stored)
        /\ Ev!FilesAreBounded' /\ Continues' /\ Spared
    BY <1>1, <1>2, <1>4, RenameKeeps
  <1>6. history_pc' \in {"retire", "shift"}
    BY <1>1
  <1>7. HistTyped'
    BY <1>1, <1>2, <1>4, <1>5, <1>6 DEF RotInv, HistTyped, Ev!TypeOK, Ev!Files, Stored
  <1>8. Vacated'
    <2>1. CASE history_at = 1
      BY <1>1, <1>2, <1>3, <1>5, <2>1 DEF Vacated
    <2>2. CASE history_at # 1
      <3>1. history_at' \in 1 .. MaxFiles - 1 /\ history_at' + 1 = history_at
        BY <1>1, <1>2, <1>3, <2>2
      <3>2. QED
        BY <1>1, <1>2, <1>5, <2>2, <3>1 DEF Vacated
    <2>3. QED
      BY <2>1, <2>2
  <1>9. Fits'
    BY <1>1, <1>6 DEF RotInv, Fits
  <1>10. QED
    BY <1>5, <1>7, <1>8, <1>9 DEF RotInv

LEMMA RetireLiveStep ==
  ASSUME Ev!ConstantsOK, RotInv, Ev!RetireLive PROVE RotInv' /\ Spared
  <1>1. history_disk' = Ev!Renamed(0, 1) /\ history_pc = "retire" /\ history_pc' = "open"
        /\ history_at' = history_at
        /\ history_kept' = history_kept /\ history_size' = history_size
        /\ history_pending' = history_pending /\ history_tried' = history_tried
        /\ history_handle' = history_handle /\ history_faults' = history_faults
    BY DEF Ev!RetireLive, Ev!Goto
  <1>2. MaxFiles > 0 /\ 1 \notin DOMAIN history_disk /\ history_handle = "nil"
    BY <1>1 DEF RotInv, Vacated
  <1>3. MaxFiles \in Nat
    BY DEF Ev!ConstantsOK
  <1>4. 0 \in 0 .. MaxFiles - 1 /\ 0 + 1 = 1
    BY <1>2, <1>3
  <1>5. /\ DOMAIN history_disk' \subseteq 0 .. MaxFiles
        /\ 0 \notin DOMAIN history_disk'
        /\ \A f \in DOMAIN history_disk' : history_disk'[f] \in Seq(Stored)
        /\ Ev!FilesAreBounded' /\ Continues' /\ Spared
    BY <1>1, <1>2, <1>4, RenameKeeps
  <1>7. HistTyped'
    BY <1>1, <1>2, <1>5 DEF RotInv, HistTyped, Ev!TypeOK, Ev!Files, Stored
  <1>8. Vacated'
    BY <1>1, <1>2, <1>5 DEF Vacated
  <1>9. Fits'
    BY <1>1 DEF RotInv, Fits
  <1>10. QED
    BY <1>5, <1>7, <1>8, <1>9 DEF RotInv

LEMMA RemoveOldestStep ==
  ASSUME Ev!ConstantsOK, RotInv, Ev!RemoveOldest PROVE RotInv' /\ Spared
  <1>1. history_disk' = [f \in DOMAIN history_disk \ {MaxFiles} |-> history_disk[f]]
        /\ history_pc = "remove"
        /\ history_pc' = (IF MaxFiles = 0 THEN "open" ELSE IF MaxFiles = 1 THEN "retire" ELSE "shift")
        /\ history_at' = (IF MaxFiles = 0 THEN 0 ELSE MaxFiles - 1)
        /\ history_kept' = history_kept /\ history_size' = history_size
        /\ history_pending' = history_pending /\ history_tried' = history_tried
        /\ history_handle' = history_handle /\ history_faults' = history_faults
    BY DEF Ev!RemoveOldest, Ev!Without
  <1>2. history_handle = "nil"
    BY <1>1 DEF RotInv, Vacated
  <1>3. MaxFiles \in Nat
    BY DEF Ev!ConstantsOK
  <1>4. HistTyped
    BY DEF RotInv
  <1>5. DOMAIN history_disk' = DOMAIN history_disk \ {MaxFiles}
        /\ \A f \in DOMAIN history_disk' : history_disk'[f] = history_disk[f]
    BY <1>1
  <1>6. DOMAIN history_disk \subseteq 0 .. MaxFiles
        /\ \A f \in DOMAIN history_disk : history_disk[f] \in Seq(Stored)
    BY <1>4, FileIs
  <1>7. history_pc' \in {"open", "retire", "shift"} /\ history_at' \in 0 .. MaxFiles
    BY <1>1, <1>3
  <1>8. HistTyped'
    BY <1>1, <1>2, <1>5, <1>6, <1>7 DEF RotInv, HistTyped, Ev!TypeOK, Ev!Files, Stored
  <1>9. Vacated'
    <2>1. CASE MaxFiles = 0
      BY <1>1, <1>2, <1>5, <2>1 DEF Vacated
    <2>2. CASE MaxFiles = 1
      BY <1>1, <1>2, <1>5, <2>2 DEF Vacated
    <2>3. CASE MaxFiles \notin {0, 1}
      <3>1. history_at' \in 1 .. MaxFiles - 1 /\ history_at' + 1 = MaxFiles
        BY <1>1, <1>3, <2>3
      <3>2. QED
        BY <1>1, <1>2, <1>5, <2>3, <3>1 DEF Vacated
    <2>4. QED
      BY <2>1, <2>2, <2>3
  <1>10. Fits'
    BY <1>1, <1>7 DEF RotInv, Fits
  <1>11. Ev!FilesAreBounded'
    <2>1. \A f \in DOMAIN history_disk : Ev!Bytes(history_disk[f]) <= MaxBytes \/ Len(history_disk[f]) = 1
      BY DEF RotInv, Ev!FilesAreBounded
    <2>2. \A f \in DOMAIN history_disk' : Ev!Bytes(history_disk'[f]) <= MaxBytes \/ Len(history_disk'[f]) = 1
      BY <1>5, <2>1
    <2>3. QED
      BY <2>2 DEF Ev!FilesAreBounded, Ev!Bytes
  <1>12. Continues'
    <2>1. PICK cut : Cuts(cut, Pieces, MaxFiles, history_kept)
      BY DEF RotInv, Continues
    <2>2. \A f : Ev!Whole(Ev!File(f))' = Ev!Whole(Ev!File(f)')
      BY DEF Ev!Whole, Ev!Picked, Ev!Record
    <2>3. Pieces' = [f \in 0 .. MaxFiles |-> Ev!Whole(Ev!File(f)')]
      BY <2>2 DEF Pieces
    <2>4. Ev!File(MaxFiles)' = <<>> /\ \A f : f # MaxFiles => Ev!File(f)' = Ev!File(f)
      BY <1>5 DEF Ev!File
    <2>5. MaxFiles \in 0 .. MaxFiles
      BY <1>3
    <2>6. Pieces'[MaxFiles] = <<>> /\ \A f \in 0 .. MaxFiles : f # MaxFiles => Pieces'[f] = Pieces[f]
      BY <2>3, <2>4, <2>5, NoRecords DEF Pieces
    <2>7. history_kept \in Seq(Ev!Record)
      BY <1>4 DEF HistTyped
    <2>8. \E c : Cuts(c, Pieces', MaxFiles, history_kept)
      BY <1>3, <2>1, <2>6, <2>7, PieceGoes
    <2>9. QED
      BY <1>1, <2>8 DEF Continues
  <1>13. Spared
    <2>1. ASSUME NEW f \in DOMAIN history_disk \ {MaxFiles}
          PROVE  f \in DOMAIN history_disk' /\ Ev!IsPrefix(history_disk[f], history_disk'[f])
      BY <1>5, <1>6, OwnPrefix
    <2>2. QED
      BY <2>1 DEF Spared
  <1>14. QED
    BY <1>8, <1>9, <1>10, <1>11, <1>12, <1>13 DEF RotInv

\* The writer opens the live file, which it may have to create.
LEMMA OpenedFiles ==
  ASSUME HistTyped, MaxFiles \in Nat, Ev!OpenLive
  PROVE  /\ DOMAIN history_disk' = DOMAIN history_disk \cup {0}
         /\ history_disk'[0] = Ev!File(0)
         /\ \A f \in DOMAIN history_disk : history_disk'[f] = history_disk[f]
         /\ \A f : Ev!File(f)' = Ev!File(f)
         /\ history_handle' = "open" /\ history_size' = Ev!Bytes(Ev!File(0))
  <1>1. history_disk' = [f \in DOMAIN history_disk \cup {0} |-> Ev!File(f)]
        /\ history_handle' = "open" /\ history_size' = Ev!Bytes(Ev!File(0))
    BY DEF Ev!OpenLive
  <1>3. DOMAIN history_disk' = DOMAIN history_disk \cup {0}
        /\ \A f \in DOMAIN history_disk' : history_disk'[f] = Ev!File(f)
    BY <1>1
  <1>4. \A f : Ev!File(f)' = IF f \in DOMAIN history_disk' THEN history_disk'[f] ELSE <<>>
    BY DEF Ev!File
  <1>5. \A f : Ev!File(f) = IF f \in DOMAIN history_disk THEN history_disk[f] ELSE <<>>
    BY DEF Ev!File
  <1>6. history_disk'[0] = Ev!File(0)
    BY <1>3
  <1>7. \A f \in DOMAIN history_disk : history_disk'[f] = history_disk[f]
    BY <1>3, <1>5
  <1>8. \A f : Ev!File(f)' = Ev!File(f)
    BY <1>3, <1>4, <1>5, <1>6, <1>7
  <1>9. QED
    BY <1>1, <1>3, <1>6, <1>7, <1>8

LEMMA OpenStep ==
  ASSUME Ev!ConstantsOK, RotInv, Ev!Reopen \/ Ev!Open PROVE RotInv' /\ Spared
  <1>1. /\ Ev!OpenLive
        /\ history_kept' = history_kept /\ history_at' = history_at
        /\ history_pending' = history_pending /\ history_tried' = history_tried
        /\ history_faults' = history_faults
        /\ \/ history_pc = "open" /\ history_pc' = "append"
           \/ history_pc = "down" /\ history_pc' = "idle"
    BY DEF Ev!Reopen, Ev!Open, Ev!Goto
  <1>2. MaxFiles \in Nat /\ MaxBytes \in Nat
    BY DEF Ev!ConstantsOK
  <1>3. HistTyped
    BY DEF RotInv
  <1>4. /\ DOMAIN history_disk' = DOMAIN history_disk \cup {0}
        /\ history_disk'[0] = Ev!File(0)
        /\ \A f \in DOMAIN history_disk : history_disk'[f] = history_disk[f]
        /\ \A f : Ev!File(f)' = Ev!File(f)
        /\ history_handle' = "open" /\ history_size' = Ev!Bytes(Ev!File(0))
    BY <1>1, <1>2, <1>3, OpenedFiles
  <1>5. /\ DOMAIN history_disk \subseteq 0 .. MaxFiles
        /\ \A f \in DOMAIN history_disk : history_disk[f] \in Seq(Stored)
        /\ 0 \in 0 .. MaxFiles /\ Ev!File(0) \in Seq(Stored)
    <2>1. 0 \in 0 .. MaxFiles
      BY <1>2
    <2>2. QED
      BY <1>3, <2>1, FileIs
  <1>6. DOMAIN history_disk' \subseteq 0 .. MaxFiles
        /\ \A f \in DOMAIN history_disk' : history_disk'[f] \in Seq(Stored)
    BY <1>4, <1>5
  <1>7. \A s : Ev!Bytes(s)' = Ev!Bytes(s')
    BY DEF Ev!Bytes
  <1>8. HistTyped'
    <2>1. (history_handle = "open" => 0 \in DOMAIN history_disk /\ history_size = Ev!Bytes(history_disk[0]))'
      BY <1>4 DEF Ev!Bytes
    <2>2. QED
      BY <1>1, <1>3, <1>4, <1>6, <2>1 DEF HistTyped, Ev!TypeOK, Ev!Files, Stored
  <1>9. Vacated'
    BY <1>1 DEF Vacated
  <1>10. Fits'
    <2>1. CASE history_pc = "open"
      <3>1. 0 \notin DOMAIN history_disk /\ history_pending \in Ev!Record
        BY <2>1 DEF RotInv, Vacated, Fits
      <3>2. Ev!File(0) = <<>> /\ <<>> \in Seq(Stored)
        BY <3>1 DEF Ev!File
      <3>3. history_size' = 0
        BY <1>4, <3>2, BytesAreMany
      <3>4. QED
        BY <1>1, <3>1, <3>3 DEF Fits
    <2>2. CASE history_pc # "open"
      BY <1>1, <2>2 DEF Fits
    <2>3. QED
      BY <2>1, <2>2
  <1>11. Ev!FilesAreBounded'
    <2>1. \A f \in DOMAIN history_disk : Ev!Bytes(history_disk[f]) <= MaxBytes \/ Len(history_disk[f]) = 1
      BY DEF RotInv, Ev!FilesAreBounded
    <2>2. 0 \in DOMAIN history_disk \/ Ev!Bytes(history_disk'[0]) <= MaxBytes
      <3>1. CASE 0 \notin DOMAIN history_disk
        <4>1. Ev!File(0) = <<>> /\ <<>> \in Seq(Stored)
          BY <3>1 DEF Ev!File
        <4>2. Ev!Bytes(Ev!File(0)) = 0
          BY <4>1, BytesAreMany
        <4>3. QED
          BY <1>2, <1>4, <4>2
      <3>2. QED
        BY <3>1
    <2>3. \A f \in DOMAIN history_disk' : Ev!Bytes(history_disk'[f]) <= MaxBytes \/ Len(history_disk'[f]) = 1
      BY <1>4, <2>1, <2>2
    <2>4. QED
      BY <2>3 DEF Ev!FilesAreBounded, Ev!Bytes
  <1>12. Continues'
    <2>1. \A f : Ev!Whole(Ev!File(f))' = Ev!Whole(Ev!File(f)')
      BY DEF Ev!Whole, Ev!Picked, Ev!Record
    <2>2. Pieces' = Pieces
      BY <1>4, <2>1 DEF Pieces
    <2>3. QED
      BY <1>1, <2>2 DEF RotInv, Continues
  <1>13. Spared
    <2>1. ASSUME NEW f \in DOMAIN history_disk \ {MaxFiles}
          PROVE  f \in DOMAIN history_disk' /\ Ev!IsPrefix(history_disk[f], history_disk'[f])
      BY <1>4, <1>5, OwnPrefix
    <2>2. QED
      BY <2>1 DEF Spared
  <1>14. QED
    BY <1>8, <1>9, <1>10, <1>11, <1>12, <1>13 DEF RotInv

LEMMA WriteLockedStep ==
  ASSUME Ev!ConstantsOK, RotInv, Ev!WriteLocked PROVE RotInv' /\ Spared
  <1>1. /\ history_pc = "append" /\ history_pc' = "idle"
        /\ history_handle' = history_handle /\ history_at' = history_at
        /\ history_pending' = history_pending /\ history_tried' = history_tried
    BY DEF Ev!WriteLocked, Ev!Goto
  <1>2. MaxFiles \in Nat /\ MaxBytes \in Nat
    BY DEF Ev!ConstantsOK
  <1>3. HistTyped
    BY DEF RotInv
  <1>4. /\ DOMAIN history_disk \subseteq 0 .. MaxFiles
        /\ \A f \in DOMAIN history_disk : history_disk[f] \in Seq(Stored)
    BY <1>3, FileIs
  <1>5. Vacated' /\ Fits'
    BY <1>1 DEF Vacated, Fits
  <1>6. CASE history_handle # "open"
    <2>1. history_disk' = history_disk /\ history_kept' = history_kept
          /\ history_size' = history_size /\ history_faults' = history_faults
      BY <1>6 DEF Ev!WriteLocked
    <2>2. HistTyped'
      BY <1>1, <1>3, <1>6, <2>1 DEF HistTyped, Ev!TypeOK, Ev!Files
    <2>3. QED
      BY <1>5, <2>1, <2>2, FilesStay DEF RotInv
  <1>7. CASE history_handle = "open"
    <2>1. PICK r \in Stored :
            /\ history_disk' = [history_disk EXCEPT ![0] = Append(@, r)]
            /\ history_size' = history_size + r.len /\ r.len <= history_pending.len
            /\ history_faults' \in 0 .. LogFaults
            /\ \/ r \in Ev!Record /\ history_kept' = Append(history_kept, r)
               \/ r \notin Ev!Record /\ history_kept' = history_kept
      <3>1. history_pending \in Ev!Record /\ history_pending.len \in Nat
        <4>1. history_pending \in Ev!Record
          BY <1>1 DEF RotInv, Fits
        <4>2. QED
          BY <4>1, StoredIs DEF Stored
      <3>2. CASE /\ history_disk' = [history_disk EXCEPT ![0] = Append(@, history_pending)]
                 /\ history_size' = history_size + history_pending.len
                 /\ history_kept' = Append(history_kept, history_pending)
                 /\ history_faults' = history_faults
        <4>1. history_faults' \in 0 .. LogFaults
          BY <1>3, <3>2 DEF HistTyped, Ev!TypeOK
        <4>2. history_pending \in Stored /\ history_pending.len <= history_pending.len
          BY <3>1 DEF Stored
        <4>3. QED
          BY <3>1, <3>2, <4>1, <4>2
      <3>3. CASE /\ history_disk' = [history_disk EXCEPT ![0] = Append(@, Ev!Torn)]
                 /\ history_size' = history_size + 1 /\ history_pending.len > 1
                 /\ history_faults < LogFaults /\ history_faults' = history_faults + 1
                 /\ history_kept' = history_kept
        <4>1. history_faults' \in 0 .. LogFaults
          BY <1>3, <3>3 DEF HistTyped, Ev!TypeOK, Ev!ConstantsOK
        <4>2. Ev!Torn.len = 1 /\ Ev!Torn \in Stored
          BY DEF Ev!Torn, Stored
        <4>3. 1 <= history_pending.len
          BY <3>1, <3>3
        <4>4. QED
          BY <3>3, <4>1, <4>2, <4>3, TornIsNone
      <3>4. QED
        BY <1>7, <3>2, <3>3 DEF Ev!WriteLocked, Ev!CanFail
    <2>2. 0 \in DOMAIN history_disk /\ history_size = Ev!Bytes(history_disk[0])
          /\ history_disk[0] \in Seq(Stored)
      BY <1>3, <1>4, <1>7 DEF HistTyped, Ev!TypeOK
    <2>3. DOMAIN history_disk' = DOMAIN history_disk
          /\ history_disk'[0] = Append(history_disk[0], r)
          /\ \A f \in DOMAIN history_disk : f # 0 => history_disk'[f] = history_disk[f]
      BY <2>1, <2>2
    <2>4. history_disk'[0] \in Seq(Stored)
      BY <2>2, <2>3
    <2>5. Ev!Bytes(history_disk'[0]) = history_size + r.len
      BY <2>2, <2>3, BytesAppend
    <2>6. HistTyped'
      <3>1. history_kept' \in Seq(Ev!Record)
        BY <1>3, <2>1 DEF HistTyped
      <3>2. (history_handle = "open" => 0 \in DOMAIN history_disk /\ history_size = Ev!Bytes(history_disk[0]))'
        BY <2>1, <2>2, <2>3, <2>5 DEF Ev!Bytes
      <3>3. \A f \in DOMAIN history_disk' : history_disk'[f] \in Seq(Stored)
        BY <1>4, <2>3, <2>4
      <3>4. QED
        BY <1>1, <1>3, <1>4, <2>1, <2>3, <3>1, <3>2, <3>3 DEF HistTyped, Ev!TypeOK, Ev!Files, Stored
    <2>7. Ev!FilesAreBounded'
      <3>1. \A f \in DOMAIN history_disk : Ev!Bytes(history_disk[f]) <= MaxBytes \/ Len(history_disk[f]) = 1
        BY DEF RotInv, Ev!FilesAreBounded
      <3>2. Ev!Bytes(history_disk'[0]) <= MaxBytes \/ Len(history_disk'[0]) = 1
        <4>1. history_size = 0 \/ history_size + history_pending.len <= MaxBytes
          BY <1>1, <1>7 DEF RotInv, Fits
        <4>2. CASE history_size = 0
          <5>1. history_disk[0] = <<>>
            BY <2>2, <4>2, BytesAreMany
          <5>2. QED
            BY <2>3, <5>1
        <4>3. CASE history_size + history_pending.len <= MaxBytes
          <5>1. history_size \in Nat /\ r.len \in Nat /\ history_pending.len \in Nat
            <6>1. history_pending \in Stored
              BY <1>1 DEF RotInv, Fits, Stored
            <6>2. QED
              BY <2>2, <6>1, BytesAreMany, StoredIs
          <5>2. QED
            BY <1>2, <2>1, <2>5, <4>3, <5>1
        <4>4. QED
          BY <4>1, <4>2, <4>3
      <3>3. \A f \in DOMAIN history_disk' : Ev!Bytes(history_disk'[f]) <= MaxBytes \/ Len(history_disk'[f]) = 1
        BY <2>3, <3>1, <3>2
      <3>4. QED
        BY <3>3 DEF Ev!FilesAreBounded, Ev!Bytes
    <2>8. Continues'
      <3>1. PICK cut : Cuts(cut, Pieces, MaxFiles, history_kept)
        BY DEF RotInv, Continues
      <3>2. \A f : Ev!Whole(Ev!File(f))' = Ev!Whole(Ev!File(f)')
        BY DEF Ev!Whole, Ev!Picked, Ev!Record
      <3>3. Pieces' = [f \in 0 .. MaxFiles |-> Ev!Whole(Ev!File(f)')]
        BY <3>2 DEF Pieces
      <3>4. Ev!File(0)' = Append(Ev!File(0), r) /\ Ev!File(0) = history_disk[0]
            /\ \A f : f # 0 => Ev!File(f)' = Ev!File(f)
        BY <2>2, <2>3 DEF Ev!File
      <3>5. 0 \in 0 .. MaxFiles /\ \A f \in 1 .. MaxFiles : f # 0 /\ f \in 0 .. MaxFiles
        BY <1>2
      <3>6. Ev!Whole(Append(history_disk[0], r))
              = IF r \in Ev!Record THEN Append(Ev!Whole(history_disk[0]), r) ELSE Ev!Whole(history_disk[0])
        BY <2>2, PickedAppend DEF Ev!Whole
      <3>7. Pieces'[0] = IF r \in Ev!Record THEN Append(Pieces[0], r) ELSE Pieces[0]
        BY <3>3, <3>4, <3>5, <3>6 DEF Pieces
      <3>8. \A f \in 1 .. MaxFiles : Pieces'[f] = Pieces[f]
        BY <3>3, <3>4, <3>5 DEF Pieces
      <3>9. history_kept \in Seq(Ev!Record)
        BY <1>3 DEF HistTyped
      <3>10. CASE r \in Ev!Record /\ history_kept' = Append(history_kept, r)
        <4>1. Pieces'[0] = Append(Pieces[0], r)
          BY <3>7, <3>10
        <4>2. \E c : Cuts(c, Pieces', MaxFiles, Append(history_kept, r))
          BY <1>2, <3>1, <3>8, <3>9, <3>10, <4>1, PieceGrows
        <4>3. QED
          BY <3>10, <4>2 DEF Continues
      <3>11. CASE r \notin Ev!Record /\ history_kept' = history_kept
        <4>1. \A f \in 0 .. MaxFiles : Pieces'[f] = Pieces[f]
          <5>1. Pieces'[0] = Pieces[0]
            BY <3>7, <3>11
          <5>2. \A f \in 0 .. MaxFiles : f = 0 \/ f \in 1 .. MaxFiles
            BY <1>2
          <5>3. QED
            BY <3>8, <5>1, <5>2
        <4>2. Cuts(cut, Pieces', MaxFiles, history_kept)
          BY <3>1, <4>1 DEF Cuts
        <4>3. QED
          BY <3>11, <4>2 DEF Continues
      <3>12. QED
        BY <2>1, <3>10, <3>11
    <2>9. Spared
      <3>1. ASSUME NEW f \in DOMAIN history_disk \ {MaxFiles}
            PROVE  f \in DOMAIN history_disk' /\ Ev!IsPrefix(history_disk[f], history_disk'[f])
        <4>1. CASE f = 0
          BY <2>1, <2>2, <2>3, <4>1, AppendedPrefix
        <4>2. CASE f # 0
          BY <1>4, <2>3, <4>2, OwnPrefix
        <4>3. QED
          BY <4>1, <4>2
      <3>2. QED
        BY <3>1 DEF Spared
    <2>10. QED
      BY <1>5, <2>6, <2>7, <2>8, <2>9 DEF RotInv
  <1>8. QED
    BY <1>6, <1>7

LEMMA RotKeeps ==
  ASSUME Ev!ConstantsOK, RotInv, Ev!Next PROVE RotInv' /\ Spared
  BY WriteStep, CloseLiveStep, GiveUpStep, RemoveOldestStep, ShiftStep, RetireLiveStep,
     OpenStep, WriteLockedStep, EndStep DEF Ev!Next

LEMMA RotBegins == ASSUME Ev!ConstantsOK, Ev!Init PROVE RotInv
  <1>1. /\ history_disk = [f \in {0} |-> <<>>] /\ history_handle = "open" /\ history_size = 0
        /\ history_pc = "idle" /\ history_at = 0 /\ history_pending = Ev!Torn
        /\ history_kept = <<>> /\ history_tried = 0 /\ history_faults = 0
    BY DEF Ev!Init
  <1>2. MaxFiles \in Nat /\ MaxBytes \in Nat /\ MaxRecords \in Nat /\ LogFaults \in Nat
    BY DEF Ev!ConstantsOK
  <1>3. DOMAIN history_disk = {0} /\ history_disk[0] = <<>> /\ <<>> \in Seq(Stored)
    BY <1>1
  <1>4. Ev!Bytes(<<>>) = 0
    BY <1>3, BytesAreMany
  <1>5. \A f : Ev!File(f) = <<>>
    BY <1>3 DEF Ev!File
  <1>6. HistTyped
    <2>1. 0 \in 0 .. MaxFiles /\ 0 \in 0 .. MaxRecords /\ 0 \in 0 .. LogFaults
      BY <1>2
    <2>2. <<>> \in Seq(Ev!Record)
      OBVIOUS
    <2>3. QED
      BY <1>1, <1>3, <1>4, <2>1, <2>2 DEF HistTyped, Ev!TypeOK, Ev!Files, Stored
  <1>7. Vacated /\ Fits
    BY <1>1 DEF Vacated, Fits
  <1>8. Ev!FilesAreBounded
    BY <1>2, <1>3, <1>4 DEF Ev!FilesAreBounded
  <1>9. Continues
    <2>. DEFINE cut == [f \in 0 .. MaxFiles + 1 |-> 0]
    <2>1. Len(history_kept) = 0 /\ history_kept \in Seq(Ev!Record)
      BY <1>1
    <2>2. SubSeq(history_kept, 0 + 1, 0) = <<>>
      BY <2>1, PieceIs
    <2>3. \A f \in 0 .. MaxFiles : Pieces[f] = <<>>
      BY <1>5, NoRecords DEF Pieces
    <2>4. \A f \in 0 .. MaxFiles : f \in 0 .. MaxFiles + 1 /\ f + 1 \in 0 .. MaxFiles + 1
      BY <1>2
    <2>5. cut \in [0 .. MaxFiles + 1 -> 0 .. Len(history_kept)] /\ cut[0] = Len(history_kept)
      BY <1>2, <2>1
    <2>6. Cuts(cut, Pieces, MaxFiles, history_kept)
      <3>1. \A f \in 0 .. MaxFiles : cut[f + 1] = 0 /\ cut[f] = 0
        BY <2>4
      <3>. HIDE DEF cut
      <3>2. ASSUME NEW f \in 0 .. MaxFiles
            PROVE  cut[f + 1] <= cut[f] /\ Pieces[f] = SubSeq(history_kept, cut[f + 1] + 1, cut[f])
        <4>1. cut[f + 1] = 0 /\ cut[f] = 0 /\ Pieces[f] = <<>>
          BY <2>3, <3>1
        <4>2. QED
          BY <2>2, <4>1
      <3>3. QED
        BY <2>5, <3>2 DEF Cuts
    <2>7. QED
      BY <2>6 DEF Continues
  <1>10. QED
    BY <1>6, <1>7, <1>8, <1>9 DEF RotInv

\* The files, the oldest first, hold the end of what was written.
LEMMA HistoryIsTheEnd == ASSUME Ev!ConstantsOK, RotInv PROVE Ev!HistoryIsASuffix
  <1>. DEFINE seqs == [i \in 1 .. MaxFiles + 1 |-> Pieces[MaxFiles + 1 - i]]
  <1>1. PICK cut : Cuts(cut, Pieces, MaxFiles, history_kept)
    BY DEF RotInv, Continues
  <1>2. MaxFiles \in Nat /\ history_kept \in Seq(Ev!Record)
    BY DEF Ev!ConstantsOK, RotInv, HistTyped
  <1>3. Ev!IsSuffix(Ev!FlattenSeq(seqs), history_kept)
    <2>. HIDE DEF seqs
    <2>1. seqs = [i \in 1 .. MaxFiles + 1 |-> Pieces[MaxFiles + 1 - i]]
      BY DEF seqs
    <2>2. QED
      BY <1>1, <1>2, <2>1, PiecesAreTheEnd
  <1>4. seqs = [i \in 1 .. MaxFiles + 1 |-> Ev!Whole(Ev!File(MaxFiles + 1 - i))]
    <2>1. \A i \in 1 .. MaxFiles + 1 : MaxFiles + 1 - i \in 0 .. MaxFiles
      BY <1>2
    <2>2. QED
      BY <2>1 DEF Pieces
  <1>5. Ev!History = Ev!FlattenSeq(seqs)
    BY <1>4 DEF Ev!History, Ev!OldestFirst
  <1>6. QED
    BY <1>3, <1>5 DEF Ev!HistoryIsASuffix

-----------------------------------------------------------------------------
(***************************************************************************)
(* The last elements of a sequence.                                        *)
(***************************************************************************)
Ends(l, s, k) == Len(l) = k /\ \A i \in 1 .. k : l[i] = s[(Len(s) - k) + i]

LEMMA LastIs ==
  ASSUME NEW A, NEW s \in Seq(A), NEW n \in Nat, NEW k \in Nat,
         Len(s) <= n => k = Len(s), Len(s) > n => k = n
  PROVE  Ev!LastOf(n, s) \in Seq(A) /\ Ends(Ev!LastOf(n, s), s, k)
  <1>1. CASE Len(s) <= n
    <2>1. Ev!LastOf(n, s) = s /\ k = Len(s) /\ Len(s) \in Nat
      BY <1>1 DEF Ev!LastOf
    <2>2. \A i \in 1 .. k : (Len(s) - k) + i = i
      BY <2>1
    <2>3. QED
      BY <1>1, <2>1, <2>2 DEF Ends
  <1>2. CASE ~(Len(s) <= n)
    <2>. DEFINE lo == Len(s) - n
    <2>1. k = n /\ Len(s) \in Nat /\ lo \in 0 .. Len(s) /\ Len(s) \in 0 .. Len(s) /\ lo <= Len(s)
          /\ Len(s) - lo = n /\ n <= Len(s)
      BY <1>2
    <2>2. Ev!LastOf(n, s) = SubSeq(s, lo + 1, Len(s))
      BY <1>2 DEF Ev!LastOf
    <2>. HIDE DEF lo
    <2>3. /\ SubSeq(s, lo + 1, Len(s)) \in Seq(A) /\ Len(SubSeq(s, lo + 1, Len(s))) = Len(s) - lo
          /\ \A i \in 1 .. Len(s) - lo : SubSeq(s, lo + 1, Len(s))[i] = s[lo + i]
      BY <2>1, PieceIs
    <2>4. lo = Len(s) - k
      BY <2>1 DEF lo
    <2>5. QED
      BY <2>1, <2>2, <2>3, <2>4 DEF Ends
  <1>3. QED
    BY <1>1, <1>2

\* What is in front of enough does not matter.
LEMMA LastOfTheRest ==
  ASSUME NEW A, NEW s \in Seq(A), NEW t \in Seq(A), NEW n \in Nat, n <= Len(t)
  PROVE  Ev!LastOf(n, s \o t) = Ev!LastOf(n, t)
  <1>. DEFINE a == Len(s)
              b == Len(t)
              u == s \o t
  <1>1. a \in Nat /\ b \in Nat /\ n <= b
    OBVIOUS
  <1>2. u \in Seq(A) /\ Len(u) = a + b
        /\ \A i \in 1 .. a + b : u[i] = IF i <= a THEN s[i] ELSE t[i - a]
    BY ConcatProperties
  <1>. HIDE DEF a, b, u
  <1>3. (Len(u) <= n => n = Len(u)) /\ (Len(t) <= n => n = Len(t))
    BY <1>1, <1>2 DEF b
  <1>4. Ev!LastOf(n, u) \in Seq(A) /\ Len(Ev!LastOf(n, u)) = n
        /\ \A i \in 1 .. n : Ev!LastOf(n, u)[i] = u[(Len(u) - n) + i]
    <2>1. Ev!LastOf(n, u) \in Seq(A) /\ Ends(Ev!LastOf(n, u), u, n)
      BY <1>2, <1>3, LastIs
    <2>2. QED
      BY <2>1 DEF Ends
  <1>5. Ev!LastOf(n, t) \in Seq(A) /\ Len(Ev!LastOf(n, t)) = n
        /\ \A i \in 1 .. n : Ev!LastOf(n, t)[i] = t[(Len(t) - n) + i]
    BY <1>3, LastIs DEF Ends
  <1>6. ASSUME NEW i \in 1 .. n PROVE Ev!LastOf(n, u)[i] = Ev!LastOf(n, t)[i]
    <2>1. ((a + b) - n) + i \in 1 .. a + b /\ ~(((a + b) - n) + i <= a)
          /\ (((a + b) - n) + i) - a = (b - n) + i
      BY <1>1
    <2>2. u[((a + b) - n) + i] = t[(b - n) + i]
      BY <1>2, <2>1
    <2>3. QED
      BY <1>2, <1>4, <1>5, <2>2 DEF b
  <1>7. Ev!LastOf(n, u) = Ev!LastOf(n, t)
    BY <1>4, <1>5, <1>6, SeqEqual
  <1>8. QED
    BY <1>7 DEF u

\* What is missing to a number is taken from what is in front.
LEMMA LastOfTwo ==
  ASSUME NEW A, NEW s \in Seq(A), NEW t \in Seq(A), NEW n \in Nat, Len(t) <= n
  PROVE  Ev!LastOf(n, s \o t) = Ev!LastOf(n - Len(t), s) \o t
  <1>. DEFINE a == Len(s)
              b == Len(t)
              u == s \o t
              m == n - b
              k == IF a <= m THEN a ELSE m
              l == Ev!LastOf(m, s)
  <1>1. a \in Nat /\ b \in Nat /\ b <= n /\ m \in Nat /\ k \in Nat /\ k <= a
    OBVIOUS
  <1>2. u \in Seq(A) /\ Len(u) = a + b
        /\ \A i \in 1 .. a + b : u[i] = IF i <= a THEN s[i] ELSE t[i - a]
    BY ConcatProperties
  <1>3. l \in Seq(A) /\ Len(l) = k /\ \A i \in 1 .. k : l[i] = s[(a - k) + i]
    <2>1. l \in Seq(A) /\ Ends(l, s, k)
      <3>1. (Len(s) <= m => k = Len(s)) /\ (Len(s) > m => k = m)
        BY <1>1
      <3>. HIDE DEF k, m
      <3>2. QED
        BY <1>1, <3>1, LastIs
    <2>. HIDE DEF l, k
    <2>2. QED
      BY <2>1 DEF Ends
  <1>4. (a + b <= n => k + b = a + b) /\ (a + b > n => k + b = n) /\ k + b \in Nat
    OBVIOUS
  <1>. HIDE DEF a, b, u, m, k, l
  <1>5. l \o t \in Seq(A) /\ Len(l \o t) = k + b
        /\ \A i \in 1 .. k + b : (l \o t)[i] = IF i <= k THEN l[i] ELSE t[i - k]
    BY <1>3, ConcatProperties DEF b
  <1>6. Ev!LastOf(n, u) \in Seq(A) /\ Len(Ev!LastOf(n, u)) = k + b
        /\ \A i \in 1 .. k + b : Ev!LastOf(n, u)[i] = u[((a + b) - (k + b)) + i]
    <2>1. (Len(u) <= n => k + b = Len(u)) /\ (Len(u) > n => k + b = n)
      BY <1>2, <1>4
    <2>2. Ev!LastOf(n, u) \in Seq(A) /\ Ends(Ev!LastOf(n, u), u, k + b)
      BY <1>2, <1>4, <2>1, LastIs
    <2>3. QED
      BY <1>2, <2>2 DEF Ends
  <1>7. ASSUME NEW i \in 1 .. k + b PROVE Ev!LastOf(n, u)[i] = (l \o t)[i]
    <2>1. ((a + b) - (k + b)) + i = (a - k) + i /\ (a - k) + i \in 1 .. a + b
      BY <1>1
    <2>2. CASE i <= k
      <3>1. (a - k) + i <= a /\ i \in 1 .. k
        BY <1>1, <2>2
      <3>2. QED
        <4>1. Ev!LastOf(n, u)[i] = u[(a - k) + i] /\ (l \o t)[i] = l[i]
          BY <1>5, <1>6, <2>1, <2>2
        <4>2. u[(a - k) + i] = s[(a - k) + i]
          BY <1>2, <2>1, <3>1
        <4>3. l[i] = s[(a - k) + i]
          BY <1>3, <3>1
        <4>4. QED
          BY <4>1, <4>2, <4>3
    <2>3. CASE ~(i <= k)
      <3>1. ~((a - k) + i <= a) /\ ((a - k) + i) - a = i - k
        BY <1>1, <2>3
      <3>2. QED
        BY <1>2, <1>5, <1>6, <2>1, <2>3, <3>1
    <2>4. QED
      BY <2>2, <2>3
  <1>8. Ev!LastOf(n, u) = l \o t
    BY <1>5, <1>6, <1>7, SeqEqual
  <1>9. QED
    BY <1>8 DEF u, l, m, b

\* One batch more, in front of what there is, is as good as all of them.
LEMMA LastOfThree ==
  ASSUME NEW A, NEW r \in Seq(A), NEW s \in Seq(A), NEW t \in Seq(A), NEW n \in Nat, Len(t) <= n
  PROVE  Ev!LastOf(n, (r \o s) \o t) = Ev!LastOf(n, r \o (Ev!LastOf(n - Len(t), s) \o t))
  <1>. DEFINE m == n - Len(t)
              l == Ev!LastOf(m, s)
              k == IF Len(s) <= m THEN Len(s) ELSE m
  <1>1. m \in Nat /\ Len(s) \in Nat /\ Len(t) \in Nat
    OBVIOUS
  <1>2. l \in Seq(A) /\ Len(l) = k
    <2>1. k \in Nat /\ (Len(s) <= m => k = Len(s)) /\ (Len(s) > m => k = m)
      BY <1>1
    <2>. HIDE DEF k, m
    <2>2. QED
      BY <1>1, <2>1, LastIs DEF Ends
  <1>3. l \o t \in Seq(A) /\ Len(l \o t) = k + Len(t)
    <2>. HIDE DEF l, k
    <2>1. QED
      BY <1>2, ConcatProperties
  <1>4. CASE Len(s) <= m
    <2>1. l = s
      BY <1>4 DEF Ev!LastOf
    <2>. HIDE DEF l, k, m
    <2>2. (r \o s) \o t = r \o (l \o t)
      BY <2>1, ConcatAssociative
    <2>3. QED
      BY <2>2 DEF l, m
  <1>5. CASE ~(Len(s) <= m)
    <2>1. k = m /\ k + Len(t) = n /\ m <= Len(s)
      BY <1>1, <1>5
    <2>. HIDE DEF l, k, m
    <2>2. r \o s \in Seq(A)
      BY ConcatProperties
    <2>3. Ev!LastOf(n, (r \o s) \o t) = Ev!LastOf(m, r \o s) \o t
      BY <2>2, LastOfTwo DEF m
    <2>4. Ev!LastOf(m, r \o s) = l
      <3>1. m \in Nat /\ m <= Len(s)
        BY <1>1, <2>1
      <3>2. Ev!LastOf(m, r \o s) = Ev!LastOf(m, s)
        BY <3>1, LastOfTheRest
      <3>3. QED
        BY <3>2 DEF l
    <2>5. Ev!LastOf(n, r \o (l \o t)) = Ev!LastOf(n, l \o t)
      <3>1. n <= Len(l \o t)
        BY <1>3, <2>1
      <3>2. QED
        BY <1>3, <3>1, LastOfTheRest
    <2>6. Ev!LastOf(n, l \o t) = l \o t
      BY <1>3, <2>1 DEF Ev!LastOf
    <2>7. QED
      BY <2>3, <2>4, <2>5, <2>6 DEF l, m
  <1>6. QED
    BY <1>4, <1>5

-----------------------------------------------------------------------------
(***************************************************************************)
(* The reader.  prior[j] is what the j oldest generations hold, and an    *)
(* undisturbed reader has the end of what comes after those it has not     *)
(* read.                                                                   *)
(***************************************************************************)
Texts == [f \in 0 .. MaxFiles |-> Ev!Readable(Ev!File(f))]

Before(prior, texts) ==
  /\ prior \in [0 .. MaxFiles -> Seq(Ev!Record)] /\ prior[0] = <<>>
  /\ \A j \in 1 .. MaxFiles : prior[j] = prior[j - 1] \o texts[MaxFiles + 1 - j]

\* The j oldest generations are those to be read, of which some may be missing.
ToRead(j, older, files) ==
  /\ \A i \in 1 .. Len(older) : older[i] >= MaxFiles + 1 - j /\ older[i] \in files
  /\ \A a, b \in 1 .. Len(older) : a < b => older[a] < older[b]
  /\ \A f \in files : f >= MaxFiles + 1 - j => \E i \in 1 .. Len(older) : older[i] = f

ReaderTyped ==
  /\ history_rpc \in {"idle", "list", "walk", "done", "failed"}
  /\ history_older \in Seq(1 .. MaxFiles)
  /\ history_events \in Seq(Ev!Record) /\ Len(history_events) <= Wanted

Listing ==
  \E prior : Before(prior, Texts)
              /\ history_answer = Ev!LastOf(Wanted, prior[MaxFiles] \o history_events)

Walking ==
  \E prior : Before(prior, Texts) /\ \E j \in 0 .. MaxFiles :
    /\ history_answer = Ev!LastOf(Wanted, prior[j] \o history_events)
    /\ ToRead(j, history_older, DOMAIN history_disk \ {0})

Undisturbed ==
  history_answer # <<Ev!Torn>> =>
    /\ history_rpc = "list" => Listing
    /\ history_rpc = "walk" => Walking
    /\ history_rpc = "done" => history_events = history_answer

ReadInv == ReaderTyped /\ Undisturbed

LEMMA ReadableIs ==
  ASSUME NEW text \in Seq(Stored) PROVE Ev!Readable(text) \in Seq(Ev!Record)
  <1>. DEFINE good(i) == text[i] # Ev!Torn /\ (i > 1 => text[i - 1] # Ev!Torn)
              s == [i \in DOMAIN text |-> IF good(i) THEN text[i] ELSE Ev!Torn]
  <1>1. s \in Seq(Stored)
    <2>1. DOMAIN text = 1 .. Len(text) /\ Len(text) \in Nat /\ \A i \in 1 .. Len(text) : text[i] \in Stored
      OBVIOUS
    <2>2. Ev!Torn \in Stored
      BY DEF Stored
    <2>3. \A i \in 1 .. Len(text) : (IF good(i) THEN text[i] ELSE Ev!Torn) \in Stored
      BY <2>1, <2>2
    <2>. HIDE DEF good
    <2>4. QED
      BY <2>1, <2>3
  <1>2. Ev!Readable(text) = Ev!Picked(s, Ev!Record)
    BY DEF Ev!Readable
  <1>. HIDE DEF s
  <1>3. Ev!Picked(s, Ev!Record) \in Seq(Stored \cap Ev!Record)
    BY <1>1, PickedIsPicked
  <1>4. QED
    BY <1>2, <1>3

LEMMA NothingToRead == Ev!Readable(<<>>) = <<>>
  <1>. DEFINE good(i) == <<>>[i] # Ev!Torn /\ (i > 1 => <<>>[i - 1] # Ev!Torn)
              s == [i \in DOMAIN <<>> |-> IF good(i) THEN <<>>[i] ELSE Ev!Torn]
  <1>1. Ev!Readable(<<>>) = Ev!Picked(s, Ev!Record)
    BY DEF Ev!Readable
  <1>2. s = <<>>
    OBVIOUS
  <1>. HIDE DEF s
  <1>3. QED
    BY <1>1, <1>2, PickedOfNone

\* Generations that are missing hold nothing.
LEMMA MissingHoldNothing ==
  ASSUME Ev!ConstantsOK, NEW prior, Before(prior, Texts), NEW j \in 0 .. MaxFiles, NEW i \in 0 .. j,
         \A f \in MaxFiles + 1 - j .. MaxFiles - i : f \notin DOMAIN history_disk
  PROVE  prior[j] = prior[i]
  <1>. DEFINE n == j - i
              T == {t \in 0 .. n : prior[i + t] = prior[i]}
  <1>1. MaxFiles \in Nat /\ n \in Nat /\ i + n = j /\ i + 0 = i /\ n \in 0 .. n
    BY DEF Ev!ConstantsOK
  <1>2. 0 \in T
    BY <1>1
  <1>3. ASSUME NEW t \in 1 .. n, t - 1 \in T PROVE t \in T
    <2>1. i + t \in 1 .. MaxFiles /\ (i + t) - 1 = i + (t - 1) /\ (i + t) - 1 \in 0 .. MaxFiles
          /\ MaxFiles + 1 - (i + t) \in MaxFiles + 1 - j .. MaxFiles - i
          /\ MaxFiles + 1 - (i + t) \in 0 .. MaxFiles
      BY <1>1
    <2>2. Texts[MaxFiles + 1 - (i + t)] = <<>>
      <3>1. MaxFiles + 1 - (i + t) \notin DOMAIN history_disk
        BY <2>1
      <3>2. QED
        BY <2>1, <3>1, NothingToRead DEF Texts, Ev!File
    <2>3. prior[i + t] = prior[(i + t) - 1] \o <<>> /\ prior[(i + t) - 1] \in Seq(Ev!Record)
      BY <2>1, <2>2 DEF Before
    <2>4. prior[i + t] = prior[(i + t) - 1]
      BY <2>3, ConcatEmptySeq
    <2>5. prior[i + (t - 1)] = prior[i]
      BY <1>3
    <2>6. QED
      BY <2>1, <2>4, <2>5
  <1>4. n \in T
    <2>. HIDE DEF T, n
    <2>1. QED
      BY <1>1, <1>2, <1>3, Upward
  <1>5. QED
    BY <1>1, <1>4

\* The numbers from one to n that are in a set, in order.
ListedTo(l, k, S) ==
  /\ \A i \in 1 .. Len(l) : l[i] \in S /\ l[i] \in 1 .. k
  /\ \A a, b \in 1 .. Len(l) : a < b => l[a] < l[b]
  /\ \A f \in S : f \in 1 .. k => \E i \in 1 .. Len(l) : l[i] = f

LEMMA Listed ==
  ASSUME NEW n \in Nat, NEW S, NEW l, l = Ev!Picked([i \in 1 .. n |-> i], S)
  PROVE  l \in Seq(1 .. n) /\ ListedTo(l, n, S)
  <1>. DEFINE s == [i \in 1 .. n |-> i]
  <1>1. s \in Seq(1 .. n) /\ Len(s) = n /\ \A i \in 1 .. n : s[i] = i
    OBVIOUS
  <1>2. l = Ev!Picked(s, S)
    OBVIOUS
  <1>. HIDE DEF s
  <1>3. PICK f \in [0 .. n -> Seq((1 .. n) \cap S)] : PicksInTurn(f, s, S)
    BY <1>1, PickedInTurn
  <1>. DEFINE T == {k \in 0 .. n : ListedTo(f[k], k, S)}
  <1>4. 0 \in T
    <2>1. f[0] = <<>> /\ 0 \in 0 .. n
      BY <1>3 DEF PicksInTurn
    <2>2. QED
      BY <2>1 DEF ListedTo
  <1>5. ASSUME NEW k \in 1 .. n, k - 1 \in T PROVE k \in T
    <2>1. k - 1 \in 0 .. n /\ k \in 0 .. n /\ \A x \in 1 .. k - 1 : x \in 1 .. k /\ x < k
      OBVIOUS
    <2>2. \A x \in 1 .. k : x = k \/ x \in 1 .. k - 1
      OBVIOUS
    <2>3. ListedTo(f[k - 1], k - 1, S)
      BY <1>5
    <2>4. f[k] = IF k \in S THEN Append(f[k - 1], k) ELSE f[k - 1]
      BY <1>1, <1>3 DEF PicksInTurn
    <2>5. CASE k \notin S
      BY <2>1, <2>2, <2>3, <2>4, <2>5 DEF ListedTo
    <2>6. CASE k \in S
      <3>. DEFINE u == f[k - 1]
                  m == Len(u)
                  v == f[k]
      <3>1. u \in Seq((1 .. n) \cap S)
        BY <2>1
      <3>2. v = Append(u, k) /\ k \in (1 .. n) \cap S
        BY <2>4, <2>6
      <3>. HIDE DEF u, v
      <3>3. m \in Nat /\ Len(v) = m + 1 /\ v[m + 1] = k /\ \A i \in 1 .. m : v[i] = u[i]
        BY <3>1, <3>2, AppendProperties
      <3>. HIDE DEF m
      <3>4. /\ \A i \in 1 .. m : u[i] \in S /\ u[i] \in 1 .. k - 1
            /\ \A a, b \in 1 .. m : a < b => u[a] < u[b]
            /\ \A g \in S : g \in 1 .. k - 1 => \E i \in 1 .. m : u[i] = g
        BY <2>3 DEF ListedTo, u, m
      <3>5. \A i \in 1 .. m + 1 : i = m + 1 \/ i \in 1 .. m
        BY <3>3
      <3>6. \A i \in 1 .. m : i \in 1 .. m + 1 /\ ~(m + 1 < i)
        BY <3>3
      <3>7. \A i \in 1 .. m + 1 : v[i] \in S /\ v[i] \in 1 .. k
        BY <2>1, <3>2, <3>3, <3>4, <3>5
      <3>8. ASSUME NEW a \in 1 .. m + 1, NEW b \in 1 .. m + 1, a < b PROVE v[a] < v[b]
        <4>1. a \in 1 .. m
          BY <3>3, <3>8
        <4>2. CASE b = m + 1
          BY <2>1, <3>3, <3>4, <4>1, <4>2
        <4>3. CASE b # m + 1
          BY <3>3, <3>4, <3>5, <3>8, <4>1, <4>3
        <4>4. QED
          BY <4>2, <4>3
      <3>9. ASSUME NEW g \in S, g \in 1 .. k PROVE \E i \in 1 .. m + 1 : v[i] = g
        <4>1. CASE g = k
          <5>1. m + 1 \in 1 .. m + 1
            BY <3>3
          <5>2. QED
            BY <3>3, <4>1, <5>1
        <4>2. CASE g # k
          BY <2>2, <3>3, <3>4, <3>6, <3>9, <4>2
        <4>3. QED
          BY <4>1, <4>2
      <3>10. ListedTo(v, k, S)
        BY <3>3, <3>7, <3>8, <3>9 DEF ListedTo
      <3>11. QED
        BY <2>1, <3>10 DEF v
    <2>7. QED
      BY <2>5, <2>6
  <1>6. n \in T
    <2>. HIDE DEF T
    <2>1. \A k \in 0 .. n : k \in T
      BY <1>4, <1>5, Upward
    <2>2. QED
      BY <2>1
  <1>7. f[n] \in Seq((1 .. n) \cap S) /\ l = f[n]
    BY <1>1, <1>2, <1>3 DEF PicksInTurn
  <1>8. QED
    BY <1>6, <1>7

\* What the reader had before it says, it still has when no file has moved.
LEMMA GenerationsStay ==
  ASSUME Ev!ConstantsOK, RotInv, Ev!Next, ~(Ev!RemoveOldest \/ Ev!Shift \/ Ev!RetireLive)
  PROVE  /\ DOMAIN history_disk' \ {0} = DOMAIN history_disk \ {0}
         /\ \A f \in 1 .. MaxFiles : Ev!File(f)' = Ev!File(f)
  <1>1. HistTyped /\ MaxFiles \in Nat
    BY DEF RotInv, Ev!ConstantsOK
  <1>2. CASE history_disk' = history_disk
    BY <1>2 DEF Ev!File
  <1>3. CASE Ev!OpenLive
    BY <1>1, <1>3, OpenedFiles
  <1>4. CASE \E r : history_disk' = [history_disk EXCEPT ![0] = Append(@, r)]
    <2>1. PICK r : history_disk' = [history_disk EXCEPT ![0] = Append(@, r)]
      BY <1>4
    <2>2. DOMAIN history_disk' = DOMAIN history_disk
          /\ \A f \in DOMAIN history_disk : f # 0 => history_disk'[f] = history_disk[f]
      BY <2>1
    <2>3. \A f \in 1 .. MaxFiles : f # 0
      OBVIOUS
    <2>4. QED
      BY <2>2, <2>3 DEF Ev!File
  <1>5. QED
    BY <1>2, <1>3, <1>4
       DEF Ev!Next, Ev!Write, Ev!CloseLive, Ev!GiveUp, Ev!Reopen, Ev!WriteLocked, Ev!Close, Ev!Crash, Ev!Open

LEMMA LogKeepsReader ==
  ASSUME Ev!ConstantsOK, RotInv, ReadInv, Ev!Log PROVE ReadInv'
  <1>1. /\ Ev!Next
        /\ history_rpc' = (IF history_pc' = "down" /\ history_rpc # "idle" THEN "failed" ELSE history_rpc)
        /\ history_older' = history_older /\ history_events' = history_events
        /\ history_answer' = (IF history_rpc \in {"list", "walk"}
                                 /\ (Ev!RemoveOldest \/ Ev!Shift \/ Ev!RetireLive)
                              THEN <<Ev!Torn>> ELSE history_answer)
    BY DEF Ev!Log
  <1>2. ReaderTyped'
    <2>1. history_rpc' \in {"idle", "list", "walk", "done", "failed"}
      BY <1>1 DEF ReadInv, ReaderTyped
    <2>2. QED
      BY <1>1, <2>1 DEF ReadInv, ReaderTyped, Ev!Record
  <1>3. ASSUME history_answer' # <<Ev!Torn>>, history_rpc' \in {"list", "walk", "done"}
        PROVE  /\ history_rpc' = history_rpc /\ history_answer' = history_answer
               /\ history_rpc \in {"list", "walk"} =>
                    ~(Ev!RemoveOldest \/ Ev!Shift \/ Ev!RetireLive)
    BY <1>1, <1>3
  <1>4. ASSUME history_answer' # <<Ev!Torn>>, history_rpc' \in {"list", "walk"}
        PROVE  Texts' = [f \in 0 .. MaxFiles |-> IF f = 0 THEN Texts'[0] ELSE Texts[f]]
               /\ DOMAIN history_disk' \ {0} = DOMAIN history_disk \ {0}
               /\ MaxFiles \in Nat
    <2>1. DOMAIN history_disk' \ {0} = DOMAIN history_disk \ {0}
          /\ \A f \in 1 .. MaxFiles : Ev!File(f)' = Ev!File(f)
      BY <1>1, <1>3, <1>4, GenerationsStay
    <2>2. MaxFiles \in Nat
      BY DEF Ev!ConstantsOK
    <2>3. \A f : Ev!Readable(Ev!File(f))' = Ev!Readable(Ev!File(f)')
      BY DEF Ev!Readable, Ev!Picked, Ev!Record, Ev!Torn
    <2>4. Texts' = [f \in 0 .. MaxFiles |-> Ev!Readable(Ev!File(f)')]
      BY <2>3 DEF Texts
    <2>5. \A f \in 0 .. MaxFiles : f = 0 \/ f \in 1 .. MaxFiles
      BY <2>2
    <2>6. \A f \in 0 .. MaxFiles : Texts'[f] = IF f = 0 THEN Texts'[0] ELSE Texts[f]
      BY <2>1, <2>4, <2>5 DEF Texts
    <2>7. QED
      BY <2>1, <2>2, <2>4, <2>6
  <1>5. ASSUME history_answer' # <<Ev!Torn>>, history_rpc' \in {"list", "walk"},
               NEW prior, Before(prior, Texts)
        PROVE  Before(prior, Texts')
    <2>1. \A j \in 1 .. MaxFiles : MaxFiles + 1 - j \in 0 .. MaxFiles /\ MaxFiles + 1 - j # 0
      BY <1>4, <1>5
    <2>2. \A j \in 1 .. MaxFiles : Texts'[MaxFiles + 1 - j] = Texts[MaxFiles + 1 - j]
      BY <1>4, <1>5, <2>1
    <2>3. QED
      BY <1>5, <2>2 DEF Before
  <1>6. ASSUME history_answer' # <<Ev!Torn>> PROVE history_rpc' = "list" => Listing'
    <2>1. SUFFICES ASSUME history_rpc' = "list" PROVE Listing'
      OBVIOUS
    <2>2. history_rpc = "list" /\ history_answer' = history_answer
      BY <1>3, <1>6, <2>1
    <2>3. PICK prior : Before(prior, Texts)
              /\ history_answer = Ev!LastOf(Wanted, prior[MaxFiles] \o history_events)
      BY <1>6, <2>2 DEF ReadInv, Undisturbed, Listing
    <2>4. Before(prior, Texts')
      BY <1>5, <1>6, <2>1, <2>3
    <2>5. QED
      BY <1>1, <2>2, <2>3, <2>4 DEF Listing, Ev!LastOf, Before, Ev!Record
  <1>7. ASSUME history_answer' # <<Ev!Torn>> PROVE history_rpc' = "walk" => Walking'
    <2>1. SUFFICES ASSUME history_rpc' = "walk" PROVE Walking'
      OBVIOUS
    <2>2. history_rpc = "walk" /\ history_answer' = history_answer
      BY <1>3, <1>7, <2>1
    <2>3. PICK prior : Before(prior, Texts) /\ \E j \in 0 .. MaxFiles :
              /\ history_answer = Ev!LastOf(Wanted, prior[j] \o history_events)
              /\ ToRead(j, history_older, DOMAIN history_disk \ {0})
      BY <1>7, <2>2 DEF ReadInv, Undisturbed, Walking
    <2>4. Before(prior, Texts')
      BY <1>5, <1>7, <2>1, <2>3
    <2>5. DOMAIN history_disk' \ {0} = DOMAIN history_disk \ {0}
      BY <1>4, <1>7, <2>1
    <2>6. QED
      BY <1>1, <2>2, <2>3, <2>4, <2>5 DEF Walking, ToRead, Ev!LastOf, Before, Ev!Record
  <1>8. ASSUME history_answer' # <<Ev!Torn>>, history_rpc' = "done" PROVE history_events' = history_answer'
    BY <1>1, <1>3, <1>8 DEF ReadInv, Undisturbed
  <1>9. Undisturbed'
    BY <1>6, <1>7, <1>8 DEF Undisturbed, Ev!Torn
  <1>10. QED
    BY <1>2, <1>9 DEF ReadInv

\* What all files hold is what the generations hold, and the live file's.
LEMMA LegibleIs ==
  ASSUME Ev!ConstantsOK, HistTyped
  PROVE  \E prior : Before(prior, Texts) /\ Ev!Legible = prior[MaxFiles] \o Ev!Readable(Ev!File(0))
  <1>. DEFINE seqs == [i \in 1 .. MaxFiles + 1 |-> Ev!Readable(Ev!File(MaxFiles + 1 - i))]
  <1>1. MaxFiles \in Nat
    BY DEF Ev!ConstantsOK
  <1>2. \A f \in 0 .. MaxFiles : Ev!Readable(Ev!File(f)) \in Seq(Ev!Record)
    BY FileIs, ReadableIs
  <1>3. seqs \in Seq(Seq(Ev!Record)) /\ Len(seqs) = MaxFiles + 1
        /\ \A i \in 1 .. MaxFiles + 1 : seqs[i] = Ev!Readable(Ev!File(MaxFiles + 1 - i))
    <2>1. ASSUME NEW i \in 1 .. MaxFiles + 1 PROVE Ev!Readable(Ev!File(MaxFiles + 1 - i)) \in Seq(Ev!Record)
      <3>1. MaxFiles + 1 - i \in 0 .. MaxFiles
        BY <1>1
      <3>2. QED
        BY <1>2, <3>1
    <2>2. QED
      BY <1>1, <2>1
  <1>4. Ev!Legible = Ev!FlattenSeq(seqs)
    <2>1. seqs = [i \in 1 .. MaxFiles + 1 |-> Ev!Readable(Ev!File(MaxFiles + 1 - i))]
      OBVIOUS
    <2>2. QED
      BY <2>1 DEF Ev!Legible, Ev!OldestFirst
  <1>. HIDE DEF seqs
  <1>5. PICK f \in [0 .. Len(seqs) -> Seq(Ev!Record)] : Flattens(f, seqs)
    BY <1>3, FlattenedInTurn
  <1>6. f[0] = <<>> /\ (\A i \in 1 .. MaxFiles + 1 : f[i] = f[i - 1] \o seqs[i]) /\ Ev!Legible = f[MaxFiles + 1]
        /\ \A i \in 0 .. MaxFiles + 1 : f[i] \in Seq(Ev!Record)
    BY <1>3, <1>4, <1>5 DEF Flattens
  <1>. DEFINE prior == [j \in 0 .. MaxFiles |-> f[j]]
  <1>7. Before(prior, Texts)
    <2>1. prior \in [0 .. MaxFiles -> Seq(Ev!Record)] /\ prior[0] = <<>>
      <3>1. \A j \in 0 .. MaxFiles : j \in 0 .. MaxFiles + 1
        BY <1>1
      <3>2. 0 \in 0 .. MaxFiles
        BY <1>1
      <3>3. QED
        BY <1>6, <3>1, <3>2
    <2>2. ASSUME NEW j \in 1 .. MaxFiles PROVE prior[j] = prior[j - 1] \o Texts[MaxFiles + 1 - j]
      <3>1. j \in 1 .. MaxFiles + 1 /\ j - 1 \in 0 .. MaxFiles /\ j \in 0 .. MaxFiles /\ MaxFiles + 1 - j \in 0 .. MaxFiles
        BY <1>1
      <3>2. prior[j] = f[j] /\ prior[j - 1] = f[j - 1]
        BY <3>1
      <3>3. Texts[MaxFiles + 1 - j] = seqs[j]
        BY <1>3, <3>1 DEF Texts
      <3>4. f[j] = f[j - 1] \o seqs[j]
        BY <1>6, <3>1
      <3>. HIDE DEF prior, seqs
      <3>5. QED
        BY <3>2, <3>3, <3>4
    <2>. HIDE DEF prior
    <2>3. QED
      BY <2>1, <2>2 DEF Before
  <1>8. Ev!Legible = prior[MaxFiles] \o Ev!Readable(Ev!File(0))
    <2>1. MaxFiles + 1 \in 1 .. MaxFiles + 1 /\ MaxFiles + 1 - 1 = MaxFiles /\ MaxFiles + 1 - MaxFiles + 1 = 0 /\ MaxFiles \in 0 .. MaxFiles
      BY <1>1
    <2>2. f[MaxFiles + 1] = f[MaxFiles] \o seqs[MaxFiles + 1] /\ seqs[MaxFiles + 1] = Ev!Readable(Ev!File(0))
      BY <1>3, <1>6, <2>1
    <2>3. prior[MaxFiles] = f[MaxFiles]
      BY <2>1
    <2>4. QED
      BY <1>6, <2>2, <2>3
  <1>. HIDE DEF prior
  <1>9. QED
    BY <1>7, <1>8

LEMMA ReadLiveStep ==
  ASSUME Ev!ConstantsOK, Wanted \in Nat, RotInv, ReadInv, Ev!ReadLive PROVE ReadInv'
  <1>1. /\ history_older' = history_older /\ history_disk' = history_disk
        /\ history_answer' = Ev!LastOf(Wanted, Ev!Legible)
        /\ \/ /\ 0 \in DOMAIN history_disk /\ history_rpc' = "list"
              /\ history_events' = Ev!LastOf(Wanted, Ev!Readable(history_disk[0]))
           \/ history_rpc' = "failed" /\ history_events' = <<>>
    BY DEF Ev!ReadLive, Ev!vars
  <1>2. CASE history_rpc' = "failed" /\ history_events' = <<>>
    <2>1. <<>> \in Seq(Ev!Record) /\ Len(<<>>) <= Wanted
      OBVIOUS
    <2>2. ReaderTyped'
      BY <1>1, <1>2, <2>1 DEF ReadInv, ReaderTyped, Ev!Record
    <2>3. Undisturbed'
      BY <1>2 DEF Undisturbed
    <2>4. QED
      BY <2>2, <2>3 DEF ReadInv
  <1>3. CASE /\ 0 \in DOMAIN history_disk /\ history_rpc' = "list"
             /\ history_events' = Ev!LastOf(Wanted, Ev!Readable(history_disk[0]))
    <2>. DEFINE live == Ev!Readable(Ev!File(0))
    <2>1. HistTyped /\ Ev!File(0) = history_disk[0] /\ history_disk[0] \in Seq(Stored)
      BY <1>3, FileIs DEF RotInv, Ev!File
    <2>2. live \in Seq(Ev!Record) /\ history_events' = Ev!LastOf(Wanted, live)
      BY <1>3, <2>1, ReadableIs
    <2>3. PICK prior : Before(prior, Texts) /\ Ev!Legible = prior[MaxFiles] \o live
      BY <2>1, LegibleIs
    <2>4. prior[MaxFiles] \in Seq(Ev!Record)
      <3>1. MaxFiles \in 0 .. MaxFiles
        BY DEF Ev!ConstantsOK
      <3>2. QED
        BY <2>3, <3>1 DEF Before
    <2>. HIDE DEF live
    <2>5. Ev!LastOf(Wanted, live) \in Seq(Ev!Record) /\ Len(Ev!LastOf(Wanted, live)) <= Wanted
      <3>. DEFINE k == IF Len(live) <= Wanted THEN Len(live) ELSE Wanted
      <3>1. k \in Nat /\ (Len(live) <= Wanted => k = Len(live)) /\ (Len(live) > Wanted => k = Wanted)
            /\ k <= Wanted
        BY <2>2
      <3>. HIDE DEF k
      <3>2. Ev!LastOf(Wanted, live) \in Seq(Ev!Record) /\ Len(Ev!LastOf(Wanted, live)) = k
        BY <2>2, <3>1, LastIs DEF Ends
      <3>3. QED
        BY <3>1, <3>2
    <2>6. Ev!LastOf(Wanted, prior[MaxFiles] \o live)
            = Ev!LastOf(Wanted, prior[MaxFiles] \o Ev!LastOf(Wanted, live))
      <3>1. <<>> \in Seq(Ev!Record) /\ Len(<<>>) = 0 /\ Len(<<>>) <= Wanted /\ Wanted - 0 = Wanted
        OBVIOUS
      <3>2. Ev!LastOf(Wanted, (prior[MaxFiles] \o live) \o <<>>)
              = Ev!LastOf(Wanted, prior[MaxFiles] \o (Ev!LastOf(Wanted, live) \o <<>>))
        <4>1. ASSUME NEW t \in Seq(Ev!Record), Len(t) = 0
              PROVE  Ev!LastOf(Wanted, (prior[MaxFiles] \o live) \o t)
                       = Ev!LastOf(Wanted, prior[MaxFiles] \o (Ev!LastOf(Wanted, live) \o t))
          <5>1. Len(t) <= Wanted /\ Wanted - Len(t) = Wanted
            BY <4>1
          <5>2. Ev!LastOf(Wanted, (prior[MaxFiles] \o live) \o t)
                  = Ev!LastOf(Wanted, prior[MaxFiles] \o (Ev!LastOf(Wanted - Len(t), live) \o t))
            BY <2>2, <2>4, <5>1, LastOfThree
          <5>3. QED
            BY <5>1, <5>2
        <4>2. QED
          BY <3>1, <4>1
      <3>3. (prior[MaxFiles] \o live) \o <<>> = prior[MaxFiles] \o live
        BY <2>2, <2>4, ConcatProperties, ConcatEmptySeq
      <3>4. Ev!LastOf(Wanted, live) \o <<>> = Ev!LastOf(Wanted, live)
        BY <2>5, ConcatEmptySeq
      <3>5. QED
        BY <3>1, <3>2, <3>3, <3>4
    <2>7. Texts' = Texts
      <3>1. \A f \in 0 .. MaxFiles : Ev!File(f)' = Ev!File(f)
        BY <1>1 DEF Ev!File
      <3>2. ASSUME NEW f \in 0 .. MaxFiles PROVE Ev!Readable(Ev!File(f))' = Ev!Readable(Ev!File(f))
        BY <3>1
      <3>3. QED
        BY <3>2 DEF Texts
    <2>8. Listing'
      <3>1. Before(prior, Texts') /\ history_answer' = Ev!LastOf(Wanted, prior[MaxFiles] \o history_events')
        BY <1>1, <2>2, <2>3, <2>6, <2>7
      <3>2. QED
        BY <3>1 DEF Listing, Before, Ev!LastOf, Ev!Record
    <2>9. ReaderTyped'
      BY <1>1, <1>3, <2>2, <2>5 DEF ReadInv, ReaderTyped, Ev!Record
    <2>10. Undisturbed'
      BY <1>3, <2>8 DEF Undisturbed
    <2>11. QED
      BY <2>9, <2>10 DEF ReadInv
  <1>4. QED
    BY <1>1, <1>2, <1>3

LEMMA GenerationsStep ==
  ASSUME Ev!ConstantsOK, RotInv, ReadInv, Ev!Generations PROVE ReadInv'
  <1>1. /\ history_rpc = "list" /\ history_rpc' = "walk" /\ history_disk' = history_disk
        /\ history_older' = Ev!Picked([i \in 1 .. MaxFiles |-> i], DOMAIN history_disk)
        /\ history_events' = history_events /\ history_answer' = history_answer
    BY DEF Ev!Generations, Ev!vars
  <1>2. MaxFiles \in Nat
    BY DEF Ev!ConstantsOK
  <1>3. history_older' \in Seq(1 .. MaxFiles) /\ ListedTo(history_older', MaxFiles, DOMAIN history_disk)
    BY <1>1, <1>2, Listed
  <1>4. ReaderTyped'
    BY <1>1, <1>3 DEF ReadInv, ReaderTyped, Ev!Record
  <1>5. ASSUME history_answer # <<Ev!Torn>> PROVE Walking'
    <2>1. PICK prior : Before(prior, Texts)
              /\ history_answer = Ev!LastOf(Wanted, prior[MaxFiles] \o history_events)
      BY <1>1, <1>5 DEF ReadInv, Undisturbed, Listing
    <2>2. Texts' = Texts
      BY <1>1 DEF Texts, Ev!Readable, Ev!Picked, Ev!File, Ev!Record, Ev!Torn
    <2>3. DOMAIN history_disk \subseteq 0 .. MaxFiles
      BY FileIs DEF RotInv
    <2>4. ToRead(MaxFiles, history_older', DOMAIN history_disk \ {0})
      <3>1. /\ \A f \in 1 .. MaxFiles : f >= MaxFiles + 1 - MaxFiles /\ f # 0
            /\ \A f \in 0 .. MaxFiles : f # 0 => f \in 1 .. MaxFiles
        BY <1>2
      <3>2. QED
        BY <1>3, <2>3, <3>1 DEF ToRead, ListedTo
    <2>5. MaxFiles \in 0 .. MaxFiles
      BY <1>2
    <2>6. Before(prior, Texts') /\ history_answer' = Ev!LastOf(Wanted, prior[MaxFiles] \o history_events')
          /\ ToRead(MaxFiles, history_older', DOMAIN history_disk' \ {0})
      BY <1>1, <2>1, <2>2, <2>4
    <2>7. QED
      BY <2>5, <2>6 DEF Walking, ToRead, Before, Ev!LastOf, Ev!Record
  <1>6. Undisturbed'
    BY <1>1, <1>5 DEF Undisturbed, Ev!Torn
  <1>7. QED
    BY <1>4, <1>6 DEF ReadInv

LEMMA ReadOlderStep ==
  ASSUME Ev!ConstantsOK, Wanted \in Nat, RotInv, ReadInv, Ev!ReadOlder PROVE ReadInv'
  <1>. DEFINE h == Head(history_older)
              text == Ev!Readable(Ev!File(h))
              missing == Wanted - Len(history_events)
              batch == Ev!LastOf(missing, text)
  <1>1. /\ history_rpc = "walk" /\ history_rpc' = "walk" /\ history_disk' = history_disk
        /\ history_older # <<>> /\ Len(history_events) < Wanted
        /\ history_events' = batch \o history_events
        /\ history_older' = Tail(history_older) /\ history_answer' = history_answer
    BY DEF Ev!ReadOlder, Ev!vars
  <1>2. MaxFiles \in Nat /\ HistTyped
    BY DEF Ev!ConstantsOK, RotInv
  <1>3. history_older \in Seq(1 .. MaxFiles) /\ history_events \in Seq(Ev!Record)
    BY DEF ReadInv, ReaderTyped
  <1>. DEFINE m == Len(history_older)
  <1>4. /\ m \in Nat /\ m > 0 /\ h = history_older[1] /\ h \in 1 .. MaxFiles
        /\ history_older' \in Seq(1 .. MaxFiles) /\ Len(history_older') = m - 1
        /\ \A i \in 1 .. m - 1 : history_older'[i] = history_older[i + 1]
    <2>1. m \in Nat /\ m > 0 /\ h = history_older[1]
      BY <1>1, <1>3
    <2>2. 1 \in 1 .. m
      BY <2>1
    <2>3. history_older[1] \in 1 .. MaxFiles
      <3>. HIDE DEF h
      <3>1. 1 \in 1 .. Len(history_older)
        BY <2>2
      <3>2. QED
        BY <1>3, <3>1, ElementOfSeq
    <2>4. history_older' \in Seq(1 .. MaxFiles) /\ Len(history_older') = m - 1
          /\ \A i \in 1 .. Len(history_older') : history_older'[i] = history_older[i + 1]
      BY <1>1, <1>3, HeadTailProperties
    <2>5. QED
      BY <2>1, <2>3, <2>4
  <1>5. text \in Seq(Ev!Record)
    <2>1. h \in 0 .. MaxFiles
      BY <1>2, <1>4
    <2>2. QED
      BY <1>2, <2>1, FileIs, ReadableIs
  <1>6. missing \in Nat /\ Len(history_events) \in Nat /\ Len(history_events) <= Wanted
        /\ missing + Len(history_events) = Wanted
    BY <1>1, <1>3
  <1>. HIDE DEF text, missing, batch, h, m
  <1>7. batch \in Seq(Ev!Record) /\ Len(batch) \in Nat /\ Len(batch) <= missing
    <2>. DEFINE k == IF Len(text) <= missing THEN Len(text) ELSE missing
    <2>1. k \in Nat /\ (Len(text) <= missing => k = Len(text)) /\ (Len(text) > missing => k = missing)
          /\ k <= missing
      BY <1>5, <1>6
    <2>. HIDE DEF k
    <2>2. batch \in Seq(Ev!Record) /\ Len(batch) = k
      BY <1>5, <1>6, <2>1, LastIs DEF Ends, batch
    <2>3. QED
      BY <2>1, <2>2
  <1>8. history_events' \in Seq(Ev!Record) /\ Len(history_events') <= Wanted
    <2>1. history_events' \in Seq(Ev!Record) /\ Len(history_events') = Len(batch) + Len(history_events)
      BY <1>1, <1>3, <1>7, ConcatProperties
    <2>2. QED
      BY <1>6, <1>7, <2>1
  <1>9. ReaderTyped'
    BY <1>1, <1>4, <1>8 DEF ReaderTyped, Ev!Record
  <1>10. ASSUME history_answer # <<Ev!Torn>> PROVE Walking'
    <2>a. PICK prior : Before(prior, Texts) /\ \E j \in 0 .. MaxFiles :
              /\ history_answer = Ev!LastOf(Wanted, prior[j] \o history_events)
              /\ ToRead(j, history_older, DOMAIN history_disk \ {0})
      BY <1>1, <1>10 DEF ReadInv, Undisturbed, Walking
    <2>b. PICK j \in 0 .. MaxFiles :
              /\ history_answer = Ev!LastOf(Wanted, prior[j] \o history_events)
              /\ ToRead(j, history_older, DOMAIN history_disk \ {0})
      BY <2>a
    <2>1. /\ Before(prior, Texts)
          /\ history_answer = Ev!LastOf(Wanted, prior[j] \o history_events)
          /\ ToRead(j, history_older, DOMAIN history_disk \ {0})
      BY <2>a, <2>b
    <2>. DEFINE i == MaxFiles + 1 - h
    <2>2. /\ \A a \in 1 .. m : history_older[a] >= MaxFiles + 1 - j /\ history_older[a] \in DOMAIN history_disk \ {0}
          /\ \A a, b \in 1 .. m : a < b => history_older[a] < history_older[b]
          /\ \A f \in DOMAIN history_disk \ {0} : f >= MaxFiles + 1 - j => \E a \in 1 .. m : history_older[a] = f
      BY <2>1 DEF ToRead, m
    <2>3. ASSUME NEW a \in 1 .. m PROVE history_older[a] \in 1 .. MaxFiles
      BY <1>3, ElementOfSeq DEF m
    <2>4. h >= MaxFiles + 1 - j /\ 1 \in 1 .. m
      <3>1. 1 \in 1 .. m
        BY <1>4
      <3>2. history_older[1] >= MaxFiles + 1 - j
        BY <2>2, <3>1
      <3>3. QED
        BY <1>4, <3>1, <3>2
    <2>5. i \in 1 .. MaxFiles /\ i \in 0 .. j /\ i \in 0 .. MaxFiles /\ i - 1 \in 0 .. MaxFiles
          /\ MaxFiles + 1 - i = h /\ MaxFiles - i = h - 1 /\ MaxFiles + 1 - (i - 1) = h + 1
      <3>1. MaxFiles \in Nat /\ h \in 1 .. MaxFiles /\ j \in 0 .. MaxFiles /\ h >= MaxFiles + 1 - j
        BY <1>2, <1>4, <2>4
      <3>2. QED
        BY <3>1
    <2>. HIDE DEF i
    <2>6. \A a \in 1 .. m : a # 1 => history_older[a] > h
      BY <1>4, <2>2, <2>3, <2>4
    <2>7. \A f \in MaxFiles + 1 - j .. MaxFiles - i : f \notin DOMAIN history_disk
      <3>1. SUFFICES ASSUME NEW f \in MaxFiles + 1 - j .. MaxFiles - i, f \in DOMAIN history_disk
                     PROVE  FALSE
        OBVIOUS
      <3>2. f >= MaxFiles + 1 - j /\ f < h /\ f # 0
        BY <1>2, <1>4, <2>5
      <3>3. PICK a \in 1 .. m : history_older[a] = f
        BY <2>2, <3>1, <3>2
      <3>4. QED
        BY <1>4, <2>6, <3>2, <3>3
    <2>8. prior[j] = prior[i]
      BY <2>1, <2>5, <2>7, MissingHoldNothing
    <2>9. prior[i] = prior[i - 1] \o text /\ prior[i - 1] \in Seq(Ev!Record)
      <3>1. Texts[MaxFiles + 1 - i] = text
        <4>1. h \in 0 .. MaxFiles
          BY <1>2, <1>4
        <4>2. QED
          BY <2>5, <4>1 DEF Texts, text
      <3>2. prior \in [0 .. MaxFiles -> Seq(Ev!Record)] /\ prior[i] = prior[i - 1] \o Texts[MaxFiles + 1 - i]
        BY <2>1, <2>5 DEF Before
      <3>3. QED
        BY <2>5, <3>1, <3>2
    <2>10. history_answer' = Ev!LastOf(Wanted, prior[i - 1] \o history_events')
      <3>1. history_answer = Ev!LastOf(Wanted, (prior[i - 1] \o text) \o history_events)
        BY <2>1, <2>8, <2>9
      <3>2. Ev!LastOf(Wanted, (prior[i - 1] \o text) \o history_events)
              = Ev!LastOf(Wanted, prior[i - 1] \o (Ev!LastOf(Wanted - Len(history_events), text) \o history_events))
        BY <1>3, <1>5, <1>6, <2>9, LastOfThree
      <3>3. QED
        BY <1>1, <3>1, <3>2 DEF batch, missing
    <2>11. ToRead(i - 1, history_older', DOMAIN history_disk' \ {0})
      <3>1. \A a \in 1 .. m - 1 : a + 1 \in 1 .. m /\ a + 1 # 1
        BY <1>4
      <3>2. \A a \in 1 .. m - 1 : history_older'[a] >= h + 1 /\ history_older'[a] \in DOMAIN history_disk \ {0}
        <4>1. \A a \in 1 .. m - 1 : history_older[a + 1] > h /\ history_older[a + 1] \in 1 .. MaxFiles
          BY <2>3, <2>6, <3>1
        <4>2. \A x \in 1 .. MaxFiles : x > h => x >= h + 1
          BY <1>2, <1>4
        <4>3. QED
          BY <1>4, <2>2, <3>1, <4>1, <4>2
      <3>3. ASSUME NEW a \in 1 .. m - 1, NEW b \in 1 .. m - 1, a < b PROVE history_older'[a] < history_older'[b]
        <4>1. a + 1 < b + 1 /\ a + 1 \in 1 .. m /\ b + 1 \in 1 .. m
          BY <1>4, <3>3
        <4>2. QED
          BY <1>4, <2>2, <4>1
      <3>4. ASSUME NEW f \in DOMAIN history_disk \ {0}, f >= h + 1
            PROVE  \E a \in 1 .. m - 1 : history_older'[a] = f
        <4>1. f \in 0 .. MaxFiles
          BY <1>2, FileIs
        <4>2. f >= MaxFiles + 1 - j /\ f # h
          BY <1>2, <1>4, <2>4, <3>4, <4>1
        <4>3. PICK a \in 1 .. m : history_older[a] = f
          BY <2>2, <4>2
        <4>4. a # 1
          BY <1>4, <4>2, <4>3
        <4>5. a - 1 \in 1 .. m - 1 /\ (a - 1) + 1 = a
          BY <1>4, <4>4
        <4>6. history_older'[a - 1] = f
          BY <1>4, <4>3, <4>5
        <4>7. QED
          BY <4>5, <4>6
      <3>5. QED
        BY <1>1, <1>4, <2>5, <3>2, <3>3, <3>4 DEF ToRead
    <2>12. Texts' = Texts
      BY <1>1 DEF Texts, Ev!Readable, Ev!Picked, Ev!File, Ev!Record, Ev!Torn
    <2>13. Before(prior, Texts')
      BY <2>1, <2>12
    <2>14. QED
      BY <2>5, <2>10, <2>11, <2>13 DEF Walking, ToRead, Before, Ev!LastOf, Ev!Record
  <1>11. Undisturbed'
    BY <1>1, <1>10 DEF Undisturbed, Ev!Torn
  <1>12. QED
    BY <1>9, <1>11 DEF ReadInv

LEMMA AnswerStep ==
  ASSUME Ev!ConstantsOK, Wanted \in Nat, RotInv, ReadInv, Ev!Answer PROVE ReadInv'
  <1>1. /\ history_rpc = "walk" /\ history_rpc' = "done" /\ history_older' = history_older
        /\ history_events' = history_events /\ history_answer' = history_answer
        /\ history_older = <<>> \/ Len(history_events) >= Wanted
    BY DEF Ev!Answer
  <1>2. MaxFiles \in Nat
    BY DEF Ev!ConstantsOK
  <1>3. history_events \in Seq(Ev!Record) /\ Len(history_events) \in Nat /\ Len(history_events) <= Wanted
    BY DEF ReadInv, ReaderTyped
  <1>4. ReaderTyped'
    BY <1>1 DEF ReadInv, ReaderTyped, Ev!Record
  <1>5. ASSUME history_answer # <<Ev!Torn>> PROVE history_events = history_answer
    <2>a. PICK prior : Before(prior, Texts) /\ \E j \in 0 .. MaxFiles :
              /\ history_answer = Ev!LastOf(Wanted, prior[j] \o history_events)
              /\ ToRead(j, history_older, DOMAIN history_disk \ {0})
      BY <1>1, <1>5 DEF ReadInv, Undisturbed, Walking
    <2>b. PICK j \in 0 .. MaxFiles :
              /\ history_answer = Ev!LastOf(Wanted, prior[j] \o history_events)
              /\ ToRead(j, history_older, DOMAIN history_disk \ {0})
      BY <2>a
    <2>1. /\ Before(prior, Texts)
          /\ history_answer = Ev!LastOf(Wanted, prior[j] \o history_events)
          /\ ToRead(j, history_older, DOMAIN history_disk \ {0})
      BY <2>a, <2>b
    <2>2. Ev!LastOf(Wanted, history_events) = history_events
      BY <1>3 DEF Ev!LastOf
    <2>3. prior[j] \in Seq(Ev!Record)
      BY <2>1 DEF Before
    <2>4. CASE history_older = <<>>
      <3>1. \A f \in DOMAIN history_disk \ {0} : ~(f >= MaxFiles + 1 - j)
        <4>1. 1 .. Len(history_older) = {}
          BY <2>4
        <4>2. QED
          BY <2>1, <4>1 DEF ToRead
      <3>2. \A f \in MaxFiles + 1 - j .. MaxFiles - 0 : f \notin DOMAIN history_disk
        <4>1. \A f \in MaxFiles + 1 - j .. MaxFiles - 0 : f # 0 /\ f >= MaxFiles + 1 - j
          BY <1>2
        <4>2. QED
          BY <3>1, <4>1
      <3>3. prior[j] = prior[0]
        <4>1. 0 \in 0 .. j
          OBVIOUS
        <4>2. QED
          BY <2>1, <3>2, <4>1, MissingHoldNothing
      <3>4. prior[0] = <<>>
        BY <2>1 DEF Before
      <3>5. prior[j] \o history_events = history_events
        BY <1>3, <3>3, <3>4, ConcatEmptySeq
      <3>6. QED
        BY <2>1, <2>2, <3>5
    <2>5. CASE Len(history_events) >= Wanted
      <3>1. Wanted <= Len(history_events)
        BY <1>3, <2>5
      <3>2. Ev!LastOf(Wanted, prior[j] \o history_events) = Ev!LastOf(Wanted, history_events)
        BY <1>3, <2>3, <3>1, LastOfTheRest
      <3>3. QED
        BY <2>1, <2>2, <3>2
    <2>6. QED
      BY <1>1, <2>4, <2>5
  <1>6. Undisturbed'
    BY <1>1, <1>5 DEF Undisturbed, Ev!Torn
  <1>7. QED
    BY <1>4, <1>6 DEF ReadInv

LEMMA AskAgainStep ==
  ASSUME Wanted \in Nat, ReadInv, Ev!AskAgain PROVE ReadInv'
  <1>1. history_rpc' = "idle" /\ history_older' = <<>> /\ history_events' = <<>>
    BY DEF Ev!AskAgain
  <1>2. <<>> \in Seq(Ev!Record) /\ <<>> \in Seq(1 .. MaxFiles) /\ Len(<<>>) <= Wanted
    OBVIOUS
  <1>3. ReaderTyped'
    BY <1>1, <1>2 DEF ReaderTyped, Ev!Record
  <1>4. Undisturbed'
    BY <1>1 DEF Undisturbed
  <1>5. QED
    BY <1>3, <1>4 DEF ReadInv

HistInv == RotInv /\ ReadInv

LEMMA HistBegins == ASSUME Ev!ConstantsOK, Wanted \in Nat, Ev!LogInit PROVE HistInv
  <1>1. Ev!Init /\ history_rpc = "idle" /\ history_older = <<>> /\ history_events = <<>>
    BY DEF Ev!LogInit
  <1>2. <<>> \in Seq(Ev!Record) /\ <<>> \in Seq(1 .. MaxFiles) /\ Len(<<>>) <= Wanted
    OBVIOUS
  <1>3. ReadInv
    BY <1>1, <1>2 DEF ReadInv, ReaderTyped, Undisturbed
  <1>4. QED
    BY <1>1, <1>3, RotBegins DEF HistInv

\* A reader leaves the files alone.
LEMMA FilesAreRead ==
  ASSUME RotInv, UNCHANGED Ev!vars PROVE RotInv' /\ Spared
  <1>1. /\ history_disk' = history_disk /\ history_handle' = history_handle
        /\ history_size' = history_size /\ history_pc' = history_pc /\ history_at' = history_at
        /\ history_pending' = history_pending /\ history_kept' = history_kept
        /\ history_tried' = history_tried /\ history_faults' = history_faults
    BY DEF Ev!vars
  <1>2. HistTyped'
    BY <1>1 DEF RotInv, HistTyped, Ev!TypeOK, Ev!Files, Ev!Bytes, Ev!Record, Ev!Torn
  <1>3. Vacated' /\ Fits'
    BY <1>1 DEF RotInv, Vacated, Fits, Ev!Record
  <1>4. QED
    BY <1>1, <1>2, <1>3, FilesStay DEF RotInv

LEMMA HistKeeps ==
  ASSUME Ev!ConstantsOK, Wanted \in Nat, HistInv, Ev!LogNext \/ UNCHANGED Ev!allVars
  PROVE  HistInv' /\ Spared
  <1>1. RotInv /\ ReadInv
    BY DEF HistInv
  <1>2. CASE Ev!Log
    <2>1. Ev!Next
      BY <1>2 DEF Ev!Log
    <2>2. QED
      BY <1>1, <1>2, <2>1, RotKeeps, LogKeepsReader DEF HistInv
  <1>3. CASE Ev!ReadLive \/ Ev!Generations \/ Ev!ReadOlder \/ Ev!Answer \/ Ev!AskAgain
    <2>1. UNCHANGED Ev!vars
      BY <1>3 DEF Ev!ReadLive, Ev!Generations, Ev!ReadOlder, Ev!Answer, Ev!AskAgain
    <2>2. ReadInv'
      BY <1>1, <1>3, ReadLiveStep, GenerationsStep, ReadOlderStep, AnswerStep, AskAgainStep
    <2>3. QED
      BY <1>1, <2>1, <2>2, FilesAreRead DEF HistInv
  <1>4. CASE UNCHANGED Ev!allVars
    <2>1. UNCHANGED Ev!vars /\ UNCHANGED Ev!readerVars
      BY <1>4 DEF Ev!allVars
    <2>2. /\ history_disk' = history_disk /\ history_rpc' = history_rpc /\ history_older' = history_older
          /\ history_events' = history_events /\ history_answer' = history_answer
      BY <2>1 DEF Ev!vars, Ev!readerVars
    <2>3. ReaderTyped'
      BY <1>1, <2>2 DEF ReadInv, ReaderTyped, Ev!Record
    <2>4. Texts' = Texts
      BY <2>2 DEF Texts, Ev!Readable, Ev!Picked, Ev!File, Ev!Record, Ev!Torn
    <2>5. Undisturbed'
      BY <1>1, <2>2, <2>4
         DEF ReadInv, Undisturbed, Listing, Walking, ToRead, Before, Ev!LastOf, Ev!Record, Ev!Torn
    <2>6. QED
      BY <1>1, <2>1, <2>3, <2>5, FilesAreRead DEF HistInv, ReadInv
  <1>5. QED
    BY <1>2, <1>3, <1>4 DEF Ev!LogNext

\* The files hold the end of what was written, in pieces that follow each other, with room
\* where a rotation is about to move one; and a reader no rotation has overtaken has the
\* last of what it has been through: at every moment, for any limits and any faults.
THEOREM HistoryInvariant ==
  ASSUME Ev!ConstantsOK, Wanted \in Nat
  PROVE  Ev!LogInit /\ [][Ev!LogNext]_(Ev!allVars) => []HistInv
  <1>1. Ev!LogInit => HistInv
    BY HistBegins
  <1>2. HistInv /\ [Ev!LogNext]_(Ev!allVars) => HistInv'
    BY HistKeeps
  <1>3. QED
    BY <1>1, <1>2, PTL

\* What a record is lost to is the limit: over every rotation, failure and death of the
\* process the files hold the end of what was written, a step takes away nothing but the
\* oldest file, no file outgrows the limit, and a reader no rotation overtakes returns
\* the last events there were.  (rotate.go, readLast.)
THEOREM HistoryHolds ==
  ASSUME Ev!ConstantsOK, Wanted \in Nat
  PROVE  Ev!LogInit /\ [][Ev!LogNext]_(Ev!allVars) => Ev!HistoryIsKept
  <1>1. HistInv => Ev!HistoryIsASuffix /\ Ev!FilesAreBounded /\ Ev!ReadsTheLast
    <2>1. SUFFICES ASSUME HistInv PROVE Ev!HistoryIsASuffix /\ Ev!FilesAreBounded /\ Ev!ReadsTheLast
      OBVIOUS
    <2>2. Ev!HistoryIsASuffix /\ Ev!FilesAreBounded
      BY <2>1, HistoryIsTheEnd DEF HistInv, RotInv
    <2>3. Ev!ReadsTheLast
      BY <2>1 DEF HistInv, ReadInv, Undisturbed, Ev!ReadsTheLast
    <2>4. QED
      BY <2>2, <2>3
  <1>2. HistInv /\ [Ev!LogNext]_(Ev!allVars)
          => [\A f \in DOMAIN history_disk \ {MaxFiles} :
                \E g \in DOMAIN history_disk' : Ev!IsPrefix(history_disk[f], history_disk'[g])]_(Ev!vars)
    BY HistKeeps DEF Spared
  <1>3. QED
    BY <1>1, <1>2, HistoryInvariant, PTL DEF Ev!HistoryIsKept, Ev!OnlyTheOldestGoes

(***************************************************************************)
(* All in one behaviour of what the program keeps.                        *)
(***************************************************************************)
\* A behaviour is one of each of the parts, which starts as the part does and takes its
\* steps or none.
LEMMA PartsOfTheFiles ==
  AllSpec => /\ Spec /\ Pu!Spec /\ Sk!Spec /\ Re!Spec /\ Up!Spec /\ Cf!Spec
             /\ Ev!LogInit /\ [][Ev!LogNext]_(Ev!allVars)
  <1>1. AllInit => /\ Init /\ Pu!Init /\ Sk!Init /\ Re!Init /\ Up!Init /\ Cf!Init
                   /\ Ev!LogInit
    <2>1. AllInit => Init /\ Ev!LogInit
      BY DEF AllInit
    <2>2. AllInit => Re!Init /\ Up!Init
      BY DEF AllInit
    <2>3. AllInit => Pu!Init /\ Sk!Init /\ Cf!Init
      BY DEF AllInit
    <2>4. QED
      BY <2>1, <2>2, <2>3
  <1>2. [AllNext]_all => [Pu!Next]_Pu!vars
    BY DEF AllNext, all, pushVars, Pu!vars
  <1>3. [AllNext]_all => [Sk!Next]_Sk!vars
    BY DEF AllNext, all, sinkVars, Sk!vars
  <1>4. [AllNext]_all => [Re!Next]_Re!vars
    BY DEF AllNext, all, restartVars, Re!vars
  <1>5. [AllNext]_all => [Up!Next]_Up!vars
    BY DEF AllNext, all, updatesVars, Up!vars
  <1>6. [AllNext]_all => [Cf!Next]_Cf!vars
    BY DEF AllNext, all, configVars, Cf!vars
  <1>7. [AllNext]_all => [Next]_vars
    BY DEF AllNext, all
  <1>8. [AllNext]_all => [Ev!LogNext]_(Ev!allVars)
    BY DEF AllNext, all, historyVars, Ev!allVars, Ev!vars, Ev!readerVars
  <1>9. QED
    BY <1>1, <1>2, <1>3, <1>4, <1>5, <1>6, <1>7, <1>8, PTL
       DEF AllSpec, Spec, Pu!Spec, Sk!Spec, Re!Spec, Up!Spec, Cf!Spec

\* What each part's invariant says of its types is what TypeOK says.
LEMMA TypesAreKept ==
  ASSUME RInv, HistInv, RestartInv, UpdatesInv, PushInv, SinkInv, sink_closed \in BOOLEAN,
         ConfigInv
  PROVE  TypesOK
  <1>0. MaxLines \in Nat
    BY FilesConstants DEF Sk!ConstantsOK
  <1>1. TypeOK
    BY DEF RInv
  <1>2. Ev!ReaderOK
    <2>1. history_older \in Seq(1 .. MaxFiles) /\ Len(history_events) <= Wanted
          /\ history_rpc \in {"idle", "list", "walk", "done", "failed"} /\ Ev!TypeOK
      BY DEF HistInv, RotInv, HistTyped, ReadInv, ReaderTyped
    <2>2. \A i \in DOMAIN history_older : history_older[i] \in 1 .. MaxFiles
      BY <2>1, ElementOfSeq, LenProperties
    <2>3. QED
      BY <2>1, <2>2 DEF Ev!ReaderOK
  <1>3. Re!TypeOK
    BY DEF RestartInv, RestartTyped, Re!TypeOK, Runs, Owners
  <1>4. Up!TypeOK
    <2>1. updates_w.rec \in Up!Records /\ updates_asked.rec \in Up!Records
      BY DEF UpdatesInv, UpdatesTyped, Watchers, Askers
    <2>2. /\ updates_world \in Worlds /\ updates_ledger \in Up!Records
          /\ updates_said \subseteq Published
      BY DEF UpdatesInv, UpdatesTyped
    <2>3. QED
      BY <2>1, <2>2 DEF Up!TypeOK, Worlds
  <1>5. Pu!TypeOK
    <2>1. push_disk.key \in 0 .. MaxKeys /\ push_disk.subs \subseteq Pu!Subs
      BY DEF PushInv, PushTyped, Disks
    <2>2. /\ push_laptop.at \in {"down", "writing", "store", "up", "without"}
          /\ push_laptop.key \in 0 .. MaxKeys /\ push_laptop.subs \subseteq Pu!Subs
          /\ push_offered \subseteq Pu!Subs
      BY DEF PushInv, PushTyped, Laptops
    <2>3. ASSUME NEW r \in Pu!Rounds
          PROVE  push_rounds[r].all \subseteq Pu!Subs /\ push_rounds[r].hung \in 0 .. Budget
      <3>1. push_rounds[r] \in Messages
        BY DEF PushInv, PushTyped
      <3>2. QED
        BY <3>1 DEF Messages
    <2>4. QED
      BY <2>1, <2>2, <2>3 DEF Pu!TypeOK
  <1>6. Sk!TypeOK
    <2>1. SinkTyped /\ HandsOK /\ InOrder
      BY DEF SinkInv
    <2>2. PICK f : IsTotal(f, sink_out) /\ sink_offered = f[Len(sink_out)] + Rest
      BY DEF SinkInv, Accounted
    <2>3. f[Len(sink_out)] \in Nat
      <3>1. Len(sink_out) \in 0 .. Len(sink_out)
        BY <2>1 DEF SinkTyped
      <3>2. QED
        BY <2>2, <3>1 DEF IsTotal
    <2>4. /\ Sk!One(sink_held) \in Nat /\ Sk!One(sink_adding) \in Nat
          /\ Len(sink_queue) \in Nat
      BY <2>1 DEF Sk!One, SinkTyped
    <2>5. /\ sink_offered \in 0 .. MaxLines /\ MaxLines \in Nat
          /\ sink_dropped \in Nat /\ sink_count \in Nat /\ sink_gone \in Nat
          /\ sink_adding \in Nat /\ sink_held \in Nat
          /\ sink_held <= sink_offered /\ sink_adding <= sink_offered
      BY <1>0, <2>1 DEF SinkTyped, InOrder
    <2>6. /\ sink_dropped \in 0 .. MaxLines /\ sink_count \in 0 .. MaxLines
          /\ sink_gone \in 0 .. MaxLines
      <3>1. Rest \in Nat
        BY <2>4, <2>5 DEF Rest
      <3>. DEFINE total == f[Len(sink_out)]
      <3>3. total \in Nat /\ sink_offered = total + Rest
        BY <2>2, <2>3
      <3>. HIDE DEF total
      <3>4. Rest <= MaxLines
        BY <2>5, <3>1, <3>3
      <3>2. sink_dropped <= Rest /\ sink_count <= Rest /\ sink_gone <= Rest
        BY <2>4, <2>5 DEF Rest
      <3>5. QED
        BY <2>5, <3>1, <3>2, <3>4
    <2>7. \A i \in DOMAIN sink_queue : sink_queue[i] \in 1 .. MaxLines
      BY <2>1, <2>5 DEF InOrder
    <2>8. QED
      BY <2>1, <2>5, <2>6, <2>7 DEF SinkTyped, HandsOK, Sk!TypeOK
  <1>7. Cf!TypeOK
    <2>1. \A f \in Cf!Fields : Cf!Acceptable(f, config_cfg[f])
      BY DEF ConfigInv, Good
    <2>2. /\ \A f \in Cf!StartOnly : Cf!Acceptable(f, config_running[f])
          /\ config_told \subseteq {"port", "endpoint refused", "location"}
          /\ config_isSaved \in BOOLEAN /\ config_changes \in 0 .. MaxMessages
      BY DEF ConfigInv
    <2>3. QED
      BY <2>1, <2>2 DEF Cf!TypeOK
  <1>8. QED
    BY <1>1, <1>2, <1>3, <1>4, <1>5, <1>6, <1>7 DEF TypesOK

\* Whatever the program keeps is in a state its program can be in, whichever part runs.
\* (replace.go, rotate.go, startup.go, watcher.go, store.go, logsink.go, config.go.)
THEOREM FilesTypesHold == AllSpec => []TypesOK
  <1>1. /\ ConstantsOK /\ Re!ConstantsOK /\ Up!ConstantsOK /\ Pu!ConstantsOK
        /\ Sk!ConstantsOK /\ Cf!ConstantsOK /\ Ev!ConstantsOK /\ Wanted \in Nat
    BY FilesConstants DEF Ev!SomeAreWanted
  <1>2. RInv /\ HistInv /\ RestartInv /\ UpdatesInv /\ PushInv /\ SinkInv
          /\ sink_closed \in BOOLEAN /\ ConfigInv => TypesOK
    BY TypesAreKept
  <1>3. Sk!Init => sink_closed \in BOOLEAN
    BY DEF Sk!Init
  <1>4. sink_closed \in BOOLEAN /\ [Sk!Next]_Sk!vars => (sink_closed \in BOOLEAN)'
    <2>1. [Sk!Next]_Sk!vars => sink_closed' = sink_closed \/ sink_closed' = TRUE
      BY DEF Sk!Next, Sk!vars, Sk!Write, Sk!Add, Sk!Receive, Sk!Collect, Sk!Say, Sk!Put, Sk!Close,
         Sk!Return
    <2>2. QED
      BY <2>1
  <1>5. Sk!Spec => [](sink_closed \in BOOLEAN)
    BY <1>3, <1>4, PTL DEF Sk!Spec
  <1>6. QED
    BY <1>1, <1>2, <1>5, PartsOfTheFiles, ReplaceInvariant, HistoryInvariant, RestartInvariant,
       UpdatesInvariant, PushInvariant, SinkInvariant, ConfigInvariant, PTL

\* The files hold the end of what was written, whatever fails in the middle of a rotation;
\* only the oldest file goes, none outgrows the limit, and the console shows the last
\* events: in a run of what the program keeps.  (rotate.go, eventlog.go.)
THEOREM HistoryIsKeptHolds == AllSpec => HistoryIsKept
  <1>1. Ev!ConstantsOK /\ Wanted \in Nat
    BY FilesConstants DEF Ev!SomeAreWanted
  <1>2. QED
    BY <1>1, PartsOfTheFiles, HistoryHolds, PTL DEF HistoryIsKept

\* Every phone of a round has been told when the round is over, or has an excuse of its
\* own, and no subscription the push service still serves is forgotten.  (notifier.go,
\* store.go.)
THEOREM PhonesAreToldHolds == AllSpec => []PhonesAreTold
  <1>1. Pu!ConstantsOK
    BY FilesConstants
  <1>2. AllSpec => []Pu!PhonesAreTold
    BY <1>1, PartsOfTheFiles, AllAreToldHolds, PTL
  <1>3. Pu!PhonesAreTold => PhonesAreTold
    BY DEF PhonesAreTold
  <1>4. QED
    BY <1>2, <1>3, PTL

\* Of the lines the program logged, each is written, waiting, or counted as dropped, in
\* order, and a gap is said where it is.  (logsink.go.)
THEOREM LogIsHonestHolds == AllSpec => []LogIsHonest
  <1>1. Sk!ConstantsOK
    BY FilesConstants
  <1>2. AllSpec => []Sk!LogIsHonest
    BY <1>1, PartsOfTheFiles, LinesAreAccountedHolds, PTL
  <1>3. Sk!LogIsHonest => LogIsHonest
    BY DEF LogIsHonest
  <1>4. QED
    BY <1>2, <1>3, PTL

\* A watch that was on is never passed over in silence by a start, the port and the key
\* are those of the runs before, and the count of a restored watch goes on: in a run of
\* what the program keeps.  (startup.go, state.go, keyfile.go.)
THEOREM RestartRemembersHolds == AllSpec => RestartRemembers
  <1>1. Re!ConstantsOK
    BY FilesConstants
  <1>2. QED
    BY <1>1, PartsOfTheFiles, RestartsRemember, PTL DEF RestartRemembers

\* A release is announced before it is taken for known, announced once, and asked for no
\* more often than the floor allows: in a run of what the program keeps.  (watcher.go,
\* ledger.go.)
THEOREM ReleasesAreSaidHolds == AllSpec => ReleasesAreSaid
  <1>1. Up!ConstantsOK
    BY FilesConstants
  <1>2. QED
    BY <1>1, PartsOfTheFiles, ReleasesAreTold, PTL DEF ReleasesAreSaid

\* The file keeps what was chosen, and a new endpoint gets no key but the one that comes
\* with it: in a run of what the program keeps.  (config.go, applyGeolocateURL.)
THEOREM ConfigIsKeptHolds == AllSpec => ConfigIsKept
  <1>1. Cf!ConstantsOK
    BY FilesConstants
  <1>2. QED
    BY <1>1, PartsOfTheFiles, ConfigKeeps, PTL DEF ConfigIsKept
=============================================================================
