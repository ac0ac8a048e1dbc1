------------------------------ MODULE Replace -------------------------------
(***************************************************************************)
(* How the program replaces a small file: the new contents are written to  *)
(* a temporary file, which is renamed over the old one.  Five files of the *)
(* config directory are written this way, with differences: which steps,   *)
(* whether the contents are synced first, whether a lock keeps saves apart *)
(* or a name of its own for each temporary file, and whether a failure     *)
(* removes it.  (internal/config: Save; internal/state: Store.write;       *)
(* internal/update: Ledger.Save; internal/endpoint: Publish;               *)
(* internal/push: saveLocked.)                                             *)
(*                                                                         *)
(* The other modules take such a save for one step that succeeds or fails; *)
(* this one shows that they may (WholeFile).                               *)
(***************************************************************************)
EXTENDS Integers, Sequences, FiniteSets

CONSTANTS
  Savers,     \* the goroutines that may be saving
  Values,     \* what there is to save
  Writers,    \* which of the five files
  PowerFails, \* the writers that are tried with a loss of power as well
  Names,      \* the names of temporary files
  MaxFaults,  \* how many steps fail, and crashes there are, in a run
  None

VARIABLES
  writer,  \* the file this is about
  pc,      \* each saver: 0, or the step it is at, or -1 while it cleans up
  value,   \* what each is saving
  name,    \* the temporary file each is using
  temp,    \* the temporary files
  file,    \* the file
  before,  \* the file it replaced
  left,    \* temporary files that a crash left behind
  faults

vars == <<writer, pc, value, name, temp, file, before, left, faults>>

Half == "half"
Steps ==
  [config        |-> <<"create", "chmod", "write", "sync", "close", "rename">>,
   state         |-> <<"create", "chmod", "write", "sync", "close", "rename">>,
   ledger        |-> <<"create", "chmod", "write", "close", "rename">>,
   endpoint      |-> <<"create", "write", "close", "chmod", "rename">>,
   subscriptions |-> <<"create", "write", "chmod", "rename">>]

\* A mutex, or a single call in a start, keeps two saves of these apart.
Alone == {"state", "ledger", "endpoint", "subscriptions"}

\* The temporary file has one name, and stays where it is when a step fails.
Fixed == {"subscriptions"}
TheName == CHOOSE n \in Names : TRUE

\* What is written is on the disk before it is renamed.
Synced == {"config", "state"}

NoFile == [in |-> None, synced |-> FALSE]
Files == [in : Values \cup {Half}, synced : BOOLEAN]

\* What the constants have to be; the power fails only for the writers that sync.
ConstantsOK ==
  /\ Writers \subseteq DOMAIN Steps
  /\ Names # {} /\ None \notin Names
  /\ None \notin Values /\ Half \notin Values /\ None # Half
  /\ PowerFails \subseteq Synced
  /\ MaxFaults \in Nat

TypeOK ==
  /\ writer \in Writers
  /\ pc \in [Savers -> -1 .. 6] /\ value \in [Savers -> Values \cup {None}]
  /\ name \in [Savers -> Names \cup {None}]
  /\ temp \in [Names -> Files \cup {NoFile}] /\ file \in Files /\ before \in Files
  /\ left \subseteq Names /\ faults \in 0 .. MaxFaults

Init ==
  /\ writer \in Writers
  /\ pc = [s \in Savers |-> 0] /\ value = [s \in Savers |-> None]
  /\ name = [s \in Savers |-> None]
  /\ temp = [n \in Names |-> NoFile]
  /\ file \in [in : Values, synced : {TRUE}] /\ before = file
  /\ left = {} /\ faults = 0

-----------------------------------------------------------------------------
Fault == faults < MaxFaults /\ faults' = faults + 1

At(s, step) == pc[s] > 0 /\ Steps[writer][pc[s]] = step
Advance(s) == pc' = [pc EXCEPT ![s] = @ + 1]
Idle(s) == /\ pc' = [pc EXCEPT ![s] = 0] /\ value' = [value EXCEPT ![s] = None]
           /\ name' = [name EXCEPT ![s] = None]

Save(s, v) ==
  /\ pc[s] = 0
  /\ writer \in Alone => \A t \in Savers : pc[t] = 0
  /\ pc' = [pc EXCEPT ![s] = 1] /\ value' = [value EXCEPT ![s] = v]
  /\ UNCHANGED <<writer, name, temp, file, before, left, faults>>

\* Mutant: the name of the temporary file is made of the file's own.
SameName == {TheName}

\* os.CreateTemp takes a name nobody has, and os.WriteFile empties the file of that name.
NewNames == IF writer \in Fixed THEN {TheName} ELSE {n \in Names : temp[n] = NoFile}

Create(s) ==
  /\ At(s, "create") /\ Advance(s)
  /\ \E n \in NewNames :
       /\ name' = [name EXCEPT ![s] = n]
       /\ temp' = [temp EXCEPT ![n] = [in |-> Half, synced |-> FALSE]]
       /\ left' = left \ {n}
  /\ UNCHANGED <<writer, value, file, before, faults>>

Write(s) ==
  /\ At(s, "write") /\ Advance(s)
  /\ temp' = [temp EXCEPT ![name[s]].in = value[s]]
  /\ UNCHANGED <<writer, value, name, file, before, left, faults>>

Sync(s) ==
  /\ At(s, "sync") /\ Advance(s)
  /\ temp' = [temp EXCEPT ![name[s]].synced = TRUE]
  /\ UNCHANGED <<writer, value, name, file, before, left, faults>>

\* Close and Chmod change nothing a reader sees.
Prepare(s) ==
  /\ At(s, "chmod") \/ At(s, "close")
  /\ Advance(s)
  /\ UNCHANGED <<writer, value, name, temp, file, before, left, faults>>

Rename(s) ==
  /\ At(s, "rename")
  /\ file' = temp[name[s]] /\ before' = file
  /\ temp' = [temp EXCEPT ![name[s]] = NoFile]
  /\ Idle(s)
  /\ UNCHANGED <<writer, left, faults>>

\* A step fails, whichever it is, and with it the save.
Fail(s) ==
  /\ pc[s] > 0 /\ Fault
  /\ IF name[s] = None THEN Idle(s)
     ELSE pc' = [pc EXCEPT ![s] = -1] /\ UNCHANGED <<value, name>>
  /\ UNCHANGED <<writer, temp, file, before, left>>

\* Mutant: what failed is left where it is.
LeaveIt(s) ==
  /\ pc[s] = -1 /\ Idle(s)
  /\ UNCHANGED <<writer, temp, file, before, left, faults>>

\* The deferred Remove.
Remove(s) ==
  /\ pc[s] = -1 /\ Idle(s)
  /\ temp' = IF writer \in Fixed THEN temp ELSE [temp EXCEPT ![name[s]] = NoFile]
  /\ UNCHANGED <<writer, file, before, left, faults>>

\* The program stops.  With the power, what was not synced may go as well, and so may
\* the last rename: the directory is not synced.
Lose(f) == IF f = NoFile \/ f.synced \/ writer \notin PowerFails THEN {f}
           ELSE {f, [f EXCEPT !.in = Half]}

Crash ==
  /\ Fault
  /\ pc' = [s \in Savers |-> 0] /\ value' = [s \in Savers |-> None]
  /\ name' = [s \in Savers |-> None]
  /\ file' \in Lose(file) \cup (IF writer \in PowerFails THEN Lose(before) ELSE {})
  /\ before' = file'
  /\ left' = left \cup {n \in Names : temp[n] # NoFile}
  /\ UNCHANGED <<writer, temp>>

Next ==
  \/ \E s \in Savers :
       \/ \E v \in Values : Save(s, v)
       \/ Create(s) \/ Write(s) \/ Sync(s) \/ Prepare(s) \/ Rename(s) \/ Fail(s) \/ Remove(s)
  \/ Crash

Spec == Init /\ [][Next]_vars

-----------------------------------------------------------------------------
Whole == INSTANCE WholeFile
  WITH file <- file.in, before <- before.in,
       pending <- [s \in Savers |-> IF pc[s] > 0 THEN value[s] ELSE None]

\* A reader finds what was there before or what was to be saved, never a part of
\* either, wherever the program is stopped and whoever saves at the same time; a
\* save that failed has changed nothing.  Power may be lost as well, for the files
\* that are synced.  (config.Save, Store.write, Ledger.Save, Publish, saveLocked.)
ReplacesWhole == Whole!Spec

\* What a failed save leaves in the config directory is removed again; only a crash
\* leaves a temporary file, and push-subscriptions.json its one.  (Publish: "rather
\* than leaving it in the config directory for the rest of the installation's life".)
NothingIsLeft ==
  [][\A n \in Names : temp'[n] # NoFile =>
       n \in left' \/ writer \in Fixed \/ \E s \in Savers : name'[s] = n]_vars

\* Together: a file is old or new, and there is no third one.
FilesAreWhole == NothingIsLeft /\ ReplacesWhole

\* Losing power leaves the file that was there.  Violated for the subscriptions,
\* which are renamed into place without having been synced.  (saveLocked: "a laptop
\* that loses power mid-write still has the subscriptions it had before".)
SurvivesPowerLoss == file.in # Half
=============================================================================
