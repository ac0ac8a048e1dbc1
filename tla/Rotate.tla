------------------------------- MODULE Rotate -------------------------------
(***************************************************************************)
(* The log file that rotates on size (internal/rotate/rotate.go), under    *)
(* the event log that records when the machine was armed and why it        *)
(* alarmed.  File 0 is the live file, file n its nth generation.           *)
(*                                                                         *)
(* The writer's lock covers a rotation, but the file system does not: a    *)
(* rotation is several calls, each of which may fail, the process may die  *)
(* between any two of them, and readers do not take the lock.              *)
(*                                                                         *)
(* Left out: permissions, and everything about a record but its length.    *)
(***************************************************************************)
EXTENDS Naturals, Sequences, SequencesExt

CONSTANTS
  MaxBytes,   \* Options.MaxBytes
  MaxFiles,   \* Options.MaxFiles after withDefaults: 0 keeps no generation
  Lengths,    \* the lengths of the records
  MaxRecords, \* bound on the records written
  MaxFaults,  \* bound on the file system's failures and the process's deaths
  MayTear     \* whether a write that fails may leave part of its record

\* What they have to be.
ConstantsOK ==
  /\ MaxBytes \in Nat \ {0} /\ MaxFiles \in Nat
  /\ MaxRecords \in Nat /\ MaxFaults \in Nat
  /\ Lengths \subseteq Nat \ {0} /\ MayTear \in BOOLEAN

VARIABLES
  disk,     \* the files there are, as sequences of records
  handle,   \* Writer.file: "nil", "open", or "shut" when closing it failed
  size,     \* Writer.size
  pc,       \* where the holder of the writer's lock is
  at,       \* the generation a rotation is about to shift
  pending,  \* the record Write was called with
  kept,     \* the records whose Write succeeded, in order
  tried,    \* how many records Write was given
  faults    \* how much has gone wrong

vars == <<disk, handle, size, pc, at, pending, kept, tried, faults>>

Files == 0 .. MaxFiles
Record == [id : 1 .. MaxRecords, len : Lengths]
Torn == [id |-> 0, len |-> 1]

Bytes(file) ==
  LET upTo[i \in 0 .. Len(file)] == IF i = 0 THEN 0 ELSE upTo[i - 1] + file[i].len
  IN  upTo[Len(file)]

\* The elements of a sequence that are in a set, in their order.
Picked(s, S) ==
  LET upTo[i \in 0 .. Len(s)] ==
        IF i = 0 THEN <<>>
        ELSE IF s[i] \in S THEN Append(upTo[i - 1], s[i]) ELSE upTo[i - 1]
  IN  upTo[Len(s)]

\* What a reader of the file makes of it: a record that was appended to a torn
\* one shares its line and is no record any more.
Readable(file) ==
  LET good(i) == file[i] # Torn /\ (i > 1 => file[i - 1] # Torn)
  IN  Picked([i \in DOMAIN file |-> IF good(i) THEN file[i] ELSE Torn], Record)

Whole(file) == Picked(file, Record)

File(n) == IF n \in DOMAIN disk THEN disk[n] ELSE <<>>

OldestFirst(view(_)) ==
  FlattenSeq([i \in 1 .. MaxFiles + 1 |-> view(File(MaxFiles + 1 - i))])

\* Every record in the files, and every record a reader could make out.
History == OldestFirst(Whole)
Legible == OldestFirst(Readable)

Without(n) == [f \in DOMAIN disk \ {n} |-> disk[f]]

\* os.Rename, which replaces its target and ignores a missing source.
Renamed(from, to) ==
  IF from \in DOMAIN disk
  THEN [f \in (DOMAIN disk \ {from}) \cup {to} |->
          IF f = to THEN disk[from] ELSE disk[f]]
  ELSE disk

TypeOK ==
  /\ DOMAIN disk \subseteq Files
  /\ \A f \in DOMAIN disk : disk[f] \in Seq(Record \cup {Torn})
  /\ handle \in {"nil", "open", "shut"}
  /\ pc \in {"idle", "close", "remove", "shift", "retire", "open", "append", "down"}
  /\ at \in 0 .. MaxFiles
  /\ pending \in Record \cup {Torn}
  /\ tried \in 0 .. MaxRecords /\ faults \in 0 .. MaxFaults
  /\ handle = "open" => 0 \in DOMAIN disk /\ size = Bytes(disk[0])

Init ==
  /\ disk = [f \in {0} |-> <<>>] /\ handle = "open" /\ size = 0
  /\ pc = "idle" /\ at = 0 /\ pending = Torn
  /\ kept = <<>> /\ tried = 0 /\ faults = 0

Goto(from, to) == pc = from /\ pc' = to

CanFail == faults < MaxFaults /\ faults' = faults + 1

-----------------------------------------------------------------------------
\* Mutant: the record itself is not counted.
NeedsRotationLate(r) == size > MaxBytes

NeedsRotation(r) == size > 0 /\ size + r.len > MaxBytes

\* Write, under the lock: the record goes to the live file, or a rotation comes
\* first, or there is no file and it goes nowhere.
Write ==
  /\ pc = "idle" /\ tried < MaxRecords
  /\ tried' = tried + 1
  /\ pending' \in [id : {tried + 1}, len : Lengths]
  /\ pc' = IF handle = "nil" THEN "idle"
           ELSE IF NeedsRotation(pending') THEN "close" ELSE "append"
  /\ UNCHANGED <<disk, handle, size, at, kept, faults>>

\* rotateLocked begins by closing the file, and gives up if that fails.
CloseLive ==
  /\ \/ handle = "open" /\ Goto("close", "remove") /\ handle' = "nil" /\ UNCHANGED faults
     \/ handle = "open" /\ Goto("close", "append") /\ handle' = "shut" /\ CanFail
     \/ handle = "shut" /\ Goto("close", "append") /\ UNCHANGED <<handle, faults>>
  /\ UNCHANGED <<disk, size, at, pending, kept, tried>>

\* Mutant: a generation that cannot be renamed is skipped.
RetireAnyway ==
  /\ pc \in {"remove", "shift", "retire", "open"}
  /\ CanFail
  /\ pc' = IF pc = "shift" THEN "retire" ELSE "append"
  /\ UNCHANGED <<disk, handle, size, at, pending, kept, tried>>

\* A step of the rotation failed: Write goes on to writeLocked.
GiveUp ==
  /\ pc \in {"remove", "shift", "retire", "open"}
  /\ CanFail
  /\ pc' = "append"
  /\ UNCHANGED <<disk, handle, size, at, pending, kept, tried>>

\* The oldest generation, or the live file if none are kept, is removed.
RemoveOldest ==
  /\ pc = "remove"
  /\ disk' = Without(MaxFiles)
  /\ pc' = IF MaxFiles = 0 THEN "open" ELSE IF MaxFiles = 1 THEN "retire" ELSE "shift"
  /\ at' = IF MaxFiles = 0 THEN 0 ELSE MaxFiles - 1
  /\ UNCHANGED <<handle, size, pending, kept, tried, faults>>

\* Mutant: the loop ends one generation early.
ShiftAllButOne ==
  /\ pc = "shift"
  /\ disk' = Renamed(at, at + 1)
  /\ at' = at - 1
  /\ pc' = IF at <= 2 THEN "retire" ELSE "shift"
  /\ UNCHANGED <<handle, size, pending, kept, tried, faults>>

Shift ==
  /\ pc = "shift"
  /\ disk' = Renamed(at, at + 1)
  /\ at' = at - 1
  /\ pc' = IF at = 1 THEN "retire" ELSE "shift"
  /\ UNCHANGED <<handle, size, pending, kept, tried, faults>>

\* The live file becomes generation 1.
RetireLive ==
  /\ Goto("retire", "open")
  /\ disk' = Renamed(0, 1)
  /\ UNCHANGED <<handle, size, at, pending, kept, tried, faults>>

\* open attaches to the live file, creating it, and measures it.
OpenLive ==
  /\ handle' = "open"
  /\ disk' = [f \in DOMAIN disk \cup {0} |-> File(f)]
  /\ size' = Bytes(File(0))

Reopen ==
  /\ Goto("open", "append")
  /\ OpenLive
  /\ UNCHANGED <<at, pending, kept, tried, faults>>

\* writeLocked.  A file that is not open takes nothing; a full disk may take a
\* part.
WriteLocked ==
  /\ Goto("append", "idle")
  /\ \/ /\ handle = "open"
        /\ disk' = [disk EXCEPT ![0] = Append(@, pending)]
        /\ size' = size + pending.len
        /\ kept' = Append(kept, pending)
        /\ UNCHANGED faults
     \/ /\ handle # "open"
        /\ UNCHANGED <<disk, size, kept, faults>>
     \/ /\ handle = "open" /\ MayTear /\ pending.len > 1 /\ CanFail
        /\ disk' = [disk EXCEPT ![0] = Append(@, Torn)]
        /\ size' = size + 1
        /\ UNCHANGED kept
  /\ UNCHANGED <<handle, at, pending, tried>>

\* The owner closes the log: shutdown, or the end of a process.
Close ==
  /\ Goto("idle", "down")
  /\ handle' = "nil"
  /\ UNCHANGED <<disk, size, at, pending, kept, tried, faults>>

\* The process dies, between any two steps, and a new one opens the log.
Crash ==
  /\ pc # "down" /\ CanFail
  /\ pc' = "down" /\ handle' = "nil"
  /\ UNCHANGED <<disk, size, at, pending, kept, tried>>

Open ==
  /\ Goto("down", "idle")
  /\ OpenLive
  /\ UNCHANGED <<at, pending, kept, tried, faults>>

Next ==
  \/ Write \/ CloseLive \/ GiveUp \/ RemoveOldest \/ Shift \/ RetireLive \/ Reopen
  \/ WriteLocked \/ Close \/ Crash \/ Open

Spec == Init /\ [][Next]_vars

-----------------------------------------------------------------------------
\* What the files hold, read oldest first, is the end of what was ever written:
\* whatever fails or dies in the middle of a rotation, no record is out of
\* order, there twice, or missing between two that are there.  (rotateLocked.)
HistoryIsASuffix == IsSuffix(History, kept)

\* The only records a step may take away are those of the oldest generation, or
\* of the live file when no generation is kept.  (rotateLocked.)
OnlyTheOldestGoes ==
  [][ \A f \in DOMAIN disk \ {MaxFiles} :
        \E g \in DOMAIN disk' : IsPrefix(disk[f], disk'[g]) ]_vars

\* No file outgrows its limit, except to hold one record that is larger than the
\* limit by itself.  (Write, DefaultMaxBytes.)
FilesAreBounded ==
  \A f \in DOMAIN disk : Bytes(disk[f]) <= MaxBytes \/ Len(disk[f]) = 1

(***************************************************************************)
(* What the source says, and what the code does not keep.                  *)
(***************************************************************************)

\* "Rotation failing is not a reason to lose the record.  Keep appending to the
\* file we already have": a log nobody closed has a file between two writes.
LogStaysOpen == pc = "idle" => handle = "open"

\* "A torn write at the tail of the file ... Skip it; the rest is still history":
\* every record that was written and is in the files can be read.
RestIsHistory == \A f \in DOMAIN disk : Readable(disk[f]) = Whole(disk[f])
=============================================================================
