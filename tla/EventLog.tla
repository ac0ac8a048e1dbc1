------------------------------ MODULE EventLog ------------------------------
(***************************************************************************)
(* The event log and the console's "logs" command, which reads its last    *)
(* events back (internal/eventlog/eventlog.go) while events are written    *)
(* and the file is rotated under it.  The logger's mutex and the writer's  *)
(* keep the writers apart; the reader takes neither.                       *)
(*                                                                         *)
(* Left out: the windows tailEvents reads a file by.  It returns the last  *)
(* events of the file it opened, and a rename does not change that file.   *)
(***************************************************************************)
EXTENDS Rotate

CONSTANT Wanted   \* how many events are asked for

SomeAreWanted == Wanted \in Nat \ {0}

VARIABLES
  rpc,     \* where the reader is
  older,   \* the generations it has found and not read, newest first
  events,  \* what it has
  answer   \* what an undisturbed reader returns, or <<Torn>> once a rotation
           \* has moved a file under this one

readerVars == <<rpc, older, events, answer>>
allVars == <<vars, readerVars>>

\* Mutant: off by one.
LastOfAndOne(n, s) ==
  IF Len(s) <= n THEN s ELSE SubSeq(s, Len(s) - n, Len(s))

LastOf(n, s) == IF Len(s) <= n THEN s ELSE SubSeq(s, Len(s) - n + 1, Len(s))

LogInit ==
  /\ Init
  /\ rpc = "idle" /\ older = <<>> /\ events = <<>> /\ answer = <<>>

ReaderOK ==
  /\ TypeOK
  /\ rpc \in {"idle", "list", "walk", "done", "failed"}
  /\ \A i \in DOMAIN older : older[i] \in 1 .. MaxFiles
  /\ Len(events) <= Wanted

\* readLast begins with the live file, and fails if there is none.
ReadLive ==
  /\ rpc = "idle" /\ pc # "down"
  /\ IF 0 \in DOMAIN disk
     THEN rpc' = "list" /\ events' = LastOf(Wanted, Readable(disk[0]))
     ELSE rpc' = "failed" /\ events' = <<>>
  /\ answer' = LastOf(Wanted, Legible)
  /\ UNCHANGED <<vars, older>>

\* Generations: the ones that exist, the newest first.
Generations ==
  /\ rpc = "list" /\ rpc' = "walk"
  /\ older' = Picked([i \in 1 .. MaxFiles |-> i], DOMAIN disk)
  /\ UNCHANGED <<vars, events, answer>>

\* Mutant: what a generation holds goes after what is already there.
ReadOlderAfter ==
  /\ rpc = "walk" /\ older # <<>> /\ Len(events) < Wanted
  /\ events' = events \o LastOf(Wanted - Len(events), Readable(File(Head(older))))
  /\ older' = Tail(older)
  /\ UNCHANGED <<vars, rpc, answer>>

\* Each batch goes in front; a generation that is gone is skipped.
ReadOlder ==
  /\ rpc = "walk" /\ older # <<>> /\ Len(events) < Wanted
  /\ events' = LastOf(Wanted - Len(events), Readable(File(Head(older)))) \o events
  /\ older' = Tail(older)
  /\ UNCHANGED <<vars, rpc, answer>>

Answer ==
  /\ rpc = "walk" /\ (older = <<>> \/ Len(events) >= Wanted)
  /\ rpc' = "done"
  /\ UNCHANGED <<vars, older, events, answer>>

AskAgain ==
  /\ rpc \in {"done", "failed"} /\ rpc' = "idle"
  /\ older' = <<>> /\ events' = <<>> /\ answer' = <<>>
  /\ UNCHANGED vars

\* A step of the writer.  One that moves files disturbs a reader on its way, and
\* a process that ends takes its reader along.
Log ==
  /\ Next
  /\ rpc' = IF pc' = "down" /\ rpc # "idle" THEN "failed" ELSE rpc
  /\ UNCHANGED <<older, events>>
  /\ answer' = IF rpc \in {"list", "walk"} /\ (RemoveOldest \/ Shift \/ RetireLive)
               THEN <<Torn>> ELSE answer

LogNext == Log \/ ReadLive \/ Generations \/ ReadOlder \/ Answer \/ AskAgain

-----------------------------------------------------------------------------
\* A reader that no rotation overtakes returns the last events that were in the
\* log when it began, the oldest first, across however many generations they
\* are spread, and no more than it was asked for.  (readLast.)
ReadsTheLast ==
  (rpc = "done" /\ answer # <<Torn>>) => events = answer

\* Together: the history is what was written, without what the limits cost it, and what
\* is read is the end of it.
HistoryIsKept ==
  [](HistoryIsASuffix /\ FilesAreBounded /\ ReadsTheLast) /\ OnlyTheOldestGoes

(***************************************************************************)
(* What the source says, and what the code does not keep.                  *)
(***************************************************************************)

\* "ReadLast returns the most recent n events for path, oldest first": each of
\* them is there once, after the one before it.
InOrder ==
  rpc = "done" => \A i, j \in DOMAIN events : i < j => events[i].id < events[j].id
=============================================================================
