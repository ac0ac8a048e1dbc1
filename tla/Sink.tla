-------------------------------- MODULE Sink --------------------------------
(***************************************************************************)
(* The queue between the logger and what it writes to: a line that finds   *)
(* it full is dropped and counted, and the goroutine that empties it says  *)
(* how many were.  The logger writes one line at a time, and what it       *)
(* writes to may fail, or never return.  (internal/logsink/logsink.go.)    *)
(*                                                                         *)
(* A line is the number of the call that brought it.                       *)
(***************************************************************************)
EXTENDS Integers, Sequences

CONSTANTS Depth, MaxLines

\* What the proofs ask of them: a queue of at least one line.
ConstantsOK == Depth \in Nat \ {0} /\ MaxLines \in Nat

VARIABLES
  queue,    \* Writer.lines
  dropped,  \* Writer.dropped
  offered,  \* how many lines the logger has written
  adding,   \* the line that found the queue full and is not counted yet, or 0
  held,     \* the line run has in its hands, or 0
  pc,       \* run: "waiting", "taken", "saying", "writing", "done"
  count,    \* what run is saying
  closed,   \* Writer.done
  out,      \* what was written: lines, and notices of how many are missing
  gone      \* lines lost by a failed write, or offered after Close

vars == <<queue, dropped, offered, adding, held, pc, count, closed, out, gone>>

Line(n) == [line |-> n, missing |-> 0]
Notice(n) == [line |-> 0, missing |-> n]

TypeOK ==
  /\ offered \in 0 .. MaxLines /\ adding \in 0 .. MaxLines /\ held \in 0 .. MaxLines
  /\ dropped \in 0 .. MaxLines /\ count \in 0 .. MaxLines /\ gone \in 0 .. MaxLines
  /\ pc \in {"waiting", "taken", "saying", "writing", "done"} /\ closed \in BOOLEAN
  /\ Len(queue) <= Depth
  /\ \A i \in DOMAIN queue : queue[i] \in 1 .. MaxLines
  /\ \A i \in DOMAIN out : (out[i].line = 0) # (out[i].missing = 0)

Init ==
  /\ queue = <<>> /\ out = <<>>
  /\ dropped = 0 /\ offered = 0 /\ adding = 0 /\ held = 0 /\ count = 0 /\ gone = 0
  /\ pc = "waiting" /\ closed = FALSE

-----------------------------------------------------------------------------
\* Write: of the cases that are ready one is taken, and the default if none is.
Write ==
  /\ adding = 0 /\ offered < MaxLines /\ offered' = offered + 1
  /\ \/ /\ Len(queue) < Depth
        /\ queue' = Append(queue, offered') /\ UNCHANGED <<adding, gone>>
     \/ /\ closed
        /\ gone' = gone + 1 /\ UNCHANGED <<queue, adding>>
     \/ /\ Len(queue) = Depth /\ ~closed
        /\ adding' = offered' /\ UNCHANGED <<queue, gone>>
  /\ UNCHANGED <<dropped, held, pc, count, closed, out>>

Add ==
  /\ adding # 0 /\ adding' = 0 /\ dropped' = dropped + 1
  /\ UNCHANGED <<queue, offered, held, pc, count, closed, out, gone>>

-----------------------------------------------------------------------------
\* run takes a line.
Receive ==
  /\ pc = "waiting" /\ queue # <<>> /\ pc' = "taken"
  /\ held' = Head(queue) /\ queue' = Tail(queue)
  /\ UNCHANGED <<dropped, offered, adding, count, closed, out, gone>>

\* Mutant: it is said only once that the log does not keep up.
CollectOnce ==
  /\ pc = "taken"
  /\ LET told == \A i \in DOMAIN out : out[i].missing = 0 IN
     /\ count' = (IF told THEN dropped ELSE 0)
     /\ dropped' = (IF told THEN 0 ELSE dropped)
     /\ pc' = IF told /\ dropped > 0 THEN "saying" ELSE "writing"
  /\ UNCHANGED <<queue, offered, adding, held, closed, out, gone>>

\* Mutant: the count is read and not cleared.
CollectUncleared ==
  /\ pc = "taken" /\ count' = dropped
  /\ pc' = IF dropped > 0 THEN "saying" ELSE "writing"
  /\ UNCHANGED <<queue, dropped, offered, adding, held, closed, out, gone>>

\* dropped.Swap(0): lines dropped since the line was taken are in it too.
Collect ==
  /\ pc = "taken" /\ count' = dropped /\ dropped' = 0
  /\ pc' = IF dropped > 0 THEN "saying" ELSE "writing"
  /\ UNCHANGED <<queue, offered, adding, held, closed, out, gone>>

\* The notice; one that fails has been taken from the count all the same.
Say ==
  /\ pc = "saying" /\ pc' = "writing" /\ count' = 0
  /\ \/ out' = Append(out, Notice(count)) /\ UNCHANGED gone
     \/ gone' = gone + count /\ UNCHANGED out
  /\ UNCHANGED <<queue, dropped, offered, adding, held, closed>>

\* Mutant: a line whose write failed is queued again.
PutRetrying ==
  /\ pc = "writing" /\ pc' = "waiting" /\ held' = 0 /\ UNCHANGED gone
  /\ \/ out' = Append(out, Line(held)) /\ UNCHANGED queue
     \/ Len(queue) < Depth /\ queue' = Append(queue, held) /\ UNCHANGED out
  /\ UNCHANGED <<dropped, offered, adding, count, closed>>

Put ==
  /\ pc = "writing" /\ pc' = "waiting" /\ held' = 0
  /\ \/ out' = Append(out, Line(held)) /\ UNCHANGED gone
     \/ gone' = gone + 1 /\ UNCHANGED out
  /\ UNCHANGED <<queue, dropped, offered, adding, count, closed>>

Close ==
  /\ ~closed /\ closed' = TRUE
  /\ UNCHANGED <<queue, dropped, offered, adding, held, pc, count, out, gone>>

\* run sees that it is closed; it may have taken lines after that.
Return ==
  /\ pc = "waiting" /\ closed /\ pc' = "done"
  /\ UNCHANGED <<queue, dropped, offered, adding, held, count, closed, out, gone>>

Next == Write \/ Add \/ Receive \/ Collect \/ Say \/ Put \/ Close \/ Return

Spec == Init /\ [][Next]_vars

-----------------------------------------------------------------------------
\* The logged lines that the first i things written stand for: a line for itself, a
\* notice for those it says are missing.
UpTo[i \in 0 .. Len(out)] ==
  IF i = 0 THEN 0 ELSE UpTo[i - 1] + (IF out[i].line # 0 THEN 1 ELSE out[i].missing)

One(n) == IF n = 0 THEN 0 ELSE 1

\* Every line that was logged is written, waiting, counted as dropped, or said to
\* be missing: none is lost between two of these, and none counted twice.  (Write
\* and run: "lines dropped while this is being written are counted against the
\* next notice rather than lost".)
EveryLineIsAccounted ==
  offered = UpTo[Len(out)] + Len(queue) + One(held) + gone + dropped + count + One(adding)

\* Lines come out in the order they were logged in.
LinesInOrder ==
  \A i, j \in DOMAIN out : (i < j /\ out[i].line # 0 /\ out[j].line # 0) =>
    out[i].line < out[j].line

\* A log that has caught up keeps at most one missing line to itself: the one that
\* found the queue full just before it was emptied.  (run: "said at all, because a
\* log that quietly leaves things out is worse".)
GapsAreSaid == (pc = "waiting" /\ queue = <<>>) => dropped <= 1

\* Together: what is missing from the log is known to be missing.
LogIsHonest == EveryLineIsAccounted /\ LinesInOrder /\ GapsAreSaid

\* A notice stands where the lines are missing: one of them came before the line
\* that follows it.  Violated: it is said before the next line of the queue, which is
\* older than they are.  (run: "Said before the line it interrupted".)
NoticeIsAtTheGap ==
  \A i \in DOMAIN out \ {1} : (out[i - 1].missing > 0 /\ out[i].line > 0) =>
    \E k \in 1 .. out[i].line - 1 : \A m \in 1 .. i - 1 : out[m].line # k
=============================================================================
