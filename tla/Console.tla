-------------------------------- MODULE Console --------------------------------
(***************************************************************************)
(* The line at the foot of the dashboard: the goroutine that reads the       *)
(* keyboard, the one that acts on a finished line, and the row the typing    *)
(* is drawn on.                                                             *)
(*                                                                         *)
(* cmd/leavesafe/input.go and the accessors of main.go it draws through     *)
(* (applyKey, takeLine, maskLine).  A character is a member of a small set:   *)
(* a letter, the space between two words, and a digit of the PIN, which the   *)
(* owner types once the prompt for it is there.  What a command does is left *)
(* out, except what it asks the keyboard for.                               *)
(***************************************************************************)
EXTENDS Integers, Sequences, SequencesExt

CONSTANTS
  Keystrokes,   \* those the owner may press, by their names
  Backlog,      \* keystrokes that may wait to be acted on
  MaxTyped, MaxFailures

VARIABLES
  input,        \* what the terminal has and nobody has read
  pump,         \* the goroutine that reads the keyboard
  keys,         \* what it has handed on, and whether it has closed the channel
  line,         \* inputLine
  reader,       \* what the console is doing: reading a line, a secret, running a command
  row,          \* what the input row shows, and whether as asterisks
  log,          \* the last line echoed above it
  count         \* keystrokes pressed and failed reads so far, whether quit was called

vars == <<input, pump, keys, line, reader, row, log, count>>

Space == "space"
Digit == "digit"
Chars == {"letter", Space, Digit}

EmptyLine == [buf |-> <<>>, pos |-> 0, history |-> <<>>, at |-> 0, draft |-> <<>>, masked |-> FALSE]

Init ==
  /\ input = <<>>
  /\ pump = "reading"
  /\ keys = [queue |-> <<>>, closed |-> FALSE]
  /\ line = EmptyLine
  /\ reader = "line"
  /\ row = [text |-> <<>>, masked |-> FALSE]
  /\ log = <<>>
  /\ count = [typed |-> 0, failed |-> 0, quit |-> FALSE]

-----------------------------------------------------------------------------
(***************************************************************************)
(* What a keystroke means.                                                 *)
(***************************************************************************)
\* The bytes of one press, as the terminals send them.
ControlKey(k) ==
  CASE k \in {"CR", "LF"} -> "enter"
    [] k \in {"DEL", "BS"} -> "backspace"
    [] k = "^A" -> "home"
    [] k = "^E" -> "end"
    [] k = "^B" -> "left"
    [] k = "^F" -> "right"
    [] k = "^U" -> "kill line"
    [] k = "^W" -> "kill word"
    [] k = "^C" -> "interrupt"
    [] k = "^D" -> "eof"
    [] k = "^Z" -> "suspend"
    [] k \in Chars -> k
    [] OTHER -> "ignore"

\* A modified arrow is the arrow; a sequence that names no key, and a lone Escape, are
\* nothing.
EscapeKey(k) ==
  CASE k = "ESC[A" -> "prev"
    [] k = "ESC[B" -> "next"
    [] k \in {"ESC[C", "ESC[1;5C"} -> "right"
    [] k \in {"ESC[D", "ESC[1;5D"} -> "left"
    [] k \in {"ESC[H", "ESC[1~", "ESC[7~"} -> "home"
    [] k \in {"ESC[F", "ESC[4~", "ESC[8~"} -> "end"
    [] k = "ESC[3~" -> "delete"
    [] OTHER -> "ignore"

IsEscape(k) == k \in {"ESC", "ESC[A", "ESC[B", "ESC[C", "ESC[D", "ESC[1;5C", "ESC[1;5D", "ESC[H",
                      "ESC[F", "ESC[1~", "ESC[3~", "ESC[4~", "ESC[7~", "ESC[8~", "ESC[5~"}

ReadKey(k) == IF IsEscape(k) THEN EscapeKey(k) ELSE ControlKey(k)

-----------------------------------------------------------------------------
(***************************************************************************)
(* The line.                                                               *)
(***************************************************************************)
\* The characters before the cursor, and those from it on.
Before(l) == SubSeq(l.buf, 1, l.pos)
After(l) == SubSeq(l.buf, l.pos + 1, Len(l.buf))

Insert(l, c) == [l EXCEPT !.buf = Before(l) \o <<c>> \o After(l), !.pos = @ + 1]

DeleteBack(l) ==
  IF l.pos = 0 THEN l ELSE [l EXCEPT !.buf = Front(Before(l)) \o After(l), !.pos = @ - 1]

DeleteForward(l) ==
  IF l.pos >= Len(l.buf) THEN l ELSE [l EXCEPT !.buf = Before(l) \o Tail(After(l))]

\* Where the word before the cursor begins: over the spaces behind it, and over the word.
WordStart(l) ==
  LET spaces == {i \in 0 .. l.pos : \A j \in i + 1 .. l.pos : l.buf[j] = Space}
      end == CHOOSE i \in spaces : \A j \in spaces : i <= j
      word == {i \in 0 .. end : \A j \in i + 1 .. end : l.buf[j] # Space}
  IN CHOOSE i \in word : \A j \in word : i <= j

DeleteWord(l) ==
  [l EXCEPT !.buf = SubSeq(l.buf, 1, WordStart(l)) \o After(l), !.pos = WordStart(l)]

Set(l, text) == [l EXCEPT !.buf = text, !.pos = Len(text)]

\* Mutant: the line of now is not put aside.
WalkForgets(l, by) ==
  LET to == l.at + by IN
  IF to < 0 \/ to > Len(l.history) THEN l
  ELSE Set([l EXCEPT !.at = to], IF to = Len(l.history) THEN l.draft ELSE l.history[to + 1])

\* One step through what was typed before; the line of now is behind the last of it.
Walk(l, by) ==
  LET to == l.at + by
      kept == IF l.at = Len(l.history) THEN [l EXCEPT !.draft = l.buf] ELSE l
  IN IF to < 0 \/ to > Len(l.history) THEN l
     ELSE Set([kept EXCEPT !.at = to],
              IF to = Len(l.history) THEN kept.draft ELSE l.history[to + 1])

Apply(l, k) ==
  CASE k \in Chars -> Insert(l, k)
    [] k = "backspace" -> DeleteBack(l)
    [] k \in {"delete", "eof"} -> DeleteForward(l)
    [] k = "left" -> [l EXCEPT !.pos = IF @ > 0 THEN @ - 1 ELSE 0]
    [] k = "right" -> [l EXCEPT !.pos = IF @ < Len(l.buf) THEN @ + 1 ELSE @]
    [] k = "home" -> [l EXCEPT !.pos = 0]
    [] k = "end" -> [l EXCEPT !.pos = Len(l.buf)]
    [] k = "prev" -> Walk(l, -1)
    [] k = "next" -> Walk(l, 1)
    [] k = "kill line" -> Set(l, <<>>)
    [] k = "kill word" -> DeleteWord(l)
    [] OTHER -> l

EndOfFile(l, k) == k = "eof" /\ l.buf = <<>>

Blank(text) == \A i \in DOMAIN text : text[i] = Space

\* strings.TrimSpace
Trimmed(text) ==
  LET letters == {i \in DOMAIN text : text[i] # Space} IN
  IF letters = {} THEN <<>>
  ELSE SubSeq(text, CHOOSE i \in letters : \A j \in letters : i <= j,
                    CHOOSE i \in letters : \A j \in letters : i >= j)

LastTyped(l) == IF l.history = <<>> THEN <<>> ELSE Last(l.history)

\* Mutant: what was typed is remembered, whatever it was typed for.
TakeAll(l) ==
  LET text == Trimmed(l.buf)
      new == IF text # <<>> /\ LastTyped(l) # text THEN Append(l.history, text) ELSE l.history
  IN [EmptyLine EXCEPT !.history = new, !.at = Len(new), !.masked = l.masked]

\* The empty line that is left behind.  A secret is never remembered, nor is what was
\* entered just before.
Take(l) ==
  LET text == Trimmed(l.buf)
      new == IF text # <<>> /\ ~l.masked /\ LastTyped(l) # text
               THEN Append(l.history, text) ELSE l.history
  IN [EmptyLine EXCEPT !.history = new, !.at = Len(new), !.masked = l.masked]

\* drawPrompt, under the lock its callers hold.
DrawPrompt(l) == row' = [text |-> l.buf, masked |-> l.masked]

-----------------------------------------------------------------------------
(***************************************************************************)
(* The owner, and the goroutine that reads the keyboard.                   *)
(***************************************************************************)
\* The digits of the PIN are typed at the prompt for it, to a keyboard that has
\* nothing else waiting.
AtPrompt == reader = "secret" /\ input = <<>> /\ keys.queue = <<>>

Press ==
  /\ count.typed < MaxTyped /\ Len(input) < 1
  /\ \E k \in Keystrokes :
       /\ k = Digit => AtPrompt
       /\ input' = Append(input, k)
  /\ count' = [count EXCEPT !.typed = @ + 1]
  /\ UNCHANGED <<pump, keys, line, reader, row, log>>

Hand(k) == keys' = [keys EXCEPT !.queue = IF Len(@) < Backlog THEN Append(@, k) ELSE @]

\* Mutant: the reader of the keyboard waits for somebody to take what it has.
PumpWaits ==
  /\ pump = "reading" /\ input # <<>> /\ Len(keys.queue) < Backlog
  /\ LET k == ReadKey(Head(input)) IN
       IF k = "interrupt"
         THEN /\ pump' = "over" /\ keys' = [keys EXCEPT !.closed = TRUE]
              /\ count' = [count EXCEPT !.quit = TRUE]
       ELSE /\ UNCHANGED <<pump, count>>
            /\ IF k = "suspend" THEN UNCHANGED keys ELSE Hand(k)
  /\ input' = Tail(input)
  /\ UNCHANGED <<line, reader, row, log>>

\* Ctrl+C and Ctrl+Z are answered at once, everything else is handed on, or dropped.
Pump ==
  /\ pump = "reading" /\ input # <<>>
  /\ LET k == ReadKey(Head(input)) IN
       IF k = "interrupt"
         THEN /\ pump' = "over" /\ keys' = [keys EXCEPT !.closed = TRUE]
              /\ count' = [count EXCEPT !.quit = TRUE]
       ELSE /\ UNCHANGED <<pump, count>>
            /\ IF k = "suspend" THEN UNCHANGED keys ELSE Hand(k)
  /\ input' = Tail(input)
  /\ UNCHANGED <<line, reader, row, log>>

\* The terminal is gone, or the read fails.
PumpFails ==
  /\ pump = "reading" /\ count.failed < MaxFailures
  /\ count' = [count EXCEPT !.failed = @ + 1]
  /\ pump' = "over" /\ keys' = [keys EXCEPT !.closed = TRUE]
  /\ UNCHANGED <<input, line, reader, row, log>>

-----------------------------------------------------------------------------
(***************************************************************************)
(* The console.                                                            *)
(***************************************************************************)
Reading == reader \in {"line", "secret"}

\* applyKey, under the lock.
ApplyKey ==
  /\ Reading /\ keys.queue # <<>>
  /\ LET k == Head(keys.queue) IN
       /\ k # "enter" /\ ~EndOfFile(line, k)
       /\ line' = Apply(line, k)
       /\ DrawPrompt(line')
  /\ keys' = [keys EXCEPT !.queue = Tail(@)]
  /\ UNCHANGED <<input, pump, reader, log, count>>

\* Enter: takeLine, and what runs is a command, or none for a line with nothing on it.
\* The line is echoed above unless it was a secret.
Submit ==
  /\ reader = "line" /\ keys.queue # <<>> /\ Head(keys.queue) = "enter"
  /\ line' = Take(line)
  /\ DrawPrompt(line')
  /\ log' = IF Blank(line.buf) THEN log ELSE line.buf
  /\ reader' = IF Blank(line.buf) THEN "line" ELSE "running"
  /\ keys' = [keys EXCEPT !.queue = Tail(@)]
  /\ UNCHANGED <<input, pump, count>>

SubmitSecret ==
  /\ reader = "secret" /\ keys.queue # <<>> /\ Head(keys.queue) = "enter"
  /\ line' = Take(line)
  /\ DrawPrompt(line')
  /\ reader' = "unmask"
  /\ keys' = [keys EXCEPT !.queue = Tail(@)]
  /\ UNCHANGED <<input, pump, log, count>>

\* Ctrl+D on an empty line ends the program.
EOF ==
  /\ Reading /\ keys.queue # <<>> /\ EndOfFile(line, Head(keys.queue))
  /\ count' = [count EXCEPT !.quit = TRUE]
  /\ reader' = IF reader = "secret" THEN "gone" ELSE "over"
  /\ keys' = [keys EXCEPT !.queue = Tail(@)]
  /\ UNCHANGED <<input, pump, line, row, log>>

\* There will be no more keystrokes.
Closed ==
  /\ Reading /\ keys.closed /\ keys.queue = <<>>
  /\ reader' = IF reader = "secret" THEN "gone" ELSE "over"
  /\ UNCHANGED <<input, pump, keys, line, row, log, count>>

\* The deferred maskLine(false) of readSecret, whether a line came or not.
Unmask ==
  /\ reader \in {"unmask", "gone"}
  /\ line' = [line EXCEPT !.masked = FALSE]
  /\ DrawPrompt(line')
  /\ reader' = IF reader = "unmask" THEN "running" ELSE "over"
  /\ UNCHANGED <<input, pump, keys, log, count>>

\* A command takes as long as it takes, and may ask for the PIN or for another line.
AskSecret ==
  /\ reader = "running"
  /\ line' = [line EXCEPT !.masked = TRUE]
  /\ DrawPrompt(line')
  /\ reader' = "secret"
  /\ UNCHANGED <<input, pump, keys, log, count>>

Return ==
  /\ reader = "running"
  /\ reader' = "line"
  /\ UNCHANGED <<input, pump, keys, line, row, log, count>>

Next ==
  \/ Press \/ Pump \/ PumpFails
  \/ ApplyKey \/ Submit \/ SubmitSecret \/ EOF \/ Closed \/ Unmask \/ AskSecret \/ Return

Spec == Init /\ [][Next]_vars

\* The goroutine that reads the keyboard is scheduled; nothing is assumed of the owner
\* or of a command, which may never end.
FairSpec == Spec /\ WF_vars(Pump)

-----------------------------------------------------------------------------
\* The theorems ask this of the constants.
ConstantsOK == Backlog \in Nat /\ MaxTyped \in Nat /\ MaxFailures \in Nat

TypeOK ==
  /\ input \in Seq(Keystrokes) /\ Len(input) <= 1
  /\ pump \in {"reading", "over"}
  /\ Len(keys.queue) <= Backlog
  /\ line.buf \in Seq(Chars) /\ line.pos \in 0 .. Len(line.buf)
  /\ line.at \in 0 .. Len(line.history) /\ line.masked \in BOOLEAN
  /\ reader \in {"line", "secret", "running", "unmask", "gone", "over"}

\* As long as there is a keyboard, no digit of the PIN is on the screen in the clear, in
\* the log, or among the lines the up arrow brings back: not when it was typed ahead of
\* the prompt's answer, corrected, walked away from or entered.  (readSecret, take, read.)
Has(text, c) == \E i \in DOMAIN text : text[i] = c

PinStaysHidden ==
  /\ Has(row.text, Digit) => row.masked \/ pump = "over"
  /\ ~Has(log, Digit)
  /\ \A i \in DOMAIN line.history : ~Has(line.history[i], Digit)

\* The keyboard is never deaf: whatever a command is doing and however much has been
\* typed ahead, Ctrl+C is read and answered.  (pump.)
InterruptQuits == pump = "reading" /\ input = <<"^C">> ~> pump = "over"

\* Walking back through what was entered and forward again loses nothing of the line
\* that was being typed: a walk that ends where it began ends with the line it began
\* with, and what was entered stays as it was.  (walk, take.)
WalkedBack == line.at = Len(line.history)

DraftComesBack ==
  [][/\ \A i \in DOMAIN line.history : line'.history[i] = line.history[i]
     /\ ApplyKey => /\ WalkedBack /\ ~WalkedBack' => line'.draft = line.buf
                    /\ ~WalkedBack /\ ~WalkedBack' => line'.draft = line.draft
                    /\ ~WalkedBack /\ WalkedBack' => line'.buf = line.draft]_vars

\* A PIN that could not be entered because the terminal went away is not drawn either.
PinNeverShown == Has(row.text, Digit) => row.masked
=============================================================================
