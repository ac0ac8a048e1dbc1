--------------------------------- MODULE Screen ---------------------------------
(***************************************************************************)
(* The terminal the dashboard takes over, and everybody who draws on it.     *)
(*                                                                         *)
(* cmd/leavesafe/terminal.go (taking it and giving it back), main.go          *)
(* (statusBar's draws, each of them one step under its lock), resize.go,      *)
(* suspend_unix.go and the ends of the program in startup.go and entry.go.   *)
(* The terminal itself is here as far as the draws tell it apart: which of    *)
(* its two screens is shown, the scrolling region, the cursor and its store,  *)
(* and where a status grid is to be seen.                                    *)
(***************************************************************************)
EXTENDS Layout, FiniteSets

CONSTANTS
  Windows,      \* <<width, height>> of the window
  Codes,        \* <<width, height>> of the codes `qr <n>` switches between
  GridHeight,
  MaxEvents     \* resizes, switches and keys pressed

VARIABLES
  tty,          \* the terminal
  window, code, \* the window's size, and the size of the code that is shown
  taken,        \* screen.entered: whether the terminal is this program's
  bar,          \* statusBar: whether it has an input line, handedBack, its layout
  settling,     \* a resize nobody has drawn for yet
  suspend,      \* the goroutine that answers Ctrl+Z: where it is, and its `taken`
  ending,       \* the goroutine that shuts down, and main behind it
  events

vars == <<tty, window, code, taken, bar, settling, suspend, ending, events>>

\* What the theorems about this module ask of its constants: a layout may be anything.
ConstantsOK == MaxEvents \in Nat

WantedFor(w, c, line) ==
  ComputeLayout([termW |-> w[1], termH |-> w[2] - (IF line THEN 1 ELSE 0), qrW |-> c[1],
                 qrH |-> c[2], gridH |-> GridHeight, head |-> 0, foot |-> 0])

\* The place typing goes to, and the place the next line of the log goes to.
InputRow(l) == <<"input", l.termH + 1>>
LogEnd(l) == <<"log", l.logRow>>

-----------------------------------------------------------------------------
(***************************************************************************)
(* What the escapes do.  The alternate screen comes up empty and is gone      *)
(* when it is left; whatever is drawn while it is not shown is drawn on the   *)
(* user's own.                                                             *)
(***************************************************************************)
GridPlace(l) == <<l.gridRow, l.gridCol, l.gridWidth, l.gridRows>>

EnterAlt(t) == [t EXCEPT !.alt = TRUE, !.grids = {}, !.cursor = <<"nowhere", 0>>]

LeaveAlt(t) == [t EXCEPT !.alt = FALSE, !.grids = {}, !.margins = 0, !.cursor = <<"shell", 0>>]

Scribble(t) == [t EXCEPT !.scribbled = @ \/ ~t.alt]

DrawGrid(t, l) ==
  [Scribble(t) EXCEPT !.grids = IF t.alt THEN @ \cup {GridPlace(l)} ELSE @, !.cursor = <<"grid", 0>>]

\* drawPrompt, which does nothing without an input line.
DrawPrompt(t, l, line) == IF line THEN [Scribble(t) EXCEPT !.cursor = InputRow(l)] ELSE t

Paint(t, l, line) ==
  LET drawn == [DrawGrid([t EXCEPT !.grids = {}], l) EXCEPT !.margins = l.logRow, !.cursor = LogEnd(l)]
  IN DrawPrompt(IF line THEN [drawn EXCEPT !.store = LogEnd(l)] ELSE drawn, l, line)

-----------------------------------------------------------------------------
(***************************************************************************)
(* statusBar, under its lock.                                              *)
(***************************************************************************)
\* What doPaint leaves of the terminal t, for the code c.
DoPaint(t, c) ==
  IF bar.handedBack THEN tty' = t /\ UNCHANGED bar
  ELSE LET want == WantedFor(window, c, bar.line) IN
       tty' = Paint(t, want, bar.line) /\ bar' = [bar EXCEPT !.layout = want]

\* One piece of the dashboard, drawn where it was, and the cursor put back.
DrawPiece(t, drawn) ==
  /\ tty' = IF bar.line THEN DrawPrompt(drawn, bar.layout, TRUE)
            ELSE [drawn EXCEPT !.store = t.cursor, !.cursor = t.cursor]
  /\ UNCHANGED bar

\* Mutant: a piece is drawn where the window of now has it, and nothing else.
RepaintPiece(t, drawn, c) ==
  IF bar.handedBack THEN tty' = t /\ UNCHANGED bar
  ELSE DrawPiece(t, DrawGrid(t, WantedFor(window, c, bar.line)))

\* Mutant: the grid is drawn whoever has the terminal.
RepaintAnyway(t, drawn, c) ==
  IF WantedFor(window, c, bar.line) = bar.layout THEN DrawPiece(t, drawn) ELSE DoPaint(t, c)

\* A piece while the layout holds, and everything when it does not.
Repaint(t, drawn, c) ==
  IF bar.handedBack THEN tty' = t /\ UNCHANGED bar
  ELSE IF WantedFor(window, c, bar.line) = bar.layout THEN DrawPiece(t, drawn)
  ELSE DoPaint(t, c)

\* Mutant: the line is written where the cursor is.
WriteLogHere(t) ==
  [Scribble(t) EXCEPT !.typedOver = @ \/ (t.alt /\ bar.line /\ t.cursor[1] = "input")]

\* With an input row the log's place is in the store; without one the cursor is there.
WriteLog(t) ==
  IF bar.line
    THEN [Scribble(t) EXCEPT !.typedOver = @ \/ (t.alt /\ t.store[1] = "input"), !.cursor = t.store]
    ELSE t

Awake == suspend.pc # "stopped" /\ ending.at # "over"

\* The status ticker, and a phone that comes or goes.
Refresh ==
  /\ Awake
  /\ Repaint(tty, DrawGrid(tty, bar.layout), code)
  /\ UNCHANGED <<window, code, taken, settling, suspend, ending, events>>

\* A line of the log, and the grid behind it.
WriteLine ==
  /\ Awake
  /\ LET logged == WriteLog(tty) IN Repaint(logged, DrawGrid(logged, bar.layout), code)
  /\ UNCHANGED <<window, code, taken, settling, suspend, ending, events>>

\* showQR, and rekeyQR for the code of a new key: the layout goes with the code.
ShowQR ==
  /\ Awake /\ events < MaxEvents
  /\ \E c \in Codes : code' = c /\ Repaint(tty, Scribble(tty), c)
  /\ events' = events + 1
  /\ UNCHANGED <<window, taken, settling, suspend, ending>>

\* A keystroke: applyKey, takeLine and maskLine all end with drawPrompt.  Once the
\* input line is gone they fall over it.
ApplyKey ==
  /\ Awake /\ bar.keys
  /\ tty' = DrawPrompt(tty, bar.layout, bar.line)
  /\ bar' = [bar EXCEPT !.panicked = @ \/ ~bar.line]
  /\ UNCHANGED <<window, code, taken, settling, suspend, ending, events>>

-----------------------------------------------------------------------------
(***************************************************************************)
(* A window that changes size, and the redraw when the gesture is over.      *)
(***************************************************************************)
Resize ==
  /\ ending.at # "over" /\ events < MaxEvents
  /\ \E w \in Windows \ {window} : window' = w
  /\ settling' = (settling \/ ending.at = "running")
  /\ events' = events + 1
  /\ UNCHANGED <<tty, code, taken, bar, suspend, ending>>

Settle ==
  /\ Awake /\ settling
  /\ settling' = FALSE
  /\ DoPaint(tty, code)
  /\ UNCHANGED <<window, code, taken, suspend, ending, events>>

-----------------------------------------------------------------------------
(***************************************************************************)
(* Ctrl+Z.                                                                 *)
(***************************************************************************)
\* restore, which does nothing when nothing was taken.
Restore ==
  /\ taken' = FALSE
  /\ tty' = IF taken THEN [LeaveAlt(tty) EXCEPT !.raw = FALSE] ELSE tty

Enter ==
  /\ taken' = TRUE
  /\ tty' = IF taken THEN tty ELSE [EnterAlt(tty) EXCEPT !.raw = bar.keys]

\* The signal is taken up by its watcher, which goes with the rest at shutdown's cancel.
SuspendAsked ==
  /\ suspend.pc = "idle" /\ ending.at \in {"running", "restored", "handed back"} /\ events < MaxEvents
  /\ suspend' = [pc |-> "asked", taken |-> taken]
  /\ events' = events + 1
  /\ UNCHANGED <<tty, window, code, taken, bar, settling, ending>>

SuspendRestores ==
  /\ suspend.pc = "asked" /\ ending.at # "over"
  /\ Restore
  /\ suspend' = [suspend EXCEPT !.pc = "stopping"]
  /\ UNCHANGED <<window, code, bar, settling, ending, events>>

\* Every thread stops, until the user brings the program forward.
Stop ==
  /\ suspend.pc = "stopping" /\ ending.at # "over"
  /\ suspend' = [suspend EXCEPT !.pc = "stopped"]
  /\ UNCHANGED <<tty, window, code, taken, bar, settling, ending, events>>

\* Mutant: the terminal is taken whether or not it had been.
ForegroundAlways ==
  /\ suspend.pc = "stopped"
  /\ suspend' = [suspend EXCEPT !.pc = "resumed"]
  /\ UNCHANGED <<tty, window, code, taken, bar, settling, ending, events>>

Foreground ==
  /\ suspend.pc = "stopped"
  /\ suspend' = [suspend EXCEPT !.pc = IF suspend.taken THEN "resumed" ELSE "idle"]
  /\ UNCHANGED <<tty, window, code, taken, bar, settling, ending, events>>

SuspendEnters ==
  /\ suspend.pc = "resumed" /\ ending.at # "over"
  /\ Enter
  /\ suspend' = [suspend EXCEPT !.pc = "entered"]
  /\ UNCHANGED <<window, code, bar, settling, ending, events>>

SuspendRepaints ==
  /\ suspend.pc = "entered" /\ ending.at # "over"
  /\ DoPaint(tty, code)
  /\ suspend' = [pc |-> "idle", taken |-> FALSE]
  /\ UNCHANGED <<window, code, taken, settling, ending, events>>

-----------------------------------------------------------------------------
(***************************************************************************)
(* The ends of the program: a signal, Ctrl+C on the keyboard, and             *)
(* log.Fatal.  All but the last run shutdown; main's deferred close may or    *)
(* may not come after it.                                                   *)
(***************************************************************************)
ShutdownRestores ==
  /\ Awake /\ ending.at = "running"
  /\ Restore
  /\ ending' = [at |-> "restored", suspending |-> suspend.pc # "idle"]
  /\ UNCHANGED <<window, code, bar, settling, suspend, events>>

HandBack ==
  /\ Awake /\ ending.at = "restored"
  /\ bar' = [bar EXCEPT !.handedBack = TRUE, !.line = FALSE]
  /\ ending' = [ending EXCEPT !.at = "handed back"]
  /\ UNCHANGED <<tty, window, code, taken, settling, suspend, events>>

\* a.cancel, and the rest of the shutdown; the watchers of both signals go with it.
Cancel ==
  /\ Awake /\ ending.at = "handed back"
  /\ ending' = [ending EXCEPT !.at = "cancelled"]
  /\ settling' = FALSE
  /\ UNCHANGED <<tty, window, code, taken, bar, suspend, events>>

\* main returns, with its deferred close.
Close ==
  /\ Awake /\ ending.at = "cancelled"
  /\ Restore
  /\ ending' = [ending EXCEPT !.at = "over"]
  /\ UNCHANGED <<window, code, bar, settling, suspend, events>>

\* Or os.Exit at the end of shutdown, with nothing deferred.
Exit ==
  /\ Awake /\ ending.at = "cancelled"
  /\ ending' = [ending EXCEPT !.at = "over"]
  /\ UNCHANGED <<tty, window, code, taken, bar, settling, suspend, events>>

\* log.Fatal, whose exit handler is restore.
Fatal ==
  /\ Awake /\ ending.at = "running"
  /\ Restore
  /\ ending' = [at |-> "over", suspending |-> suspend.pc # "idle"]
  /\ UNCHANGED <<window, code, bar, settling, suspend, events>>

\* buildDashboard: the terminal is taken, with the keyboard if there is one, and painted.
Init ==
  /\ window \in Windows /\ code \in Codes
  /\ \E keys \in BOOLEAN :
       LET l == WantedFor(window, code, keys) IN
       /\ bar = [line |-> keys, keys |-> keys, handedBack |-> FALSE, layout |-> l, panicked |-> FALSE]
       /\ tty = Paint([alt |-> TRUE, raw |-> keys, margins |-> 0, cursor |-> <<"nowhere", 0>>,
                       store |-> <<"nowhere", 0>>, grids |-> {}, scribbled |-> FALSE,
                       typedOver |-> FALSE], l, keys)
  /\ taken = TRUE
  /\ settling = FALSE
  /\ suspend = [pc |-> "idle", taken |-> FALSE]
  /\ ending = [at |-> "running", suspending |-> FALSE]
  /\ events = 0

Next ==
  \/ Refresh \/ WriteLine \/ ShowQR \/ ApplyKey \/ Resize \/ Settle
  \/ SuspendAsked \/ SuspendRestores \/ Stop \/ Foreground \/ SuspendEnters \/ SuspendRepaints
  \/ ShutdownRestores \/ HandBack \/ Cancel \/ Close \/ Exit \/ Fatal

Spec == Init /\ [][Next]_vars
-----------------------------------------------------------------------------
TypeOK ==
  /\ window \in Windows /\ code \in Codes /\ taken \in BOOLEAN /\ settling \in BOOLEAN
  /\ tty.alt \in BOOLEAN /\ tty.raw \in BOOLEAN
  /\ suspend.pc \in {"idle", "asked", "stopping", "stopped", "resumed", "entered"}
  /\ ending.at \in {"running", "restored", "handed back", "cancelled", "over"}
  /\ bar.line => bar.keys /\ ~bar.handedBack
  /\ events \in 0 .. MaxEvents

\* There are never two status grids on the dashboard's screen, whatever is drawn between
\* the window's change of size and the redraw that answers it, or between two codes of
\* different sizes.  (repaint, layoutHolds, doPaint.)
OneGrid == tty.alt => Cardinality(tty.grids) <= 1

\* No line of the log is written over what is being typed, and the cursor is left where
\* typing goes, at the place of the layout that is on the screen.  (writeLog, drawPrompt.)
TypingIsUndisturbed ==
  /\ ~tty.typedOver
  /\ tty.alt /\ ~bar.handedBack /\ suspend.pc # "entered" =>
       tty.cursor = IF bar.line THEN InputRow(bar.layout) ELSE LogEnd(bar.layout)

\* What is said after the terminal was handed back is said in ordinary lines.  (handBack,
\* repaint, writeLog.)
HandedBackIsQuiet == [][bar.handedBack => tty'.scribbled = tty.scribbled]_vars

\* Unless Ctrl+Z was being answered when the program was told to end, the screen and the
\* keyboard are the user's again when it is over, whichever way it ended, and also when
\* Ctrl+Z comes in the middle of it.  (restore, suspend, close.)
LeavesTheTerminal == ending.at = "over" /\ ~ending.suspending => ~tty.alt /\ ~tty.raw

\* Together: one drawing, undisturbed, on a terminal that is handed back.
TerminalIsKept == OneGrid /\ TypingIsUndisturbed /\ LeavesTheTerminal

\* The terminal is given back however the program ends.
TerminalGivenBack == ending.at = "over" => ~tty.alt /\ ~tty.raw /\ tty.margins = 0

\* The dashboard is drawn on its own screen only.
DrawsOnItsOwnScreen == ~tty.scribbled

\* The keystrokes that are still waiting when the terminal is handed back harm nobody.
KeysAreHarmless == ~bar.panicked
=============================================================================
