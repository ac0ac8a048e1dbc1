------------------------------- MODULE Lockout -------------------------------
(***************************************************************************)
(* The failure table of the pairing key and the PIN (internal/auth/auth.go:*)
(* Authenticate, CheckPin, record, evictLocked, Regenerate).               *)
(*                                                                         *)
(* Every guess is charged to the address it came from; enough wrong ones   *)
(* lock the address out for a while.  The table is bounded, so a new       *)
(* address may push another's record, and the penalty in it, out.          *)
(* Everything happens under the manager's lock, so each call is one step;  *)
(* what is hard is the long sequences of calls and the clock.              *)
(*                                                                         *)
(* Left out: the key, the PIN and their comparison (a guess is right,      *)
(* wrong, or turned away because every session is taken), and the sessions *)
(* themselves, which are in Connections.tla.                               *)
(***************************************************************************)
EXTENDS Naturals, Sequences, FiniteSets

CONSTANTS
  Hosts,         \* addresses guesses come from
  MaxAttempts,   \* Options.MaxAttempts
  Period,        \* Options.LockoutPeriod
  TableSize,     \* Options.MaxTrackedAddrs
  MaxTime        \* bound on the clock

ASSUME PolicyIsPositive ==
  /\ MaxAttempts \in Nat \ {0}
  /\ Period \in Nat \ {0}
  /\ TableSize \in Nat \ {0}
ASSUME ClockIsBounded == MaxTime \in Nat \ {0}
ASSUME HostsAreFinite == IsFiniteSet(Hosts)

VARIABLES
  now,     \* the clock
  table,   \* Manager.byAddr: a record for each tracked address
  tries    \* history: when each address last guessed wrong, since its record
           \* was last cleared by a right guess, by a rotation, or to make room

vars == <<now, table, tries>>

Time == 0 .. MaxTime + Period

Attempts == [failures : 0 .. MaxAttempts - 1, until : Time, seen : Time]

TypeOK ==
  /\ now \in 1 .. MaxTime
  /\ DOMAIN table \subseteq Hosts
  /\ table \in [DOMAIN table -> Attempts]
  /\ tries \in [Hosts -> Seq(Time)]

\* The zero lockedUntil of a fresh record is long past.
Init ==
  /\ now = 1
  /\ table = [h \in {} |-> 0]
  /\ tries = [h \in Hosts |-> <<>>]

LockedIn(t) == {h \in DOMAIN t : now < t[h].until}
Locked == LockedIn(table)

-----------------------------------------------------------------------------
(***************************************************************************)
(* record and evictLocked.                                                 *)
(***************************************************************************)
\* Past its lockout and quiet for more than a lockout period.
Stale == {h \in DOMAIN table :
            now > table[h].until /\ now - table[h].seen > Period}

Unlocked == DOMAIN table \ Locked

LeastRecentlySeen ==
  {h \in Unlocked : \A g \in Unlocked : table[h].seen <= table[g].seen}

SoonestOut ==
  {h \in DOMAIN table : \A g \in DOMAIN table : table[h].until <= table[g].until}

\* Mutant: whoever was quiet longest goes, locked out or not.
OldestGoes ==
  {{h} : h \in {k \in DOMAIN table :
                  \A g \in DOMAIN table : table[k].seen <= table[g].seen}}

\* The records an eviction may drop.  The map is walked in any order, so a tie
\* goes either way.
Evictable ==
  IF Stale # {} THEN {Stale}
  ELSE IF Unlocked # {} THEN {{h} : h \in LeastRecentlySeen}
  ELSE {{h} : h \in SoonestOut}

\* Mutant: a table that never makes room.
NeverEvict(h) ==
  {[g \in DOMAIN table \cup {h} |->
      IF g \in DOMAIN table THEN [table[g] EXCEPT !.seen = IF g = h THEN now ELSE @]
      ELSE [failures |-> 0, until |-> 0, seen |-> now]]}

\* The tables record(h) may leave: h's record seen now, or a fresh one.
Recorded(h) ==
  IF h \in DOMAIN table
  THEN {[table EXCEPT ![h].seen = now]}
  ELSE LET Kept == IF Cardinality(DOMAIN table) < TableSize
                   THEN {DOMAIN table}
                   ELSE {DOMAIN table \ E : E \in Evictable}
       IN  {[g \in K \cup {h} |->
               IF g = h THEN [failures |-> 0, until |-> 0, seen |-> now]
                        ELSE table[g]] : K \in Kept}

-----------------------------------------------------------------------------
(***************************************************************************)
(* A guess from h, through Authenticate or CheckPin.                       *)
(***************************************************************************)
\* A record dropped although its lockout or its quiet time was not over is a
\* penalty lost; the history forgets the address with it.
Forgotten(t) == IF Stale # {} THEN {} ELSE DOMAIN table \ DOMAIN t

\* As many of the last wrong guesses as could break the budget.
Recent(s) == SubSeq(s, IF Len(s) > MaxAttempts THEN Len(s) - MaxAttempts + 1 ELSE 1,
                    Len(s))

History(t, h, new) ==
  tries' = [g \in Hosts |->
              IF g = h THEN new ELSE IF g \in Forgotten(t) THEN <<>> ELSE tries[g]]

\* Turned away without a comparison: serving a lockout, or every session taken.
Refused(h) ==
  \E t \in Recorded(h) :
    /\ table' = t
    /\ History(t, h, tries[h])
    /\ UNCHANGED now

\* Mutants: one guess too many before the lockout, a failure charged to
\* everybody, and a count that is not started over.
WrongOneTooMany(h) ==
  \E t \in Recorded(h) :
    /\ h \notin LockedIn(t)
    /\ table' = IF t[h].failures + 1 > MaxAttempts
                THEN [t EXCEPT ![h].failures = 0, ![h].until = now + Period]
                ELSE [t EXCEPT ![h].failures = @ + 1]
    /\ History(t, h, Append(Recent(tries[h]), now))
    /\ UNCHANGED now

WrongForAll(h) ==
  \E t \in Recorded(h) :
    /\ h \notin LockedIn(t)
    /\ table' = [g \in DOMAIN t |->
                   IF t[g].failures + 1 >= MaxAttempts
                   THEN [t[g] EXCEPT !.failures = 0, !.until = now + Period]
                   ELSE [t[g] EXCEPT !.failures = @ + 1]]
    /\ History(t, h, Append(Recent(tries[h]), now))
    /\ UNCHANGED now

WrongNotReset(h) ==
  \E t \in Recorded(h) :
    /\ h \notin LockedIn(t)
    /\ table' = IF t[h].failures + 1 >= MaxAttempts
                THEN [t EXCEPT ![h].failures = @ + 1, ![h].until = now + Period]
                ELSE [t EXCEPT ![h].failures = @ + 1]
    /\ History(t, h, Append(Recent(tries[h]), now))
    /\ UNCHANGED now

Wrong(h) ==
  \E t \in Recorded(h) :
    /\ h \notin LockedIn(t)
    /\ table' = IF t[h].failures + 1 >= MaxAttempts
                THEN [t EXCEPT ![h].failures = 0, ![h].until = now + Period]
                ELSE [t EXCEPT ![h].failures = @ + 1]
    /\ History(t, h, Append(Recent(tries[h]), now))
    /\ UNCHANGED now

Right(h) ==
  \E t \in Recorded(h) :
    /\ h \notin LockedIn(t)
    /\ table' = [g \in DOMAIN t \ {h} |-> t[g]]
    /\ History(t, h, <<>>)
    /\ UNCHANGED now

\* Rotating the key starts everybody over.
Regenerate ==
  /\ table' = [h \in {} |-> 0]
  /\ tries' = [h \in Hosts |-> <<>>]
  /\ UNCHANGED now

Tick ==
  /\ now < MaxTime
  /\ now' = now + 1
  /\ UNCHANGED <<table, tries>>

Next ==
  \/ \E h \in Hosts : Refused(h) \/ Wrong(h) \/ Right(h)
  \/ Regenerate
  \/ Tick

Spec == Init /\ [][Next]_vars

-----------------------------------------------------------------------------
\* The table never outgrows its bound, whatever addresses the guesses come from.
\* (record, evictLocked.)
TableIsBounded == Cardinality(DOMAIN table) <= TableSize

\* However the guesses are spread over time, no more than MaxAttempts wrong ones
\* from an address are compared in any stretch as long as a lockout, unless its
\* record was given up to make room.  Dropping a record for having been quiet
\* gives nothing away.  (Authenticate, CheckPin, evictLocked.)
InWindow(h, t) == {i \in DOMAIN tries[h] : t <= tries[h][i] /\ tries[h][i] < t + Period}

GuessBudget ==
  \A h \in Hosts, t \in 1 .. now : Cardinality(InWindow(h, t)) <= MaxAttempts

\* An address is locked out for its own wrong guesses, counted from the last of
\* them, and nobody else's: nobody locks the owner out from somewhere else, and
\* asking again while locked out does not make it longer.  (byAddr.)
LockedForItsOwn ==
  \A h \in Locked :
    /\ Len(tries[h]) >= MaxAttempts
    /\ tries[h][Len(tries[h])] = table[h].until - Period

\* A lockout is the last thing to go: it is given up before its time only to a
\* rotation, or when every address in a full table is serving one, and then it
\* is the one with the least time left.  (evictLocked.)
LockoutIsLastToGo ==
  [][\A h \in Locked \ DOMAIN table' :
        \/ DOMAIN table' = {}
        \/ /\ DOMAIN table \subseteq Locked
           /\ Cardinality(DOMAIN table) >= TableSize
           /\ \A g \in DOMAIN table : table[h].until <= table[g].until]_vars

\* Together: the table keeps its size, and a lockout is earned by the one it is of and
\* served, whoever else comes by.
LockoutHolds == [](TableIsBounded /\ LockedForItsOwn) /\ LockoutIsLastToGo
=============================================================================
