----------------------------- MODULE Connections -----------------------------
(***************************************************************************)
(* Sockets, pairing and sessions (internal/ws/hub.go, pending.go; the      *)
(* session table of internal/auth/auth.go).                                *)
(*                                                                         *)
(* Each socket has a goroutine that reads it from accept to close.  Beside *)
(* it the heartbeat throws out clients whose session has ended, sessions   *)
(* expire, a rotation of the pairing key ends them all, and every          *)
(* departure that leaves nobody starts a goroutine that sleeps and then    *)
(* reports it.  The unpaired slots, the clients and the sessions are three *)
(* tables under three locks, and a socket's own fields have none.          *)
(*                                                                         *)
(* Left out: the pairing proof and the lockout (Lockout.tla), what is      *)
(* written to the phones, and transports that are not sockets.             *)
(***************************************************************************)
EXTENDS Naturals, FiniteSets

CONSTANTS
  Sockets,      \* connections, each made once
  Addr,         \* the address each comes from
  Limit,        \* pendingConns.limit
  PerAddr,      \* pendingConns.perAddr
  MaxSessions,  \* Options.MaxSessions
  MaxTokens,    \* bound on the sessions ever issued
  MaxReports    \* bound on the departures that are followed up

ASSUME LimitsArePositive ==
  /\ Limit \in Nat \ {0} /\ PerAddr \in Nat \ {0} /\ MaxSessions \in Nat \ {0}
  /\ MaxTokens \in Nat /\ MaxReports \in Nat
ASSUME SocketsAreFinite == IsFiniteSet(Sockets)

Tokens == 1 .. MaxTokens
Reports == 1 .. MaxReports
Addrs == {Addr[c] : c \in Sockets}

VARIABLES
  total, byAddr,   \* pendingConns
  clients,         \* Hub.clients
  sessions,        \* auth.Manager.sessions: live tokens
  issued,          \* how many tokens there have been
  pc,              \* where each socket's goroutine is
  paired,          \* Client.authenticated
  token,           \* Client.token, 0 for none
  new,             \* the token handleAuth has just been given
  held,            \* Client.pendingHeld
  cut,             \* whether the next read will fail
  stale,           \* the clients the heartbeat is about to throw out
  armed,           \* Hub.armed
  follow,          \* the goroutines following up a departure: "none", "asleep",
                   \* "seen" if a phone has come back since, "over"
  dropped          \* history: clients the heartbeat cut with a live session

pending == <<total, byAddr>>
own == <<pc, paired, token, new, held>>
vars == <<pending, clients, sessions, issued, own, cut, stale, armed, follow,
          dropped>>

Places == {"new", "reading", "giveBack", "mark", "release", "enter", "seal",
           "expel", "leave", "remove", "gone"}

TypeOK ==
  /\ total \in 0 .. Limit /\ byAddr \in [Addrs -> 0 .. PerAddr]
  /\ clients \subseteq Sockets /\ stale \subseteq Sockets
  /\ issued \in 0 .. MaxTokens /\ sessions \subseteq 1 .. issued
  /\ pc \in [Sockets -> Places]
  /\ paired \in [Sockets -> BOOLEAN] /\ held \in [Sockets -> BOOLEAN]
  /\ cut \in [Sockets -> BOOLEAN]
  /\ token \in [Sockets -> 0 .. issued] /\ new \in [Sockets -> 0 .. issued]
  /\ armed \in BOOLEAN
  /\ follow \in [Reports -> {"none", "asleep", "seen", "over"}]
  /\ dropped \subseteq Sockets

Init ==
  /\ total = 0 /\ byAddr = [a \in Addrs |-> 0]
  /\ clients = {} /\ sessions = {} /\ issued = 0
  /\ pc = [c \in Sockets |-> "new"]
  /\ paired = [c \in Sockets |-> FALSE]
  /\ token = [c \in Sockets |-> 0] /\ new = [c \in Sockets |-> 0]
  /\ held = [c \in Sockets |-> FALSE] /\ cut = [c \in Sockets |-> FALSE]
  /\ stale = {} /\ armed \in BOOLEAN
  /\ follow = [r \in Reports |-> "none"] /\ dropped = {}

Goto(c, from, to) == pc[c] = from /\ pc' = [pc EXCEPT ![c] = to]

-----------------------------------------------------------------------------
(***************************************************************************)
(* The unpaired slots.                                                     *)
(***************************************************************************)
\* Mutant: one address may take every slot.
AcceptFromAnyone(c) ==
  /\ total < Limit
  /\ Goto(c, "new", "reading")
  /\ total' = total + 1
  /\ byAddr' = [byAddr EXCEPT ![Addr[c]] = @ + 1]
  /\ held' = [held EXCEPT ![c] = TRUE]
  /\ UNCHANGED <<clients, sessions, issued, paired, token, new, cut, stale,
                 armed, follow, dropped>>

\* A connection is accepted, or turned away because too many are waiting.
Accept(c) ==
  /\ LET room == total < Limit /\ byAddr[Addr[c]] < PerAddr IN
       IF room
       THEN /\ Goto(c, "new", "reading")
            /\ total' = total + 1
            /\ byAddr' = [byAddr EXCEPT ![Addr[c]] = @ + 1]
            /\ held' = [held EXCEPT ![c] = TRUE]
       ELSE /\ Goto(c, "new", "gone")
            /\ UNCHANGED <<pending, held>>
  /\ UNCHANGED <<clients, sessions, issued, paired, token, new, cut, stale,
                 armed, follow, dropped>>

\* Mutant: the slot is given back without being crossed off.
ReleaseTwice(c) ==
  /\ total' = IF total > 0 THEN total - 1 ELSE 0
  /\ byAddr' = [byAddr EXCEPT ![Addr[c]] = IF @ > 0 THEN @ - 1 ELSE 0]
  /\ UNCHANGED held

\* releasePending, which may be called again when there is nothing to release.
ReleasePending(c) ==
  /\ held' = [held EXCEPT ![c] = FALSE]
  /\ IF held[c]
     THEN /\ total' = IF total > 0 THEN total - 1 ELSE 0
          /\ byAddr' = [byAddr EXCEPT ![Addr[c]] = IF @ > 0 THEN @ - 1 ELSE 0]
     ELSE UNCHANGED pending

-----------------------------------------------------------------------------
(***************************************************************************)
(* handleAuth, on a message whose proof and key are good.                  *)
(***************************************************************************)
\* A pairing refused changes nothing here.
Authenticate(c) ==
  /\ Goto(c, "reading", "giveBack")
  /\ Cardinality(sessions) < MaxSessions /\ issued < MaxTokens
  /\ issued' = issued + 1
  /\ sessions' = sessions \cup {issued + 1}
  /\ new' = [new EXCEPT ![c] = issued + 1]
  /\ UNCHANGED <<pending, clients, paired, token, held, cut, stale, armed,
                 follow, dropped>>

\* Mutant: the session being replaced is left in the table.
KeepTheOld(c) ==
  /\ Goto(c, "giveBack", "mark")
  /\ UNCHANGED <<pending, clients, sessions, issued, paired, token, new, held,
                 cut, stale, armed, follow, dropped>>

\* The session a paired socket already had is given back.
GiveBack(c) ==
  /\ Goto(c, "giveBack", "mark")
  /\ sessions' = sessions \ {token[c]}
  /\ UNCHANGED <<pending, clients, issued, paired, token, new, held, cut, stale,
                 armed, follow, dropped>>

Mark(c) ==
  /\ Goto(c, "mark", "release")
  /\ paired' = [paired EXCEPT ![c] = TRUE]
  /\ token' = [token EXCEPT ![c] = new[c]]
  /\ new' = [new EXCEPT ![c] = 0]
  /\ UNCHANGED <<pending, clients, sessions, issued, held, cut, stale, armed,
                 follow, dropped>>

Release(c) ==
  /\ Goto(c, "release", "enter")
  /\ ReleasePending(c)
  /\ UNCHANGED <<clients, sessions, issued, paired, token, new, cut, stale,
                 armed, follow, dropped>>

Enter(c) ==
  /\ Goto(c, "enter", "seal")
  /\ clients' = clients \cup {c}
  /\ follow' = [r \in Reports |-> IF follow[r] = "asleep" THEN "seen" ELSE follow[r]]
  /\ UNCHANGED <<pending, sessions, issued, paired, token, new, held, cut, stale,
                 armed, dropped>>

\* The session key is derived and the acceptance sent; or it cannot be, and the
\* session is taken back while the socket stays among the clients.
Seal(c) ==
  /\ Goto(c, "seal", "reading")
  /\ \/ UNCHANGED <<sessions, paired, token>>
     \/ /\ sessions' = sessions \ {token[c]}
        /\ paired' = [paired EXCEPT ![c] = FALSE]
        /\ token' = [token EXCEPT ![c] = 0]
  /\ UNCHANGED <<pending, clients, issued, new, held, cut, stale, armed, follow,
                 dropped>>

-----------------------------------------------------------------------------
(***************************************************************************)
(* Letting a client go.                                                    *)
(***************************************************************************)
\* removeClient: off the list, the session dropped, and a departure that leaves
\* an armed machine with nobody is followed up.
RemoveClient(c) ==
  /\ clients' = clients \ {c}
  /\ sessions' = sessions \ {token[c]}
  /\ IF armed /\ clients' = {} /\ \E r \in Reports : follow[r] = "none"
     THEN follow' = [follow EXCEPT
                       ![CHOOSE r \in Reports : follow[r] = "none"] = "asleep"]
     ELSE UNCHANGED follow

\* sessionStillLive, for any message but a pairing.  A live session is touched,
\* which changes nothing here; a dead one has its socket closed under it...
Refuse(c) ==
  /\ Goto(c, "reading", "expel")
  /\ paired[c] /\ token[c] \notin sessions
  /\ cut' = [cut EXCEPT ![c] = TRUE]
  /\ UNCHANGED <<pending, clients, sessions, issued, paired, token, new, held,
                 stale, armed, follow, dropped>>

\* ...and is removed, and the goroutine goes back to reading.
Expel(c) ==
  /\ Goto(c, "expel", "reading")
  /\ RemoveClient(c)
  /\ UNCHANGED <<pending, issued, paired, token, new, held, cut, stale, armed,
                 dropped>>

\* The peer goes, at any moment.
PeerLeaves(c) ==
  /\ pc[c] \notin {"new", "gone"} /\ ~cut[c]
  /\ cut' = [cut EXCEPT ![c] = TRUE]
  /\ UNCHANGED <<pending, clients, sessions, issued, own, stale, armed, follow,
                 dropped>>

\* A read of a socket that is not paired has a deadline.
Deadline(c) ==
  /\ pc[c] = "reading" /\ ~paired[c] /\ ~cut[c]
  /\ cut' = [cut EXCEPT ![c] = TRUE]
  /\ UNCHANGED <<pending, clients, sessions, issued, own, stale, armed, follow,
                 dropped>>

\* A failed read ends the connection, with the deferred calls.
ReadFails(c) ==
  /\ Goto(c, "reading", "leave")
  /\ cut[c]
  /\ UNCHANGED <<pending, clients, sessions, issued, paired, token, new, held,
                 cut, stale, armed, follow, dropped>>

Leave(c) ==
  /\ Goto(c, "leave", "remove")
  /\ ReleasePending(c)
  /\ UNCHANGED <<clients, sessions, issued, paired, token, new, cut, stale,
                 armed, follow, dropped>>

\* Mutant: a socket that is not paired has nothing to be removed.
RemovePaired(c) ==
  /\ Goto(c, "remove", "gone")
  /\ IF paired[c] THEN RemoveClient(c) ELSE UNCHANGED <<clients, sessions, follow>>
  /\ UNCHANGED <<pending, issued, paired, token, new, held, cut, stale, armed,
                 dropped>>

Remove(c) ==
  /\ Goto(c, "remove", "gone")
  /\ RemoveClient(c)
  /\ UNCHANGED <<pending, issued, paired, token, new, held, cut, stale, armed,
                 dropped>>

-----------------------------------------------------------------------------
(***************************************************************************)
(* dropExpiredSessions, on the heartbeat: the list is made under the lock, *)
(* the clients on it are closed and removed without it.                    *)
(***************************************************************************)
Expired == {c \in clients : paired[c] /\ token[c] \notin sessions}

\* Mutant: only a message from the phone finds a dead session out.
NeverLooks ==
  /\ stale = {} /\ Expired # {}
  /\ UNCHANGED vars

Collect ==
  /\ stale = {} /\ Expired # {}
  /\ stale' = Expired
  /\ UNCHANGED <<pending, clients, sessions, issued, own, cut, armed, follow,
                 dropped>>

\* client.close, and removeClient after it.
CloseStale(c) ==
  /\ c \in stale /\ ~cut[c]
  /\ cut' = [cut EXCEPT ![c] = TRUE]
  /\ dropped' = IF token[c] \in sessions THEN dropped \cup {c} ELSE dropped
  /\ UNCHANGED <<pending, clients, sessions, issued, own, stale, armed, follow>>

RemoveStale(c) ==
  /\ c \in stale /\ cut[c]
  /\ RemoveClient(c)
  /\ stale' = stale \ {c}
  /\ UNCHANGED <<pending, issued, own, cut, armed, dropped>>

Heartbeat == Collect \/ \E c \in Sockets : CloseStale(c) \/ RemoveStale(c)

(***************************************************************************)
(* What else happens to sessions and to the watch.                         *)
(***************************************************************************)
\* A session passes its lifetime or its idle limit, and is not valid again.
Expire(t) ==
  /\ t \in sessions
  /\ sessions' = sessions \ {t}
  /\ UNCHANGED <<pending, clients, issued, own, cut, stale, armed, follow,
                 dropped>>

\* Manager.Regenerate.
Rotate ==
  /\ sessions # {}
  /\ sessions' = {}
  /\ UNCHANGED <<pending, clients, issued, own, cut, stale, armed, follow,
                 dropped>>

Toggle ==
  /\ armed' = ~armed
  /\ UNCHANGED <<pending, clients, sessions, issued, own, cut, stale, follow,
                 dropped>>

\* The grace period is over: reported if there is nobody, and nothing otherwise.
FollowUp(r) ==
  /\ follow[r] \in {"asleep", "seen"}
  /\ follow' = [follow EXCEPT ![r] = "over"]
  /\ UNCHANGED <<pending, clients, sessions, issued, own, cut, stale, armed,
                 dropped>>

Pairing(c) == GiveBack(c) \/ Mark(c) \/ Release(c) \/ Enter(c) \/ Seal(c)
Leaving(c) ==
  Deadline(c) \/ Expel(c) \/ ReadFails(c) \/ Leave(c) \/ Remove(c)

Next ==
  \/ \E c \in Sockets : \/ Accept(c) \/ Authenticate(c) \/ Pairing(c)
                        \/ Refuse(c) \/ PeerLeaves(c) \/ Leaving(c)
  \/ Heartbeat
  \/ \E t \in Tokens : Expire(t)
  \/ Rotate \/ Toggle
  \/ \E r \in Reports : FollowUp(r)

Spec == Init /\ [][Next]_vars

\* A connection's goroutine gets on with what it is doing, the deadline of an
\* unpaired socket comes, and the heartbeat beats.  Nobody has to connect, pair,
\* write or leave.
FairSpec ==
  /\ Spec
  /\ \A c \in Sockets : WF_vars(Pairing(c)) /\ WF_vars(Leaving(c))
  /\ WF_vars(Heartbeat)

-----------------------------------------------------------------------------
\* The unpaired slots in use are exactly those of the sockets that have not
\* paired, at every address: none is lost, none is given back twice.
\* (acquirePending, releasePending.)
SlotsAreCounted ==
  /\ total = Cardinality({c \in Sockets : held[c]})
  /\ \A a \in Addrs :
       byAddr[a] = Cardinality({c \in Sockets : held[c] /\ Addr[c] = a})
  /\ \A c \in Sockets : pc[c] \in {"remove", "gone"} => ~held[c]

\* Every live session is in the hands of a socket that is still open: none can
\* fill the cap for nobody, however often a phone pairs again and however it is
\* thrown out.  (handleAuth, removeClient, dropExpiredSessions.)
SessionsAreHeld ==
  \A t \in sessions :
    \E c \in Sockets : pc[c] # "gone" /\ (token[c] = t \/ new[c] = t)

\* A socket that is gone is not counted as a phone, whichever of its goroutine
\* and the heartbeat removed it last.  (Enter, removeClient.)
GoneIsGone == \A c \in clients : pc[c] # "gone"

\* A client whose session has ended does not stay: the heartbeat finds it, if
\* it never writes a word.  (dropExpiredSessions.)
ExpiredLeave ==
  \A c \in Sockets :
    (c \in clients /\ paired[c] /\ token[c] \notin sessions)
      ~> (c \notin clients \/ token[c] \in sessions)

(***************************************************************************)
(* What the source says, and what the code does not keep.                  *)
(***************************************************************************)

\* The heartbeat disconnects clients "whose session is no longer valid".
OnlyTheExpired == dropped = {}

\* "A phone that reconnects inside [the grace period] never really left": what
\* is reported is an absence as long as the grace period.
AbsenceIsWhole ==
  [][\A r \in Reports :
       (follow[r] = "seen" /\ follow'[r] = "over") => ~(clients = {} /\ armed)]_vars
=============================================================================
