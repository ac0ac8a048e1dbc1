------------------------------ MODULE Handshake ------------------------------
(***************************************************************************)
(* Pairing and the sealed connection it leaves (internal/ws/handshake.go,  *)
(* session.go, client.go, and handleAuth of hub.go).                       *)
(*                                                                         *)
(* The daemon greets a connection with a nonce and the salt of its key;    *)
(* the phone answers with a proof over both nonces; the daemon judges it   *)
(* and accepts with a proof of its own, in the clear, and from there on    *)
(* both ends seal under a key the exchange determines, with a counter in   *)
(* each direction.  The connection's goroutine runs beside a broadcaster   *)
(* and beside a rotation of the key, and the wire may lose frames and      *)
(* deliver old ones again, also those of an earlier connection.            *)
(*                                                                         *)
(* A key and its salt are named by the rotation they came with, a nonce by *)
(* a number never used before; a proof and a session key are the terms     *)
(* they are computed from.  The phone is the one test/harness/phone.go     *)
(* stands in for, with the check and the use of an acceptance in one step. *)
(* Left out: lockouts, slots and the session table, which are in Lockout   *)
(* and Connections (here a pairing may be refused for no reason given).    *)
(***************************************************************************)
EXTENDS Integers, Sequences, FiniteSets

CONSTANTS
  MaxConns,    \* connections the phone opens
  MaxAuths,    \* pairings it asks for
  MaxSaid,     \* frames sealed in one direction of one conversation
  MaxTrouble   \* rotations of the key, and frames the wire loses or delivers again

\* What the constants have to be.
ConstantsOK == {MaxConns, MaxAuths, MaxSaid, MaxTrouble} \subseteq Nat

VARIABLES
  gen,       \* Manager.pairingKey and pairingSalt: the rotation they are from
  conn, up,  \* the connection, which is its server nonce, and whether it is open
  session,   \* each end's session key, or none
  sent,      \* session.sent of each end
  received,  \* session.received of each end, -1 while not seen
  pc, job,   \* where handleAuth is, and what it has read and computed
  client,    \* Client.authenticated and Hub.clients, and the rotation of its token
  casting,   \* a broadcast has collected this client and is about to write
  phone,     \* the phone: what it is doing, its key, the greeting and its nonce
  wire,      \* frames on their way to each end
  air,       \* every frame written so far
  heard,     \* history: the sealed messages each end took
  history    \* history: faults, an end that gave up on a frame, a clear frame
             \* after the acceptance, pairings asked for and granted here

vars == <<gen, conn, up, session, sent, received, pc, job, client, casting, phone,
          wire, air, heard, history>>

Ends == {"daemon", "phone"}
Other(e) == IF e = "daemon" THEN "phone" ELSE "daemon"
None == [none |-> TRUE]

-----------------------------------------------------------------------------
(***************************************************************************)
(* Keys and proofs as the terms they are computed from.                    *)
(***************************************************************************)
Stretched(key, salt) == <<key, salt>>

\* Mutant: a proof over the phone's nonce only.
ProofWithoutOurs(role, strong, sn, cn, seals) ==
  [role |-> role, key |-> strong, sn |-> 0, cn |-> cn, seals |-> seals]

Proof(role, strong, sn, cn, seals) ==
  [role |-> role, key |-> strong, sn |-> sn, cn |-> cn, seals |-> seals]

NewSession(strong, sn, cn) == [key |-> strong, sn |-> sn, cn |-> cn]

Hello == [type |-> "hello", nonce |-> conn, salt |-> gen]
AuthMsg(cn, seals, proof) == [type |-> "auth", cn |-> cn, seals |-> seals, proof |-> proof]
AuthOK(proof) == [type |-> "auth_ok", seals |-> TRUE, proof |-> proof]
Plain(t) == [type |-> t]

Sealed(e, msg) ==
  [type |-> "sealed", key |-> session[e], from |-> e, seq |-> sent[e], body |-> msg]

\* Mutant: a frame is not compared with the ones before it.
OpensAgain(e, f) ==
  /\ f.type = "sealed" /\ session[e] # None
  /\ f.key = session[e] /\ f.from = Other(e)

\* session.open: the other end's frame under this key, and a later one than any
\* before it.
Opens(e, f) ==
  /\ f.type = "sealed" /\ session[e] # None
  /\ f.key = session[e] /\ f.from = Other(e)
  /\ f.seq > received[e]

-----------------------------------------------------------------------------
Init ==
  /\ gen = 0 /\ conn = 0 /\ up = FALSE
  /\ session = [e \in Ends |-> None]
  /\ sent = [e \in Ends |-> 0] /\ received = [e \in Ends |-> -1]
  /\ pc = "read" /\ job = None
  /\ client = [in |-> FALSE, token |-> 0]
  /\ casting = FALSE
  /\ phone = [at |-> "away", key |-> 0, salt |-> 0, cn |-> 0]
  /\ wire = [e \in Ends |-> <<>>]
  /\ air = {} /\ heard = [e \in Ends |-> <<>>]
  /\ history = [faults |-> 0, broke |-> FALSE, bare |-> FALSE, asked |-> {}, made |-> {}]

\* client.send of the daemon, and Send of the phone: sealed once there is a session.
Accepted == \E f \in air : f.type = "auth_ok" /\ f.proof.sn = conn

Room(e) == session[e] = None \/ sent[e] < MaxSaid

Write(e, msg) ==
  LET f == IF session[e] = None THEN msg ELSE Sealed(e, msg) IN
  /\ Room(e)
  /\ wire' = [wire EXCEPT ![Other(e)] = Append(@, f)]
  /\ air' = air \cup {f}
  /\ history' = [history EXCEPT !.bare = @ \/ (e = "daemon" /\ session[e] = None /\ Accepted)]
  /\ sent' = IF session[e] = None THEN sent ELSE [sent EXCEPT ![e] = @ + 1]

Silent == UNCHANGED <<wire, air, history, sent>>

\* A socket that is closed takes whatever is on its way with it, and its client.
Gone ==
  /\ up' = FALSE /\ wire' = [e \in Ends |-> <<>>]
  /\ client' = [in |-> FALSE, token |-> 0]

Close ==
  /\ Gone
  /\ phone' = [phone EXCEPT !.at = IF @ = "impostor" THEN @ ELSE "away"]

GiveUp ==
  /\ Close
  /\ history' = [history EXCEPT !.broke = TRUE]
  /\ UNCHANGED <<gen, conn, session, sent, received, pc, job, casting, air, heard>>

-----------------------------------------------------------------------------
(***************************************************************************)
(* The daemon.                                                             *)
(***************************************************************************)
\* HandleConnection: a new client, greeted.
Connect ==
  /\ ~up /\ pc = "read" /\ ~casting /\ conn < MaxConns
  /\ conn' = conn + 1 /\ up' = TRUE
  /\ session' = [e \in Ends |-> None]
  /\ sent' = [e \in Ends |-> 0] /\ received' = [e \in Ends |-> -1]
  /\ client' = [in |-> FALSE, token |-> 0]
  /\ phone' = [phone EXCEPT !.at = "greeting"]
  /\ LET hello == [Hello EXCEPT !.nonce = conn + 1] IN
       /\ wire' = [daemon |-> <<>>, phone |-> <<hello>>]
       /\ air' = air \cup {hello}
  /\ history' = [history EXCEPT !.bare = FALSE, !.asked = {}, !.made = {}]
  /\ UNCHANGED <<gen, pc, job, casting, heard>>

\* What the read loop has of the next frame, opened if the connection is sealed.
Incoming == Head(wire.daemon)
Message == IF session.daemon = None THEN Incoming ELSE Incoming.body

Reading == up /\ pc = "read" /\ wire.daemon # <<>>
Readable == session.daemon = None \/ Opens("daemon", Incoming)

\* What a sealed frame says, and where in which conversation.
Utterance(f) == [of |-> f.key, by |-> f.from, at |-> f.seq, what |-> f.body]

\* Mutant: the next counter is remembered, not the last.
TakeForgetting(e, f) ==
  IF session[e] = None THEN UNCHANGED <<received, heard>>
  ELSE /\ received' = [received EXCEPT ![e] = f.seq + 1]
       /\ heard' = [heard EXCEPT ![e] = Append(@, Utterance(f))]

Take(e, f) ==
  IF session[e] = None THEN UNCHANGED <<received, heard>>
  ELSE /\ received' = [received EXCEPT ![e] = f.seq]
       /\ heard' = [heard EXCEPT ![e] = Append(@, Utterance(f))]

\* The answer to a message leaves in the step that takes it: nothing else on this
\* connection can come between, and a broadcast before it is a broadcast before both.
Answer(msg) ==
  LET f == IF session.daemon = None THEN msg ELSE Sealed("daemon", msg) IN
  /\ Room("daemon")
  /\ wire' = [daemon |-> Tail(wire.daemon), phone |-> Append(wire.phone, f)]
  /\ air' = air \cup {f}
  /\ history' = [history EXCEPT !.bare = @ \/ (session.daemon = None /\ Accepted)]
  /\ sent' = IF session.daemon = None THEN sent ELSE [sent EXCEPT !.daemon = @ + 1]

\* A connection that was sealed and hears something that does not open is over.
Unreadable ==
  /\ Reading /\ ~Readable
  /\ GiveUp

Live == client.in /\ client.token = gen

\* handleMessage, for anything but a pairing.
HandleOrder ==
  /\ Reading /\ Readable /\ Message.type # "auth"
  /\ ~client.in \/ Live
  /\ Take("daemon", Incoming)
  /\ Answer(Plain(IF client.in THEN "reply" ELSE "auth_fail"))
  /\ UNCHANGED <<gen, conn, up, session, pc, job, client, casting, phone>>

\* sessionStillLive: the token went with the key it was paired under.
HandleExpired ==
  /\ Reading /\ Readable /\ Message.type # "auth"
  /\ client.in /\ ~Live
  /\ Take("daemon", Incoming)
  /\ Close
  /\ UNCHANGED <<gen, conn, session, sent, pc, job, casting, air, history>>

\* handleAuth reads the key, once, and refuses an app too old to prove or to seal.
HandleAuth ==
  /\ Reading /\ Readable /\ Message.type = "auth"
  /\ Take("daemon", Incoming)
  /\ IF Message.seals
     THEN /\ pc' = "judge"
          /\ job' = [msg |-> Message, key |-> gen, holds |-> FALSE,
                     new |-> None, proof |-> None]
          /\ wire' = [wire EXCEPT !.daemon = Tail(@)]
          /\ UNCHANGED <<sent, air, history>>
     ELSE Answer(Plain("auth_fail")) /\ UNCHANGED <<pc, job>>
  /\ UNCHANGED <<gen, conn, up, session, client, casting, phone>>

\* authKey: the proof is judged under the salt of this moment.
AuthKey ==
  /\ pc = "judge" /\ pc' = "authenticate"
  /\ job' = [job EXCEPT !.holds =
       job.msg.proof = Proof("client", Stretched(job.key, gen), conn, job.msg.cn, job.msg.seals)]
  /\ UNCHANGED <<gen, conn, up, session, sent, received, client, casting, phone,
                 wire, air, heard, history>>

\* Mutant: a proof that does not hold is dropped without an answer.
AuthenticateSilently ==
  /\ pc = "authenticate"
  /\ IF job.holds /\ job.key = gen
     THEN /\ pc' = "enter" /\ UNCHANGED job
          /\ client' = IF up THEN [client EXCEPT !.token = gen] ELSE client
     ELSE pc' = "read" /\ job' = None /\ UNCHANGED client
  /\ Silent
  /\ UNCHANGED <<gen, conn, up, session, received, casting, phone, heard>>

\* Manager.Authenticate compares with the key of this moment; a lockout or a full
\* table of sessions refuses whatever the key.
Authenticate ==
  /\ pc = "authenticate"
  /\ IF job.holds /\ job.key = gen
     THEN /\ pc' = "enter" /\ client' = IF up THEN [client EXCEPT !.token = gen] ELSE client
          /\ UNCHANGED <<job, wire, air, history, sent>>
     ELSE /\ pc' = "read" /\ job' = None /\ UNCHANGED client
          /\ IF up THEN Write("daemon", Plain("auth_fail")) ELSE Silent
  /\ UNCHANGED <<gen, conn, up, session, received, casting, phone, heard>>

Refuse ==
  /\ pc = "authenticate" /\ pc' = "read" /\ job' = None
  /\ IF up THEN Write("daemon", Plain("auth_fail")) ELSE Silent
  /\ UNCHANGED <<gen, conn, up, session, received, client, casting, phone, heard>>

\* The client is entered before it has been told.
Enter ==
  /\ pc = "enter" /\ pc' = "derive"
  /\ client' = [client EXCEPT !.in = up]
  /\ UNCHANGED <<gen, conn, up, session, sent, received, job, casting, phone, wire,
                 air, heard, history>>

SealSession ==
  /\ pc = "derive" /\ pc' = "prove"
  /\ job' = [job EXCEPT !.new = NewSession(Stretched(job.key, gen), conn, job.msg.cn)]
  /\ UNCHANGED <<gen, conn, up, session, sent, received, client, casting, phone, wire,
                 air, heard, history>>

\* The acceptance is built, with the daemon's own proof under the salt of this moment.
Prove ==
  /\ pc = "prove" /\ pc' = "accept"
  /\ job' = [job EXCEPT !.proof =
       Proof("server", Stretched(job.key, gen), conn, job.msg.cn, TRUE)]
  /\ UNCHANGED <<gen, conn, up, session, sent, received, client, casting, phone, wire,
                 air, heard, history>>

Install(e, s) ==
  /\ session' = [session EXCEPT ![e] = s]
  /\ received' = [received EXCEPT ![e] = -1]

\* Mutants: the acceptance leaves before the session is there, and after it.
AcceptThenSeal ==
  /\ pc = "accept" /\ up
  /\ IF job.holds
     THEN /\ Write("daemon", AuthOK(job.proof)) /\ job' = [job EXCEPT !.holds = FALSE]
          /\ UNCHANGED <<session, received, pc>>
     ELSE /\ Install("daemon", job.new) /\ sent' = [sent EXCEPT !.daemon = 0]
          /\ pc' = "catch_up" /\ UNCHANGED <<wire, air, history, job>>
  /\ UNCHANGED <<gen, conn, up, client, casting, phone, heard>>

SealThenAccept ==
  /\ pc = "accept" /\ up
  /\ IF job.holds
     THEN /\ Install("daemon", job.new) /\ sent' = [sent EXCEPT !.daemon = 0]
          /\ job' = [job EXCEPT !.holds = FALSE] /\ UNCHANGED <<wire, air, history, pc>>
     ELSE /\ wire' = [wire EXCEPT !.phone = Append(@, AuthOK(job.proof))]
          /\ air' = air \cup {AuthOK(job.proof)}
          /\ pc' = "catch_up" /\ UNCHANGED <<session, received, history, job, sent>>
  /\ UNCHANGED <<gen, conn, up, client, casting, phone, heard>>

\* acceptAndSeal, under the write lock: still as this connection spoke before, and
\* everything after it under the new session.
AcceptAndSeal ==
  /\ pc = "accept" /\ pc' = "catch_up"
  /\ IF up
     THEN LET f == IF session.daemon = None THEN AuthOK(job.proof)
                   ELSE Sealed("daemon", AuthOK(job.proof))
          IN  /\ Room("daemon")
              /\ wire' = [wire EXCEPT !.phone = Append(@, f)]
              /\ air' = air \cup {f}
     ELSE UNCHANGED <<wire, air>>
  /\ Install("daemon", job.new) /\ sent' = [sent EXCEPT !.daemon = 0]
  /\ history' = [history EXCEPT !.made = @ \cup {job.new}]
  /\ UNCHANGED <<gen, conn, up, job, client, casting, phone, heard>>

\* An alarm that is already sounding, or a release, is told on arrival.
CatchUp ==
  /\ pc = "catch_up" /\ pc' = "read" /\ job' = None
  /\ \/ up /\ Write("daemon", Plain("alert"))
     \/ Silent
  /\ UNCHANGED <<gen, conn, up, session, received, client, casting, phone, heard>>

\* PushAlert and broadcastStatus: who is there is read under the lock, and written
\* to without it.
Collect ==
  /\ ~casting /\ client.in /\ sent.daemon < MaxSaid /\ Len(wire.phone) < MaxSaid
  /\ casting' = TRUE
  /\ UNCHANGED <<gen, conn, up, session, sent, received, pc, job, client, phone, wire,
                 air, heard, history>>

Cast ==
  /\ casting /\ casting' = FALSE
  /\ IF up /\ Room("daemon") THEN Write("daemon", Plain("alert")) ELSE Silent
  /\ UNCHANGED <<gen, conn, up, session, received, pc, job, client, phone, heard>>

\* Regenerate: a new key and salt, and no session left.
Rotate ==
  /\ gen + history.faults < MaxTrouble /\ gen' = gen + 1
  /\ UNCHANGED <<conn, up, session, sent, received, pc, job, client, casting, phone,
                 wire, air, heard, history>>

-----------------------------------------------------------------------------
(***************************************************************************)
(* The phone.                                                              *)
(***************************************************************************)
Strong == Stretched(phone.key, phone.salt)

\* The owner reads the key off the screen again.
Scan ==
  /\ phone.at # "waiting" /\ phone.key # gen
  /\ phone' = [phone EXCEPT !.key = gen]
  /\ UNCHANGED <<gen, conn, up, session, sent, received, pc, job, client, casting, wire,
                 air, heard, history>>

\* A pairing is asked for with a nonce of the phone's own; an old app neither proves
\* nor asks to seal.
Ask(seals) ==
  /\ up /\ phone.at \in {"greeted", "refused", "paired"} /\ phone.cn < MaxAuths
  /\ LET cn == phone.cn + 1
         proof == Proof("client", Strong, conn, cn, seals)
         msg == AuthMsg(cn, seals, IF seals THEN proof ELSE None)
         f == IF session.phone = None THEN msg ELSE Sealed("phone", msg)
     IN /\ Room("phone")
        /\ phone' = [phone EXCEPT !.at = "waiting", !.cn = cn]
        /\ wire' = [wire EXCEPT !.daemon = Append(@, f)]
        /\ air' = air \cup {f}
        /\ history' = [history EXCEPT !.asked = @ \cup {cn}]
        /\ sent' = IF session.phone = None THEN sent ELSE [sent EXCEPT !.phone = @ + 1]
  /\ UNCHANGED <<gen, conn, up, session, received, pc, job, client, casting, heard>>

Order ==
  /\ up /\ phone.at = "paired" /\ sent.phone < MaxSaid
  /\ Write("phone", Plain("order"))
  /\ UNCHANGED <<gen, conn, up, session, received, pc, job, client, casting, phone, heard>>

\* What the phone makes of a frame: an acceptance has to prove the laptop.
Arriving == Head(wire.phone)
Opened == IF Arriving.type = "sealed" THEN Arriving.body ELSE Arriving

Understood ==
  LET msg == Opened IN
  IF phone.at = "greeting" /\ msg.type = "hello" THEN "greeted"
  ELSE IF phone.at = "waiting" /\ msg.type = "auth_fail" THEN "refused"
  ELSE IF phone.at = "waiting" /\ msg.type = "auth_ok"
  THEN IF msg.proof = Proof("server", Strong, conn, phone.cn, msg.seals)
       THEN "paired" ELSE "impostor"
  ELSE phone.at

PhoneReads ==
  /\ up /\ wire.phone # <<>>
  /\ Arriving.type = "sealed" => Opens("phone", Arriving)
  /\ phone' = [phone EXCEPT !.at = Understood,
       !.salt = IF phone.at = "greeting" /\ Opened.type = "hello" THEN Opened.salt ELSE @]
  /\ IF Understood = "impostor"
     THEN Gone
     ELSE wire' = [wire EXCEPT !.phone = Tail(@)] /\ UNCHANGED <<up, client>>
  /\ IF Arriving.type = "sealed"
     THEN heard' = [heard EXCEPT !.phone = Append(@, Utterance(Arriving))]
     ELSE UNCHANGED heard
  /\ IF phone.at = "waiting" /\ Understood = "paired"
     THEN Install("phone", NewSession(Strong, conn, phone.cn))
          /\ sent' = [sent EXCEPT !.phone = 0]
     ELSE /\ UNCHANGED <<session, sent>>
          /\ received' = IF Arriving.type = "sealed"
                         THEN [received EXCEPT !.phone = Arriving.seq] ELSE received
  /\ UNCHANGED <<gen, conn, pc, job, casting, air, history>>

PhoneGivesUp ==
  /\ up /\ wire.phone # <<>>
  /\ Arriving.type = "sealed" /\ ~Opens("phone", Arriving)
  /\ GiveUp

PhoneLeaves ==
  /\ up /\ Close
  /\ UNCHANGED <<gen, conn, session, sent, received, pc, job, casting, air, heard, history>>

-----------------------------------------------------------------------------
(***************************************************************************)
(* The wire.                                                               *)
(***************************************************************************)
Lose(e) ==
  /\ gen + history.faults < MaxTrouble /\ wire[e] # <<>>
  /\ wire' = [wire EXCEPT ![e] = Tail(@)]
  /\ history' = [history EXCEPT !.faults = @ + 1]
  /\ UNCHANGED <<gen, conn, up, session, sent, received, pc, job, client, casting, phone,
                 air, heard>>

\* Something either end wrote, on this connection or an earlier one, arrives (again).
Repeat(e) ==
  /\ gen + history.faults < MaxTrouble /\ up
  /\ \E f \in air : wire' = [wire EXCEPT ![e] = <<f>> \o @]
  /\ history' = [history EXCEPT !.faults = @ + 1]
  /\ UNCHANGED <<gen, conn, up, session, sent, received, pc, job, client, casting, phone,
                 air, heard>>

-----------------------------------------------------------------------------
HandleConnection ==
  Unreadable \/ HandleOrder \/ HandleExpired \/ HandleAuth \/ AuthKey \/ Authenticate
  \/ Refuse \/ Enter \/ SealSession \/ Prove \/ AcceptAndSeal \/ CatchUp

Next ==
  \/ HandleConnection
  \/ Connect \/ Collect \/ Cast \/ Rotate
  \/ Scan \/ Order \/ PhoneReads \/ PhoneGivesUp \/ PhoneLeaves
  \/ \E seals \in BOOLEAN : Ask(seals)
  \/ \E e \in Ends : Lose(e) \/ Repeat(e)

Spec == Init /\ [][Next]_vars

\* The connection's goroutine, a broadcast that has begun, and the phone's reading
\* get on with it; nobody has to ask, order, rotate or leave.
FairSpec ==
  Spec /\ WF_vars(HandleConnection) /\ WF_vars(Cast) /\ WF_vars(PhoneReads \/ PhoneGivesUp)

-----------------------------------------------------------------------------
TypeOK ==
  /\ gen \in 0 .. MaxTrouble /\ conn \in 0 .. MaxConns /\ up \in BOOLEAN
  /\ DOMAIN session = Ends
  /\ \A e \in Ends : sent[e] \in 0 .. MaxSaid /\ received[e] \in -1 .. MaxSaid - 1
  /\ pc \in {"read", "judge", "authenticate", "enter", "derive", "prove", "accept", "catch_up"}
  /\ client \in [in : BOOLEAN, token : 0 .. MaxTrouble]
  /\ casting \in BOOLEAN
  /\ phone \in [at : {"away", "greeting", "greeted", "waiting", "refused", "paired", "impostor"},
                key : 0 .. MaxTrouble, salt : 0 .. MaxTrouble, cn : 0 .. MaxAuths]

\* What either end takes for the other's is what the other said in this conversation,
\* in that order and once, whatever the wire loses or repeats: no pair of key and
\* counter ever seals two messages, and no frame is opened twice.  (session.go.)
said == {Utterance(f) : f \in {g \in air : g.type = "sealed"}}

Channel == INSTANCE SealedChannel

SealedConversation == Channel!Spec

\* Neither end holds a session the other did not mean on this very connection: the
\* phone's was made here by the daemon, the daemon's was asked for here by the phone,
\* whatever proofs of other connections arrive again.  (handshakeProof.)
BothMeantIt ==
  /\ session.phone # None => session.phone \in history.made
  /\ session.daemon # None => session.daemon.cn \in history.asked

\* The acceptance is the last frame the daemon writes in the clear, whichever
\* goroutine writes.  (acceptAndSeal.)
AcceptanceIsLast == ~history.bare

\* As long as the wire does neither, no end meets a frame it cannot open: the two
\* change their keys at the same place in the stream, also when a paired phone pairs
\* again with broadcasts on their way.  (acceptAndSeal, sendLocked.)
InStep == history.broke => history.faults > 0

\* A phone that asks over a wire that keeps its frames is answered, or the
\* connection ends.
Answered ==
  [](history.faults = 0 /\ \A e \in Ends : sent[e] < MaxSaid)
    => (phone.at = "waiting" ~> phone.at # "waiting")

\* What the code says of a rotation in the middle of a pairing: it fails the pairing,
\* and the phone is never left to think that the laptop is somebody else.
RotationIsRefusal == phone.at = "impostor" => history.faults > 0
=============================================================================
