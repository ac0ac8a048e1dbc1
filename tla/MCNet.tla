-------------------------------- MODULE MCNet ---------------------------------
\* The connections of the phones: how many there are, which are paired and which sessions
\* they hold (Connections), and what one of them exchanges with the daemon to be paired and
\* then to talk sealed (Handshake).  A behaviour is one of the two.  Handshake is taken
\* with its theorems, for Net_proofs to cite them of either instance.
EXTENDS Connections, Sequences, TLC

CONSTANT Parts   \* those TLC is to run, one to a behaviour

OneAddr == "c1" :> "a" @@ "c2" :> "a"

VARIABLES
  part,   \* the one this behaviour is of
  pairing_gen, pairing_conn, pairing_up, pairing_session, pairing_sent,
  pairing_received, pairing_pc, pairing_job, pairing_client, pairing_casting,
  pairing_phone, pairing_wire, pairing_air, pairing_heard, pairing_history,
  talking_gen, talking_conn, talking_up, talking_session, talking_sent,
  talking_received, talking_pc, talking_job, talking_client, talking_casting,
  talking_phone, talking_wire, talking_air, talking_heard, talking_history

Pa == INSTANCE Handshake_proofs WITH
    MaxConns <- 2, MaxAuths <- 2, MaxSaid <- 1, MaxTrouble <- 1, gen <- pairing_gen,
    conn <- pairing_conn, up <- pairing_up, session <- pairing_session,
    sent <- pairing_sent, received <- pairing_received, pc <- pairing_pc,
    job <- pairing_job, client <- pairing_client, casting <- pairing_casting,
    phone <- pairing_phone, wire <- pairing_wire, air <- pairing_air,
    heard <- pairing_heard, history <- pairing_history

Ta == INSTANCE Handshake_proofs WITH
    MaxConns <- 1, MaxAuths <- 2, MaxSaid <- 2, MaxTrouble <- 1, gen <- talking_gen,
    conn <- talking_conn, up <- talking_up, session <- talking_session,
    sent <- talking_sent, received <- talking_received, pc <- talking_pc,
    job <- talking_job, client <- talking_client, casting <- talking_casting,
    phone <- talking_phone, wire <- talking_wire, air <- talking_air,
    heard <- talking_heard, history <- talking_history

pairingVars ==
  <<pairing_gen, pairing_conn, pairing_up, pairing_session, pairing_sent,
    pairing_received, pairing_pc, pairing_job, pairing_client, pairing_casting,
    pairing_phone, pairing_wire, pairing_air, pairing_heard, pairing_history>>
talkingVars ==
  <<talking_gen, talking_conn, talking_up, talking_session, talking_sent,
    talking_received, talking_pc, talking_job, talking_client, talking_casting,
    talking_phone, talking_wire, talking_air, talking_heard, talking_history>>

all ==
  <<part, vars, pairingVars, talkingVars>>

\* The parts that do not run are in one of their initial states and stay there.
AllInit ==
  /\ part \in Parts
  /\ Init
  /\ part = "sockets" \/ ~armed
  /\ Pa!Init
  /\ Ta!Init

AllNext ==
  /\ UNCHANGED part
  /\ IF part = "sockets" THEN Next ELSE UNCHANGED vars
  /\ IF part = "pairing" THEN Pa!Next ELSE UNCHANGED pairingVars
  /\ IF part = "talking" THEN Ta!Next ELSE UNCHANGED talkingVars

AllSpec == AllInit /\ [][AllNext]_all

\* The goroutines of FairSpec in either module.
AllFairSpec ==
  /\ AllSpec
  /\ \A c \in Sockets : /\ WF_vars(part = "sockets" /\ Pairing(c))
                        /\ WF_vars(part = "sockets" /\ Leaving(c))
  /\ WF_vars(part = "sockets" /\ Heartbeat)
  /\ WF_pairingVars(part = "pairing" /\ Pa!HandleConnection)
  /\ WF_pairingVars(part = "pairing" /\ Pa!Cast)
  /\ WF_pairingVars(part = "pairing" /\ (Pa!PhoneReads \/ Pa!PhoneGivesUp))
  /\ WF_talkingVars(part = "talking" /\ Ta!HandleConnection)
  /\ WF_talkingVars(part = "talking" /\ Ta!Cast)
  /\ WF_talkingVars(part = "talking" /\ (Ta!PhoneReads \/ Ta!PhoneGivesUp))

-----------------------------------------------------------------------------
\* The state of every part is one its program can be in.
TypesOK ==
  /\ part = "sockets" => TypeOK
  /\ part = "pairing" => Pa!TypeOK
  /\ part = "talking" => Ta!TypeOK

\* The theorems about Handshake ask this of its constants.
ASSUME HandshakeConstants == Pa!ConstantsOK /\ Ta!ConstantsOK

\* A client whose session has ended is thrown out.  (dropExpiredSessions.)
ExpiredClientsLeave == part = "sockets" => ExpiredLeave

\* Each end holds the session the other meant, on this connection.  (handshakeProof.)
BothMeantIt == Pa!BothMeantIt /\ Ta!BothMeantIt

\* Nothing follows the acceptance in the clear, and the two ends change their keys at
\* the same place in the stream.  (acceptAndSeal, sendLocked.)
AcceptanceIsLast ==
  /\ Pa!AcceptanceIsLast /\ Pa!InStep
  /\ Ta!AcceptanceIsLast /\ Ta!InStep

\* What an end hears is what the other said, in order and once.  (session.go.)
SealedConversation == Pa!SealedConversation /\ Ta!SealedConversation

\* Who asks to be paired is answered.  (handleAuth.)
Answered == (part = "pairing" => Pa!Answered) /\ (part = "talking" => Ta!Answered)
=============================================================================
