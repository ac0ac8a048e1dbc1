--------------------------- MODULE Handshake_proofs ---------------------------
(***************************************************************************)
(* Proofs about Handshake, for any number of connections, pairings and     *)
(* frames, with the wire repeating, losing and the key rotating as often   *)
(* as MaxTrouble says.                                                     *)
(*                                                                         *)
(* The invariant comes in layers, each resting on those before it: the     *)
(* shape of what is on the air (Typed); what a proof on the air says of    *)
(* who asked and who granted (Meant); which counters and keys have been    *)
(* used (Sent, Numbered); and, as long as the wire keeps its frames, where *)
(* in the stream the two ends are (Tuned).                                 *)
(***************************************************************************)
EXTENDS Handshake, FunctionTheorems, FiniteSetTheorems, SequenceTheorems, TLAPS

Rotations == 0 .. MaxTrouble
Conns == 0 .. MaxConns
Nonces == 0 .. MaxAuths

-----------------------------------------------------------------------------
(***************************************************************************)
(* What there is on the air.                                               *)
(***************************************************************************)
Keys == [key : Rotations \X Rotations, sn : Conns, cn : Nonces]
Proofs == [role : {"client", "server"}, key : Rotations \X Rotations, sn : Conns,
           cn : Nonces, seals : BOOLEAN]
Pleas == [type : {"auth"}, cn : Nonces, seals : BOOLEAN, proof : Proofs \cup {None}]
Grants == [type : {"auth_ok"}, seals : {TRUE}, proof : Proofs]
Messages ==
  [type : {"hello"}, nonce : Conns, salt : Rotations] \cup Pleas \cup Grants
    \cup [type : {"auth_fail", "reply", "alert", "order"}]
SealedFrames ==
  [type : {"sealed"}, key : Keys, from : Ends, seq : 0 .. MaxSaid - 1, body : Messages]
Frames == Messages \cup SealedFrames

Body(f) == IF f.type = "sealed" THEN f.body ELSE f

\* Where handleAuth has a message, and where it has taken the proof for good.
Working == {"judge", "authenticate", "enter", "derive", "prove", "accept"}
Convinced == {"enter", "derive", "prove", "accept"}

JobTyped ==
  /\ pc \in Working =>
       /\ job \in [msg : Pleas, key : Rotations, holds : BOOLEAN, new : Keys \cup {None},
                   proof : Proofs \cup {None}]
       /\ job.msg.seals
  /\ pc \in {"prove", "accept"} => job.new \in Keys
  /\ pc = "accept" => job.proof \in Proofs

Typed ==
  /\ ConstantsOK /\ TypeOK /\ JobTyped
  /\ session \in [Ends -> Keys \cup {None}]
  /\ sent \in [Ends -> 0 .. MaxSaid] /\ received \in [Ends -> -1 .. MaxSaid - 1]
  /\ wire \in [Ends -> Seq(air)] /\ air \subseteq Frames
  /\ heard \in [Ends -> Seq(said)]
  /\ history \in [faults : Nat, broke : BOOLEAN, bare : BOOLEAN, asked : SUBSET Nonces,
                  made : SUBSET Keys]

-----------------------------------------------------------------------------
(***************************************************************************)
(* What a proof says.                                                      *)
(***************************************************************************)
\* A plea of this connection was asked here, under the salt the phone was greeted with.
PleaOK(m) ==
  m.type = "auth" /\ m.seals =>
    /\ m.proof \in Proofs /\ m.proof.sn <= conn
    /\ m.proof.sn = conn =>
         m.cn \in history.asked /\ m.proof.key[2] = phone.salt /\ phone.at # "greeting"

\* A grant of this connection is for a session that was made here, unless the key was
\* rotated in between, which its proof shows.
GrantOK(m) ==
  m.type = "auth_ok" =>
    /\ m.proof.sn <= conn
    /\ m.proof.sn = conn =>
         /\ phone.at # "greeting" /\ session["daemon"] # None
         /\ m.proof.key[2] = phone.salt =>
              NewSession(m.proof.key, conn, m.proof.cn) \in history.made

JobOK ==
  /\ pc \in Working => PleaOK(job.msg)
  /\ pc \in Convinced \/ (pc = "authenticate" /\ job.holds) =>
       /\ job.msg.proof.sn = conn /\ job.msg.proof.key = <<job.key, phone.salt>>
       /\ phone.salt <= gen
  /\ pc \in {"prove", "accept"} =>
       /\ job.new = NewSession(<<job.key, job.new.key[2]>>, conn, job.msg.cn)
       /\ phone.salt <= job.new.key[2] /\ job.new.key[2] <= gen
  /\ pc = "accept" =>
       /\ job.proof = Proof("server", <<job.key, job.proof.key[2]>>, conn, job.msg.cn, TRUE)
       /\ job.new.key[2] <= job.proof.key[2] /\ job.proof.key[2] <= gen

SessionsOK ==
  /\ \A e \in Ends : session[e] # None => session[e] \in history.made
  /\ \A m \in history.made : m.sn = conn /\ m.cn \in history.asked

Meant ==
  /\ \A f \in air : PleaOK(Body(f)) /\ GrantOK(Body(f))
  /\ JobOK /\ SessionsOK /\ AcceptanceIsLast

-----------------------------------------------------------------------------
(***************************************************************************)
(* Which keys and counters have been used.                                 *)
(***************************************************************************)
\* The phone has a key with a nonce it asked for, and before the one it waits for.
Older(cn) == cn <= phone.cn /\ (phone.at = "waiting" => cn < phone.cn)

KeyOK(e, k) ==
  /\ k.sn <= conn
  /\ e = "daemon" => (k.sn = conn => k \in history.made)
  /\ e = "phone" => Older(k.cn)

SealOK(f) ==
  f.type = "sealed" =>
    /\ KeyOK(f.from, f.key)
    /\ f.from = "phone" /\ f.body.type = "auth" => f.body.cn > f.key.cn
    /\ f.key = session[f.from] => f.seq < sent[f.from]

SealsOK == \A f \in air : SealOK(f)

\* Every pairing here is for a later nonce than those before.
RisingOK ==
  /\ session["phone"] # None => Older(session["phone"].cn)
  /\ \A m \in history.made : session["daemon"] # None /\ m.cn <= session["daemon"].cn
  /\ pc \in Working => \A m \in history.made : m.cn < job.msg.cn

HeardOK ==
  \A e \in Ends : \A i \in DOMAIN heard[e] :
    /\ KeyOK(e, heard[e][i].of)
    /\ heard[e][i].of = session[e] => heard[e][i].at <= received[e]

Sent == SealsOK /\ RisingOK /\ HeardOK

\* No key and counter have sealed two messages, and no counter was skipped.
Numbered ==
  /\ \A f, g \in air :
       /\ f.type = "sealed" /\ g.type = "sealed"
       /\ f.key = g.key /\ f.from = g.from /\ f.seq = g.seq
       => f = g
  /\ \A e \in Ends : session[e] # None =>
       \A n \in 0 .. sent[e] - 1 : \E f \in air :
         f.type = "sealed" /\ f.key = session[e] /\ f.from = e /\ f.seq = n

-----------------------------------------------------------------------------
(***************************************************************************)
(* Where the two ends are, as long as the wire keeps its frames.           *)
(***************************************************************************)
\* From place a to place b, what one end wrote under one key, counting up from low.
Stretch(w, a, b, e, key, low, high) ==
  /\ low < high
  /\ \A i \in a .. b : w[i].type = "sealed" <=> key # None
  /\ key # None => \A i \in a .. b :
       /\ w[i].key = key /\ w[i].from = e /\ low < w[i].seq /\ w[i].seq < high
       /\ \A j \in i + 1 .. b : w[i].seq < w[j].seq

Asks(f) == Body(f).type = "auth"
Answers(f) == Body(f).type \in {"auth_ok", "auth_fail"}

\* No answer from place a to place b.
NoAnswer(w, a, b) == \A i \in a .. b : ~Answers(w[i])

\* Both ends hold the same key, or none, and what is on its way to the phone is under it.
InTune ==
  /\ session["daemon"] = session["phone"]
  /\ Stretch(wire["phone"], 1, Len(wire["phone"]), "daemon", session["phone"],
             received["phone"], sent["daemon"])

Unanswered == InTune /\ NoAnswer(wire["phone"], 1, Len(wire["phone"]))

\* The one answer on its way to the phone is at place k.
OneAnswer(k) ==
  /\ NoAnswer(wire["phone"], 1, k - 1)
  /\ NoAnswer(wire["phone"], k + 1, Len(wire["phone"]))

Quiet ==
  /\ phone.at # "waiting" /\ pc \in {"read", "catch_up"} /\ Unanswered
  /\ \A i \in 1 .. Len(wire["daemon"]) : ~Asks(wire["daemon"][i])

Asked ==
  /\ phone.at = "waiting" /\ pc \in {"read", "catch_up"} /\ Unanswered
  /\ wire["daemon"] # <<>>
  /\ \A i \in 1 .. Len(wire["daemon"]) : Asks(wire["daemon"][i]) <=> i = Len(wire["daemon"])

Judged ==
  /\ phone.at = "waiting" /\ pc \in Working /\ Unanswered /\ wire["daemon"] = <<>>

Refused ==
  /\ phone.at = "waiting" /\ pc = "read" /\ InTune /\ wire["daemon"] = <<>>
  /\ \E k \in 1 .. Len(wire["phone"]) :
       Body(wire["phone"][k]).type = "auth_fail" /\ OneAnswer(k)

\* An acceptance is for the session the daemon holds, if it proves the laptop.
Announces(f) ==
  /\ Body(f).type = "auth_ok"
  /\ Body(f).proof.key[2] = phone.salt =>
       session["daemon"] = NewSession(Body(f).proof.key, conn, Body(f).proof.cn)

\* The acceptance is on its way: up to it the old key, after it the new one.
Granted(k) ==
  /\ Announces(wire["phone"][k]) /\ OneAnswer(k)
  /\ Stretch(wire["phone"], 1, k, "daemon", session["phone"], received["phone"], MaxSaid)
  /\ Stretch(wire["phone"], k + 1, Len(wire["phone"]), "daemon", session["daemon"], -1,
             sent["daemon"])

Accepting ==
  /\ phone.at = "waiting" /\ pc \in {"read", "catch_up"} /\ wire["daemon"] = <<>>
  /\ session["daemon"] # None /\ received["daemon"] = -1 /\ client.in
  /\ \E k \in 1 .. Len(wire["phone"]) : Granted(k)

\* What is on its way to the daemon is under the phone's key, and orders among it are a
\* paired client's.
Inbound ==
  /\ Stretch(wire["daemon"], 1, Len(wire["daemon"]), "phone", session["phone"],
             received["daemon"], sent["phone"])
  /\ \A i \in 1 .. Len(wire["daemon"]) : ~Asks(wire["daemon"][i]) => client.in

Entered ==
  phone.at = "paired" \/ pc \in {"derive", "prove", "accept", "catch_up"} => client.in

Stages == Quiet \/ Asked \/ Judged \/ Refused \/ Accepting

Tuned ==
  /\ ~history.broke
  /\ up => phone.at \notin {"away", "impostor"} /\ Inbound /\ Entered /\ Stages
  /\ ~up => wire = [e \in Ends |-> <<>>]

TunedInv == history.faults = 0 => Tuned

-----------------------------------------------------------------------------
(***************************************************************************)
(* Frames and sequences of them.                                           *)
(***************************************************************************)
LEMMA NoneIsNoTerm == None \notin Keys /\ None \notin Proofs
  BY DEF None, Keys, Proofs

LEMMA FrameFacts ==
  ASSUME NEW f \in Frames
  PROVE  /\ Body(f) \in Messages
         /\ f.type # "sealed" => f \in Messages /\ Body(f) = f
         /\ f.type = "sealed" => f \in SealedFrames /\ Body(f) = f.body
  BY DEF Frames, Messages, SealedFrames, Pleas, Grants, Body

LEMMA MessageFacts ==
  ASSUME NEW m \in Messages
  PROVE  /\ m.type # "sealed" /\ m \in Frames /\ Body(m) = m
         /\ m.type = "auth" => m \in Pleas
         /\ m.type = "auth_ok" => m \in Grants
         /\ m.type = "hello" => m.salt \in Rotations
  BY DEF Frames, Messages, Pleas, Grants, Body

LEMMA LargerAir ==
  ASSUME NEW S, NEW T, S \subseteq T, NEW s \in Seq(S)
  PROVE  s \in Seq(T)
  OBVIOUS

LEMMA SequenceFacts ==
  ASSUME NEW S, NEW s \in Seq(S), NEW f \in S
  PROVE  /\ Append(s, f) \in Seq(S) /\ Len(Append(s, f)) = Len(s) + 1
         /\ <<f>> \o s \in Seq(S)
         /\ s # <<>> => Tail(s) \in Seq(S) /\ Head(s) \in S
  OBVIOUS

\* A message as it leaves: in the clear, or sealed under the session of its end.
Wrap(e, msg) == IF session[e] = None THEN msg ELSE Sealed(e, msg)

LEMMA WrapFacts ==
  ASSUME Typed, NEW e \in Ends, NEW msg \in Messages, Room(e)
  PROVE  /\ Wrap(e, msg) \in Frames /\ Body(Wrap(e, msg)) = msg
         /\ session[e] = None => Wrap(e, msg).type # "sealed"
         /\ session[e] # None =>
              /\ Wrap(e, msg) = Sealed(e, msg) /\ Wrap(e, msg).type = "sealed"
              /\ Wrap(e, msg).key = session[e] /\ Wrap(e, msg).from = e
              /\ Wrap(e, msg).seq = sent[e] /\ Wrap(e, msg).body = msg
              /\ sent[e] \in 0 .. MaxSaid - 1
  <1>1. session[e] \in Keys \cup {None} /\ sent[e] \in 0 .. MaxSaid
    BY DEF Typed
  <1>2. CASE session[e] = None
    BY <1>2, MessageFacts DEF Wrap
  <1>3. CASE session[e] # None
    <2>1. sent[e] \in 0 .. MaxSaid - 1
      BY <1>1, <1>3 DEF Room, Typed, ConstantsOK
    <2>2. Sealed(e, msg) \in SealedFrames
      BY <1>1, <1>3, <2>1 DEF Sealed, SealedFrames
    <2>3. QED
      BY <1>1, <1>3, <2>1, <2>2 DEF Wrap, Sealed, Frames, Body
  <1>4. QED
    BY <1>2, <1>3

-----------------------------------------------------------------------------
(***************************************************************************)
(* The shape of the state is kept.                                         *)
(***************************************************************************)
\* One thing for each end.
LEMMA TwoEnds ==
  ASSUME NEW S, NEW a \in S, NEW b \in S
  PROVE  [daemon |-> a, phone |-> b] \in [Ends -> S]
  <1>1. [daemon |-> a, phone |-> b] = [e \in Ends |-> IF e = "daemon" THEN a ELSE b]
    BY DEF Ends
  <1>2. QED
    BY <1>1

\* More on the air: what was on its way, and what was said, stays so.
LEMMA AirGrows ==
  ASSUME Typed, air \subseteq air', air' \subseteq Frames
  PROVE  /\ said \subseteq said'
         /\ wire \in [Ends -> Seq(air')] /\ heard \in [Ends -> Seq(said')]
  <1>1. said \subseteq said'
    BY DEF said
  <1>2. \A s \in Seq(air) : s \in Seq(air')
    BY LargerAir
  <1>3. \A s \in Seq(said) : s \in Seq(said')
    BY <1>1, LargerAir
  <1>4. QED
    BY <1>1, <1>2, <1>3 DEF Typed

LEMMA SameAir ==
  ASSUME Typed, air' = air
  PROVE  /\ said' = said /\ air' \subseteq Frames
         /\ wire \in [Ends -> Seq(air')] /\ heard \in [Ends -> Seq(said')]
  BY DEF said, Typed

\* A frame of either end goes on the air, sealed or not.
LEMMA FrameLeaves ==
  ASSUME Typed, NEW e \in Ends, NEW msg \in Messages, Room(e), air' = air \cup {Wrap(e, msg)}
  PROVE  /\ air' \subseteq Frames /\ said \subseteq said' /\ Wrap(e, msg) \in air'
         /\ wire \in [Ends -> Seq(air')] /\ heard \in [Ends -> Seq(said')]
         /\ \A d \in Ends : Append(wire[d], Wrap(e, msg)) \in Seq(air')
         /\ \A d \in Ends : wire[d] # <<>> => Tail(wire[d]) \in Seq(air')
  <1>1. air' \subseteq Frames /\ air \subseteq air' /\ Wrap(e, msg) \in air'
    BY WrapFacts DEF Typed
  <1>2. said \subseteq said' /\ wire \in [Ends -> Seq(air')] /\ heard \in [Ends -> Seq(said')]
    BY <1>1, AirGrows
  <1>3. QED
    BY <1>1, <1>2, SequenceFacts

\* The counter of an end that sealed a frame.
Counted(e) == IF session[e] = None THEN sent ELSE [sent EXCEPT ![e] = @ + 1]

LEMMA CountedFacts ==
  ASSUME Typed, NEW e \in Ends, Room(e)
  PROVE  Counted(e) \in [Ends -> 0 .. MaxSaid]
  BY DEF Counted, Room, Typed, ConstantsOK

LEMMA WriteFacts ==
  ASSUME Typed, NEW e \in Ends, NEW msg \in Messages, Write(e, msg)
  PROVE  /\ Room(e) /\ air' = air \cup {Wrap(e, msg)} /\ sent' = Counted(e)
         /\ wire' = [wire EXCEPT ![Other(e)] = Append(@, Wrap(e, msg))]
         /\ air' \subseteq Frames /\ wire' \in [Ends -> Seq(air')]
         /\ heard \in [Ends -> Seq(said')] /\ said \subseteq said'
         /\ sent' \in [Ends -> 0 .. MaxSaid]
         /\ history' = [history EXCEPT !.bare =
                          @ \/ (e = "daemon" /\ session["daemon"] = None /\ Accepted)]
         /\ history' \in [faults : Nat, broke : BOOLEAN, bare : BOOLEAN,
                          asked : SUBSET Nonces, made : SUBSET Keys]
  <1>1. /\ Room(e) /\ air' = air \cup {Wrap(e, msg)} /\ sent' = Counted(e)
        /\ wire' = [wire EXCEPT ![Other(e)] = Append(@, Wrap(e, msg))]
    BY DEF Write, Wrap, Counted
  <1>2. Other(e) \in Ends
    BY DEF Other, Ends
  <1>3. wire' \in [Ends -> Seq(air')]
    BY <1>1, <1>2, FrameLeaves
  <1>4. history' = [history EXCEPT !.bare =
                      @ \/ (e = "daemon" /\ session["daemon"] = None /\ Accepted)]
    BY DEF Write
  <1>5. (e = "daemon" /\ session["daemon"] = None /\ Accepted) \in BOOLEAN
    OBVIOUS
  <1>6. QED
    BY <1>1, <1>3, <1>4, <1>5, FrameLeaves, CountedFacts DEF Typed

\* The same for an answer, which takes the message it answers off the wire.
LEMMA AnswerFacts ==
  ASSUME Typed, NEW msg \in Messages, wire["daemon"] # <<>>, Answer(msg)
  PROVE  /\ Room("daemon") /\ air' = air \cup {Wrap("daemon", msg)}
         /\ sent' = Counted("daemon")
         /\ wire' = [daemon |-> Tail(wire["daemon"]),
                     phone |-> Append(wire["phone"], Wrap("daemon", msg))]
         /\ air' \subseteq Frames /\ wire' \in [Ends -> Seq(air')]
         /\ heard \in [Ends -> Seq(said')] /\ said \subseteq said'
         /\ sent' \in [Ends -> 0 .. MaxSaid]
         /\ history' = [history EXCEPT !.bare = @ \/ (session["daemon"] = None /\ Accepted)]
         /\ history' \in [faults : Nat, broke : BOOLEAN, bare : BOOLEAN,
                          asked : SUBSET Nonces, made : SUBSET Keys]
  <1>1. /\ Room("daemon") /\ air' = air \cup {Wrap("daemon", msg)}
        /\ sent' = Counted("daemon")
        /\ wire' = [daemon |-> Tail(wire["daemon"]),
                    phone |-> Append(wire["phone"], Wrap("daemon", msg))]
    BY DEF Answer, Wrap, Counted
  <1>2. "daemon" \in Ends /\ "phone" \in Ends
    BY DEF Ends
  <1>3. Tail(wire["daemon"]) \in Seq(air') /\ Append(wire["phone"], Wrap("daemon", msg)) \in Seq(air')
    BY <1>1, <1>2, FrameLeaves
  <1>4. wire' \in [Ends -> Seq(air')]
    BY <1>1, <1>3, TwoEnds
  <1>5. history' = [history EXCEPT !.bare = @ \/ (session["daemon"] = None /\ Accepted)]
    BY DEF Answer
  <1>6. (session["daemon"] = None /\ Accepted) \in BOOLEAN
    OBVIOUS
  <1>7. QED
    BY <1>1, <1>2, <1>4, <1>5, <1>6, FrameLeaves, CountedFacts DEF Typed

\* What the next frame is to an end that can read it, and what that end notes of it.
LEMMA TakeFacts ==
  ASSUME Typed, NEW e \in Ends, wire[e] # <<>>,
         session[e] = None \/ Opens(e, Head(wire[e])), Take(e, Head(wire[e]))
  PROVE  /\ Head(wire[e]) \in air /\ Head(wire[e]) \in Frames
         /\ received' \in [Ends -> -1 .. MaxSaid - 1] /\ heard' \in [Ends -> Seq(said)]
  <1>1. Head(wire[e]) \in air /\ Head(wire[e]) \in Frames
    BY SequenceFacts DEF Typed
  <1>2. CASE session[e] = None
    BY <1>1, <1>2 DEF Take, Typed
  <1>3. CASE session[e] # None
    <2>1. Head(wire[e]).type = "sealed" /\ Head(wire[e]).seq \in 0 .. MaxSaid - 1
      BY <1>1, <1>3, FrameFacts DEF Opens, SealedFrames
    <2>2. received' = [received EXCEPT ![e] = Head(wire[e]).seq]
      BY <1>3 DEF Take
    <2>3. received' \in [Ends -> -1 .. MaxSaid - 1]
      BY <2>1, <2>2 DEF Typed, ConstantsOK
    <2>4. Utterance(Head(wire[e])) \in said
      BY <1>1, <2>1 DEF said
    <2>5. heard' = [heard EXCEPT ![e] = Append(@, Utterance(Head(wire[e])))]
      BY <1>3 DEF Take
    <2>6. heard' \in [Ends -> Seq(said)]
      BY <2>4, <2>5, SequenceFacts DEF Typed
    <2>7. QED
      BY <1>1, <2>3, <2>6
  <1>4. QED
    BY <1>2, <1>3

\* An end that takes a frame and an answer that leaves in the same step.
LEMMA ClosedTyped ==
  ASSUME Typed, Close
  PROVE  /\ wire' \in [Ends -> Seq(air)] /\ up' \in BOOLEAN
         /\ client' \in [in : BOOLEAN, token : 0 .. MaxTrouble]
         /\ phone' \in [at : {"away", "greeting", "greeted", "waiting", "refused", "paired",
                              "impostor"},
                        key : 0 .. MaxTrouble, salt : 0 .. MaxTrouble, cn : 0 .. MaxAuths]
  <1>1. <<>> \in Seq(air) /\ 0 \in 0 .. MaxTrouble
    BY DEF Typed, ConstantsOK
  <1>2. wire' \in [Ends -> Seq(air)] /\ up' \in BOOLEAN
        /\ client' \in [in : BOOLEAN, token : 0 .. MaxTrouble]
    BY <1>1 DEF Close, Gone
  <1>3. phone' = [phone EXCEPT !.at = IF phone.at = "impostor" THEN "impostor" ELSE "away"]
    BY DEF Close
  <1>4. QED
    BY <1>2, <1>3 DEF Typed, TypeOK

LEMMA ConnectTyped == ASSUME Typed, Connect PROVE Typed'
  <1> DEFINE hello == [Hello EXCEPT !.nonce = conn + 1]
  <1>1. conn + 1 \in Conns /\ gen \in Rotations
    BY DEF Connect, Conns, Rotations, Typed, TypeOK, ConstantsOK
  <1>2. hello = [type |-> "hello", nonce |-> conn + 1, salt |-> gen]
    BY DEF Hello
  <1>3. hello \in Frames
    BY <1>1, <1>2 DEF Frames, Messages
  <1>4. air' = air \cup {hello} /\ wire' = [daemon |-> <<>>, phone |-> <<hello>>]
    BY DEF Connect
  <1>5. air' \subseteq Frames /\ wire' \in [Ends -> Seq(air')] /\ heard' \in [Ends -> Seq(said')]
    <2>1. air' \subseteq Frames /\ heard' = heard
      BY <1>3, <1>4 DEF Typed, Connect
    <2>2. <<>> \in Seq(air') /\ <<hello>> \in Seq(air')
      BY <1>4
    <2>3. QED
      BY <1>4, <2>1, <2>2, AirGrows, TwoEnds
  <1>6. session' \in [Ends -> Keys \cup {None}] /\ sent' \in [Ends -> 0 .. MaxSaid]
        /\ received' \in [Ends -> -1 .. MaxSaid - 1]
    BY DEF Connect, Typed, ConstantsOK
  <1>7. TypeOK' /\ JobTyped'
    <2>1. conn' \in 0 .. MaxConns /\ client' \in [in : BOOLEAN, token : 0 .. MaxTrouble]
      BY <1>1 DEF Connect, Conns, Typed, ConstantsOK
    <2>2. phone' = [phone EXCEPT !.at = "greeting"] /\ pc' = "read" /\ up' = TRUE
          /\ UNCHANGED <<gen, casting>>
      BY DEF Connect
    <2>3. QED
      BY <1>6, <2>1, <2>2 DEF Typed, TypeOK, JobTyped, Working
  <1>8. history' \in [faults : Nat, broke : BOOLEAN, bare : BOOLEAN, asked : SUBSET Nonces,
                      made : SUBSET Keys]
    BY DEF Connect, Typed
  <1>9. QED
    BY <1>5, <1>6, <1>7, <1>8 DEF Typed, ConstantsOK

LEMMA GiveUpTyped == ASSUME Typed, GiveUp PROVE Typed'
  <1>1. TypeOK' /\ JobTyped' /\ wire' \in [Ends -> Seq(air')]
    BY ClosedTyped DEF GiveUp, Typed, TypeOK, JobTyped
  <1>2. QED
    BY <1>1, SameAir DEF GiveUp, Typed

LEMMA HandleOrderTyped == ASSUME Typed, HandleOrder PROVE Typed'
  <1> DEFINE msg == Plain(IF client.in THEN "reply" ELSE "auth_fail")
  <1>1. msg \in Messages /\ wire["daemon"] # <<>> /\ Answer(msg)
    BY DEF HandleOrder, Plain, Messages, Reading
  <1>2. received' \in [Ends -> -1 .. MaxSaid - 1] /\ heard' \in [Ends -> Seq(said)]
    BY <1>1, TakeFacts DEF HandleOrder, Readable, Incoming, Ends
  <1>3. /\ air' \subseteq Frames /\ wire' \in [Ends -> Seq(air')] /\ said \subseteq said'
        /\ sent' \in [Ends -> 0 .. MaxSaid]
        /\ history' \in [faults : Nat, broke : BOOLEAN, bare : BOOLEAN,
                         asked : SUBSET Nonces, made : SUBSET Keys]
    BY <1>1, AnswerFacts
  <1>4. heard' \in [Ends -> Seq(said')]
    BY <1>2, <1>3, LargerAir
  <1>5. TypeOK' /\ JobTyped'
    BY <1>2, <1>3 DEF HandleOrder, Typed, TypeOK, JobTyped
  <1>6. QED
    BY <1>2, <1>3, <1>4, <1>5 DEF HandleOrder, Typed

LEMMA HandleExpiredTyped == ASSUME Typed, HandleExpired PROVE Typed'
  <1>1. received' \in [Ends -> -1 .. MaxSaid - 1] /\ heard' \in [Ends -> Seq(said)]
    BY TakeFacts DEF HandleExpired, Reading, Readable, Incoming, Ends
  <1>2. TypeOK' /\ JobTyped' /\ wire' \in [Ends -> Seq(air')]
    BY <1>1, ClosedTyped DEF HandleExpired, Typed, TypeOK, JobTyped
  <1>3. QED
    BY <1>1, <1>2, SameAir DEF HandleExpired, Typed

\* A message to pair, read off the wire, is one that is on the air.
LEMMA MessageFromAir ==
  ASSUME Typed, Reading, Readable, Message.type = "auth"
  PROVE  /\ Incoming \in air /\ Message = Body(Incoming) /\ Message \in Pleas
         /\ session["daemon"] # None =>
              /\ Incoming.type = "sealed" /\ Incoming.key = session["daemon"]
              /\ Incoming.from = "phone" /\ Incoming.body = Message
              /\ Incoming.seq > received["daemon"]
  <1>1. Incoming \in air /\ Incoming \in Frames
    BY SequenceFacts DEF Reading, Incoming, Typed, Ends
  <1>2. CASE session["daemon"] = None
    <2>1. Message = Incoming /\ Incoming.type # "sealed"
      BY <1>2 DEF Message
    <2>2. QED
      BY <1>1, <1>2, <2>1, FrameFacts, MessageFacts
  <1>3. CASE session["daemon"] # None
    <2>1. Message = Incoming.body /\ Opens("daemon", Incoming)
      BY <1>3 DEF Message, Readable
    <2>2. QED
      BY <1>1, <2>1, FrameFacts, MessageFacts DEF Opens, Other
  <1>4. QED
    BY <1>2, <1>3

LEMMA HandleAuthTyped == ASSUME Typed, HandleAuth PROVE Typed'
  <1>1. /\ received' \in [Ends -> -1 .. MaxSaid - 1] /\ heard' \in [Ends -> Seq(said)]
        /\ wire["daemon"] # <<>>
    BY TakeFacts DEF HandleAuth, Reading, Readable, Incoming, Ends
  <1>2. Message \in Pleas
    BY MessageFromAir DEF HandleAuth
  <1>3. CASE Message.seals
    <2>1. /\ pc' = "judge" /\ job' = [msg |-> Message, key |-> gen, holds |-> FALSE,
                                      new |-> None, proof |-> None]
          /\ wire' = [wire EXCEPT !["daemon"] = Tail(@)]
          /\ UNCHANGED <<gen, conn, up, session, client, casting, phone, sent, air, history>>
      BY <1>3 DEF HandleAuth
    <2>2. TypeOK'
      BY <1>1, <2>1 DEF Typed, TypeOK
    <2>3. JobTyped'
      BY <1>2, <1>3, <2>1 DEF JobTyped, Working, Typed, TypeOK, Rotations
    <2>4. wire' \in [Ends -> Seq(air')]
      BY <1>1, <2>1, SequenceFacts DEF Typed, Ends
    <2>5. QED
      BY <1>1, <2>1, <2>2, <2>3, <2>4, SameAir DEF Typed
  <1>4. CASE ~Message.seals
    <2>1. Plain("auth_fail") \in Messages /\ Answer(Plain("auth_fail")) /\ UNCHANGED <<pc, job>>
      BY <1>4 DEF HandleAuth, Plain, Messages
    <2>2. /\ air' \subseteq Frames /\ wire' \in [Ends -> Seq(air')] /\ said \subseteq said'
          /\ sent' \in [Ends -> 0 .. MaxSaid]
          /\ history' \in [faults : Nat, broke : BOOLEAN, bare : BOOLEAN,
                           asked : SUBSET Nonces, made : SUBSET Keys]
      BY <1>1, <2>1, AnswerFacts
    <2>3. heard' \in [Ends -> Seq(said')]
      BY <1>1, <2>2, LargerAir
    <2>4. TypeOK' /\ JobTyped'
      BY <1>1, <2>1, <2>2 DEF HandleAuth, Typed, TypeOK, JobTyped
    <2>5. QED
      BY <1>1, <2>1, <2>2, <2>3, <2>4 DEF HandleAuth, Typed
  <1>5. QED
    BY <1>3, <1>4

\* What handleAuth works out about the message changes neither end nor the wire.
LEMMA QuietTyped ==
  ASSUME Typed, UNCHANGED <<conn, up, session, sent, received, casting, phone, wire, air,
                            heard, history>>,
         gen' \in 0 .. MaxTrouble, client' \in [in : BOOLEAN, token : 0 .. MaxTrouble],
         pc' \in {"read", "judge", "authenticate", "enter", "derive", "prove", "accept",
                  "catch_up"},
         JobTyped'
  PROVE  Typed'
  <1>1. TypeOK'
    BY DEF Typed, TypeOK
  <1>2. QED
    BY <1>1, SameAir DEF Typed

LEMMA AuthKeyTyped == ASSUME Typed, AuthKey PROVE Typed'
  <1>1. JobTyped'
    BY DEF AuthKey, Typed, JobTyped, Working
  <1>2. QED
    BY <1>1, QuietTyped DEF AuthKey, Typed, TypeOK

\* The daemon says no, or one more thing, and reads on.
LEMMA SaysTyped ==
  ASSUME Typed, NEW e \in Ends, NEW msg \in Messages, Write(e, msg),
         UNCHANGED <<gen, conn, up, session, received, casting, phone, heard>>,
         client' \in [in : BOOLEAN, token : 0 .. MaxTrouble],
         pc' \in {"read", "judge", "authenticate", "enter", "derive", "prove", "accept",
                  "catch_up"},
         JobTyped'
  PROVE  Typed'
  <1>1. /\ air' \subseteq Frames /\ wire' \in [Ends -> Seq(air')]
        /\ heard \in [Ends -> Seq(said')]
        /\ sent' \in [Ends -> 0 .. MaxSaid]
        /\ history' \in [faults : Nat, broke : BOOLEAN, bare : BOOLEAN,
                         asked : SUBSET Nonces, made : SUBSET Keys]
    BY WriteFacts
  <1>2. TypeOK'
    BY <1>1 DEF Typed, TypeOK
  <1>3. QED
    BY <1>1, <1>2 DEF Typed

LEMMA AuthenticateTyped == ASSUME Typed, Authenticate \/ Refuse PROVE Typed'
  <1>1. Plain("auth_fail") \in Messages /\ "daemon" \in Ends
    BY DEF Plain, Messages, Ends
  <1>2. client' \in [in : BOOLEAN, token : 0 .. MaxTrouble]
    BY DEF Authenticate, Refuse, Typed, TypeOK
  <1>3. JobTyped' /\ pc' \in {"read", "enter"}
    BY DEF Authenticate, Refuse, Typed, JobTyped, Working
  <1>4. UNCHANGED <<gen, conn, up, session, received, casting, phone, heard>>
    BY DEF Authenticate, Refuse
  <1>5. CASE Write("daemon", Plain("auth_fail"))
    BY <1>1, <1>2, <1>3, <1>4, <1>5, SaysTyped
  <1>6. CASE UNCHANGED <<wire, air, history, sent>>
    <2>1. gen' \in 0 .. MaxTrouble
      BY <1>4 DEF Typed, TypeOK
    <2>2. QED
      BY <1>2, <1>3, <1>4, <1>6, <2>1, QuietTyped
  <1>7. QED
    BY <1>5, <1>6 DEF Authenticate, Refuse, Silent

LEMMA EnterTyped == ASSUME Typed, Enter PROVE Typed'
  <1>1. JobTyped' /\ client' \in [in : BOOLEAN, token : 0 .. MaxTrouble]
    BY DEF Enter, Typed, TypeOK, JobTyped, Working
  <1>2. QED
    BY <1>1, QuietTyped DEF Enter, Typed, TypeOK

LEMMA SealSessionTyped == ASSUME Typed, SealSession PROVE Typed'
  <1>1. job \in [msg : Pleas, key : Rotations, holds : BOOLEAN, new : Keys \cup {None},
                 proof : Proofs \cup {None}]
    BY DEF SealSession, Typed, JobTyped, Working
  <1>2. job.msg.cn \in Nonces /\ gen \in Rotations /\ conn \in Conns
    BY <1>1 DEF Pleas, Typed, TypeOK, Rotations, Conns
  <1>3. NewSession(Stretched(job.key, gen), conn, job.msg.cn) \in Keys
    BY <1>1, <1>2 DEF NewSession, Stretched, Keys
  <1>4. JobTyped'
    BY <1>1, <1>3 DEF SealSession, Typed, JobTyped, Working
  <1>5. QED
    BY <1>4, QuietTyped DEF SealSession, Typed, TypeOK

LEMMA ProveTyped == ASSUME Typed, Prove PROVE Typed'
  <1>1. /\ job \in [msg : Pleas, key : Rotations, holds : BOOLEAN, new : Keys \cup {None},
                    proof : Proofs \cup {None}]
        /\ job.new \in Keys /\ job.msg.seals
    BY DEF Prove, Typed, JobTyped, Working
  <1>2. job.msg.cn \in Nonces /\ gen \in Rotations /\ conn \in Conns
    BY <1>1 DEF Pleas, Typed, TypeOK, Rotations, Conns
  <1>3. Proof("server", Stretched(job.key, gen), conn, job.msg.cn, TRUE) \in Proofs
    BY <1>1, <1>2 DEF Proof, Stretched, Proofs
  <1>4. JobTyped'
    BY <1>1, <1>3 DEF Prove, Typed, JobTyped, Working
  <1>5. QED
    BY <1>4, QuietTyped DEF Prove, Typed, TypeOK

LEMMA AcceptAndSealTyped == ASSUME Typed, AcceptAndSeal PROVE Typed'
  <1>1. job.proof \in Proofs /\ job.new \in Keys
    BY DEF AcceptAndSeal, Typed, JobTyped
  <1>2. AuthOK(job.proof) \in Messages /\ "daemon" \in Ends /\ Other("daemon") \in Ends
    BY <1>1 DEF AuthOK, Messages, Grants, Ends, Other
  <1>3. /\ session' = [session EXCEPT !["daemon"] = job.new]
        /\ received' = [received EXCEPT !["daemon"] = -1]
        /\ sent' = [sent EXCEPT !["daemon"] = 0]
        /\ history' = [history EXCEPT !.made = @ \cup {job.new}]
        /\ pc' = "catch_up" /\ UNCHANGED <<gen, conn, up, job, client, casting, phone, heard>>
    BY DEF AcceptAndSeal, Install
  <1>4. /\ session' \in [Ends -> Keys \cup {None}] /\ sent' \in [Ends -> 0 .. MaxSaid]
        /\ received' \in [Ends -> -1 .. MaxSaid - 1]
        /\ history' \in [faults : Nat, broke : BOOLEAN, bare : BOOLEAN,
                         asked : SUBSET Nonces, made : SUBSET Keys]
    <2>1. -1 \in -1 .. MaxSaid - 1 /\ 0 \in 0 .. MaxSaid
      BY DEF Typed, ConstantsOK
    <2>2. session' \in [Ends -> Keys \cup {None}] /\ sent' \in [Ends -> 0 .. MaxSaid]
          /\ received' \in [Ends -> -1 .. MaxSaid - 1]
      BY <1>1, <1>3, <2>1 DEF Typed
    <2>3. history.made \cup {job.new} \in SUBSET Keys
      BY <1>1 DEF Typed
    <2>4. QED
      BY <1>3, <2>2, <2>3 DEF Typed
  <1>5. TypeOK' /\ JobTyped'
    BY <1>3, <1>4 DEF Typed, TypeOK, JobTyped, Working
  <1>6. air' \subseteq Frames /\ wire' \in [Ends -> Seq(air')] /\ heard' \in [Ends -> Seq(said')]
    <2>1. CASE up
      <3>1. /\ Room("daemon") /\ air' = air \cup {Wrap("daemon", AuthOK(job.proof))}
            /\ wire' = [wire EXCEPT !["phone"] = Append(@, Wrap("daemon", AuthOK(job.proof)))]
        BY <2>1 DEF AcceptAndSeal, Wrap
      <3>2. QED
        BY <1>2, <1>3, <3>1, FrameLeaves DEF Ends
    <2>2. CASE ~up
      BY <1>3, <2>2, SameAir DEF AcceptAndSeal, Typed
    <2>3. QED
      BY <2>1, <2>2
  <1>7. QED
    BY <1>4, <1>5, <1>6 DEF Typed

LEMMA CatchUpTyped == ASSUME Typed, CatchUp PROVE Typed'
  <1>1. Plain("alert") \in Messages /\ "daemon" \in Ends
    BY DEF Plain, Messages, Ends
  <1>2. JobTyped' /\ client' \in [in : BOOLEAN, token : 0 .. MaxTrouble] /\ pc' = "read"
        /\ UNCHANGED <<gen, conn, up, session, received, casting, phone, heard>>
    BY DEF CatchUp, Typed, TypeOK, JobTyped, Working
  <1>3. CASE Write("daemon", Plain("alert"))
    BY <1>1, <1>2, <1>3, SaysTyped
  <1>4. CASE Silent
    BY <1>2, <1>4, QuietTyped DEF Silent, Typed, TypeOK
  <1>5. QED
    BY <1>3, <1>4 DEF CatchUp

LEMMA CastTyped == ASSUME Typed, Cast PROVE Typed'
  <1>1. Plain("alert") \in Messages /\ "daemon" \in Ends
    BY DEF Plain, Messages, Ends
  <1>2. /\ UNCHANGED <<gen, conn, up, session, received, pc, job, client, phone, heard>>
        /\ casting' \in BOOLEAN
    BY DEF Cast
  <1>3. CASE Write("daemon", Plain("alert"))
    <2>1. /\ air' \subseteq Frames /\ wire' \in [Ends -> Seq(air')]
          /\ heard \in [Ends -> Seq(said')]
          /\ sent' \in [Ends -> 0 .. MaxSaid]
          /\ history' \in [faults : Nat, broke : BOOLEAN, bare : BOOLEAN,
                           asked : SUBSET Nonces, made : SUBSET Keys]
      BY <1>1, <1>3, WriteFacts
    <2>2. TypeOK' /\ JobTyped'
      BY <1>2, <2>1 DEF Typed, TypeOK, JobTyped
    <2>3. QED
      BY <1>2, <2>1, <2>2 DEF Typed
  <1>4. CASE Silent
    <2>1. TypeOK' /\ JobTyped'
      BY <1>2, <1>4 DEF Silent, Typed, TypeOK, JobTyped
    <2>2. QED
      BY <1>2, <1>4, <2>1, SameAir DEF Silent, Typed
  <1>5. QED
    BY <1>3, <1>4 DEF Cast

LEMMA CollectTyped == ASSUME Typed, Collect PROVE Typed'
  <1>1. TypeOK' /\ JobTyped'
    BY DEF Collect, Typed, TypeOK, JobTyped
  <1>2. QED
    BY <1>1, SameAir DEF Collect, Typed

LEMMA RotateTyped == ASSUME Typed, Rotate PROVE Typed'
  <1>1. gen + 1 \in 0 .. MaxTrouble
    BY DEF Rotate, Typed, TypeOK, ConstantsOK
  <1>2. JobTyped'
    BY DEF Rotate, Typed, JobTyped
  <1>3. QED
    BY <1>1, <1>2, QuietTyped DEF Rotate, Typed, TypeOK

LEMMA ScanTyped == ASSUME Typed, Scan PROVE Typed'
  <1>1. JobTyped'
    BY DEF Scan, Typed, JobTyped
  <1>2. phone' = [phone EXCEPT !.key = gen] /\ gen \in 0 .. MaxTrouble
    BY DEF Scan, Typed, TypeOK
  <1>3. phone' \in [at : {"away", "greeting", "greeted", "waiting", "refused", "paired",
                         "impostor"},
                   key : 0 .. MaxTrouble, salt : 0 .. MaxTrouble, cn : 0 .. MaxAuths]
    BY <1>2 DEF Typed, TypeOK
  <1>4. TypeOK'
    BY <1>3 DEF Scan, Typed, TypeOK
  <1>5. QED
    BY <1>1, <1>4, SameAir DEF Scan, Typed

\* A plea as the phone makes it.
LEMMA PleaMade ==
  ASSUME Typed, NEW seals \in BOOLEAN, phone.cn < MaxAuths
  PROVE  LET cn == phone.cn + 1
             proof == Proof("client", Strong, conn, cn, seals)
             msg == AuthMsg(cn, seals, IF seals THEN proof ELSE None)
         IN  /\ cn \in Nonces /\ proof \in Proofs /\ msg \in Messages /\ msg.type = "auth"
             /\ msg.cn = cn /\ msg.seals = seals /\ (seals => msg.proof = proof)
             /\ proof.sn = conn /\ proof.key[2] = phone.salt
  <1> DEFINE cn == phone.cn + 1
             proof == Proof("client", Strong, conn, cn, seals)
             msg == AuthMsg(cn, seals, IF seals THEN proof ELSE None)
  <1>1. cn \in Nonces
    BY DEF Nonces, Typed, TypeOK, ConstantsOK
  <1>2. Strong \in Rotations \X Rotations /\ Strong[2] = phone.salt /\ conn \in Conns
    BY DEF Strong, Stretched, Rotations, Conns, Typed, TypeOK
  <1>3. proof \in Proofs /\ proof.sn = conn /\ proof.key[2] = phone.salt
    BY <1>1, <1>2 DEF Proof, Proofs
  <1>4. msg \in Pleas /\ msg.type = "auth" /\ msg.cn = cn /\ msg.seals = seals
        /\ (seals => msg.proof = proof)
    BY <1>1, <1>3 DEF AuthMsg, Pleas
  <1>5. QED
    BY <1>1, <1>3, <1>4 DEF Messages

LEMMA AskTyped == ASSUME Typed, NEW seals \in BOOLEAN, Ask(seals) PROVE Typed'
  <1> DEFINE cn == phone.cn + 1
             msg == AuthMsg(cn, seals,
                      IF seals THEN Proof("client", Strong, conn, cn, seals) ELSE None)
  <1>1. msg \in Messages /\ cn \in Nonces
    BY PleaMade DEF Ask
  <1>2. /\ Room("phone") /\ air' = air \cup {Wrap("phone", msg)} /\ sent' = Counted("phone")
        /\ wire' = [wire EXCEPT !["daemon"] = Append(@, Wrap("phone", msg))]
    BY DEF Ask, Wrap, Counted
  <1>3. "phone" \in Ends /\ "daemon" \in Ends
    BY DEF Ends
  <1>4. /\ air' \subseteq Frames /\ heard \in [Ends -> Seq(said')]
        /\ Append(wire["daemon"], Wrap("phone", msg)) \in Seq(air')
        /\ wire \in [Ends -> Seq(air')]
    BY <1>1, <1>2, <1>3, FrameLeaves
  <1>5. wire' \in [Ends -> Seq(air')] /\ sent' \in [Ends -> 0 .. MaxSaid]
    BY <1>2, <1>3, <1>4, CountedFacts
  <1>6. /\ phone' = [phone EXCEPT !.at = "waiting", !.cn = cn]
        /\ history' = [history EXCEPT !.asked = @ \cup {cn}]
        /\ UNCHANGED <<gen, conn, up, session, received, pc, job, client, casting, heard>>
    BY DEF Ask
  <1>7. TypeOK' /\ JobTyped'
    <2>1. JobTyped'
      BY <1>6 DEF Typed, JobTyped
    <2>2. phone' \in [at : {"away", "greeting", "greeted", "waiting", "refused", "paired",
                           "impostor"},
                     key : 0 .. MaxTrouble, salt : 0 .. MaxTrouble, cn : 0 .. MaxAuths]
      BY <1>1, <1>6 DEF Typed, TypeOK, Nonces
    <2>3. \A e \in Ends : sent'[e] \in 0 .. MaxSaid
      BY <1>5
    <2>4. TypeOK'
      BY <1>6, <2>2, <2>3 DEF Typed, TypeOK
    <2>5. QED
      BY <2>1, <2>4
  <1>8. history' \in [faults : Nat, broke : BOOLEAN, bare : BOOLEAN, asked : SUBSET Nonces,
                      made : SUBSET Keys]
    <2>1. history.asked \cup {cn} \in SUBSET Nonces
      BY <1>1 DEF Typed
    <2>2. QED
      BY <1>6, <2>1 DEF Typed
  <1>9. QED
    BY <1>4, <1>5, <1>6, <1>7, <1>8 DEF Typed

LEMMA OrderTyped == ASSUME Typed, Order PROVE Typed'
  <1>1. Plain("order") \in Messages /\ "phone" \in Ends /\ Write("phone", Plain("order"))
    BY DEF Plain, Messages, Ends, Order
  <1>2. JobTyped'
    BY DEF Order, Typed, JobTyped
  <1>3. QED
    BY <1>1, <1>2, SaysTyped DEF Order, Typed, TypeOK

\* What arrives at the phone is on the air.
LEMMA ArrivingFromAir ==
  ASSUME Typed, wire["phone"] # <<>>
  PROVE  /\ Arriving \in air /\ Arriving \in Frames /\ Opened = Body(Arriving)
         /\ Opened \in Messages
         /\ Arriving.type = "sealed" =>
              Arriving.seq \in 0 .. MaxSaid - 1 /\ Utterance(Arriving) \in said
  <1>1. Arriving \in air /\ Arriving \in Frames
    BY SequenceFacts DEF Arriving, Typed, Ends
  <1>2. Opened = Body(Arriving) /\ Opened \in Messages
    BY <1>1, FrameFacts DEF Opened, Body
  <1>3. Arriving.type = "sealed" =>
          Arriving.seq \in 0 .. MaxSaid - 1 /\ Utterance(Arriving) \in said
    BY <1>1, FrameFacts DEF SealedFrames, said
  <1>4. QED
    BY <1>1, <1>2, <1>3

\* Where the phone gets to.
LEMMA UnderstoodFacts ==
  ASSUME Typed
  PROVE  /\ Understood \in {phone.at, "greeted", "refused", "paired", "impostor"}
         /\ Understood = "greeted" /\ phone.at # "greeted" => phone.at = "greeting"
         /\ Understood \in {"refused", "paired", "impostor"} /\ phone.at # Understood =>
              phone.at = "waiting"
         /\ phone.at = "waiting" /\ Understood = "refused" => Opened.type = "auth_fail"
         /\ phone.at = "waiting" /\ Understood \in {"paired", "impostor"} =>
              Opened.type = "auth_ok"
         /\ phone.at = "waiting" /\ Understood = "paired" =>
              Opened.proof = Proof("server", Strong, conn, phone.cn, Opened.seals)
  BY DEF Understood

LEMMA PhoneReadsTyped == ASSUME Typed, PhoneReads PROVE Typed'
  <1>1. wire["phone"] # <<>> /\ "phone" \in Ends
    BY DEF PhoneReads, Ends
  <1>2. /\ Arriving \in air /\ Arriving \in Frames /\ Opened \in Messages
        /\ Arriving.type = "sealed" =>
             Arriving.seq \in 0 .. MaxSaid - 1 /\ Utterance(Arriving) \in said
    BY <1>1, ArrivingFromAir
  <1>3. phone' \in [at : {"away", "greeting", "greeted", "waiting", "refused", "paired",
                          "impostor"},
                    key : 0 .. MaxTrouble, salt : 0 .. MaxTrouble, cn : 0 .. MaxAuths]
    <2>1. Understood \in {"away", "greeting", "greeted", "waiting", "refused", "paired",
                          "impostor"}
      BY UnderstoodFacts DEF Typed, TypeOK
    <2>2. Opened.type = "hello" => Opened.salt \in 0 .. MaxTrouble
      BY <1>2, MessageFacts DEF Rotations
    <2>3. phone' = [phone EXCEPT !.at = Understood,
            !.salt = IF phone.at = "greeting" /\ Opened.type = "hello"
                     THEN Opened.salt ELSE phone.salt]
      BY DEF PhoneReads
    <2>4. QED
      BY <2>1, <2>2, <2>3 DEF Typed, TypeOK
  <1>4. /\ wire' \in [Ends -> Seq(air)] /\ up' \in BOOLEAN
        /\ client' \in [in : BOOLEAN, token : 0 .. MaxTrouble]
    <2>1. CASE Understood = "impostor"
      <3>1. <<>> \in Seq(air) /\ 0 \in 0 .. MaxTrouble
        BY DEF Typed, ConstantsOK
      <3>2. Gone
        BY <2>1 DEF PhoneReads
      <3>3. QED
        BY <3>1, <3>2 DEF Gone
    <2>2. CASE Understood # "impostor"
      <3>1. Tail(wire["phone"]) \in Seq(air)
        BY <1>1, SequenceFacts DEF Typed
      <3>2. wire' = [wire EXCEPT !["phone"] = Tail(@)] /\ UNCHANGED <<up, client>>
        BY <2>2 DEF PhoneReads
      <3>3. QED
        BY <1>1, <3>1, <3>2 DEF Typed, TypeOK
    <2>3. QED
      BY <2>1, <2>2
  <1>5. heard' \in [Ends -> Seq(said)]
    <2>1. Arriving.type = "sealed" =>
            Append(heard["phone"], Utterance(Arriving)) \in Seq(said)
      BY <1>1, <1>2, SequenceFacts DEF Typed
    <2>2. QED
      BY <1>1, <2>1 DEF PhoneReads, Typed
  <1>6. /\ session' \in [Ends -> Keys \cup {None}] /\ sent' \in [Ends -> 0 .. MaxSaid]
        /\ received' \in [Ends -> -1 .. MaxSaid - 1]
    <2>1. CASE phone.at = "waiting" /\ Understood = "paired"
      <3>1. NewSession(Strong, conn, phone.cn) \in Keys
        BY DEF NewSession, Strong, Stretched, Keys, Rotations, Conns, Nonces, Typed, TypeOK
      <3>2. /\ session' = [session EXCEPT !["phone"] = NewSession(Strong, conn, phone.cn)]
            /\ received' = [received EXCEPT !["phone"] = -1]
            /\ sent' = [sent EXCEPT !["phone"] = 0]
        BY <2>1 DEF PhoneReads, Install
      <3>3. -1 \in -1 .. MaxSaid - 1 /\ 0 \in 0 .. MaxSaid
        BY DEF Typed, ConstantsOK
      <3>4. QED
        BY <1>1, <3>1, <3>2, <3>3 DEF Typed
    <2>2. CASE ~(phone.at = "waiting" /\ Understood = "paired")
      <3>1. UNCHANGED <<session, sent>>
            /\ received' = IF Arriving.type = "sealed"
                           THEN [received EXCEPT !["phone"] = Arriving.seq] ELSE received
        BY <2>2 DEF PhoneReads
      <3>2. Arriving.type = "sealed" => Arriving.seq \in -1 .. MaxSaid - 1
        BY <1>2 DEF Typed, ConstantsOK
      <3>3. QED
        BY <1>1, <3>1, <3>2 DEF Typed
    <2>3. QED
      BY <2>1, <2>2
  <1>7. UNCHANGED <<gen, conn, pc, job, casting, air, history>>
    BY DEF PhoneReads
  <1>8. TypeOK' /\ JobTyped'
    BY <1>3, <1>4, <1>6, <1>7 DEF Typed, TypeOK, JobTyped
  <1>9. QED
    BY <1>4, <1>5, <1>6, <1>7, <1>8, SameAir DEF Typed

LEMMA PhoneLeavesTyped == ASSUME Typed, PhoneLeaves PROVE Typed'
  <1>1. TypeOK' /\ JobTyped' /\ wire' \in [Ends -> Seq(air')]
    BY ClosedTyped DEF PhoneLeaves, Typed, TypeOK, JobTyped
  <1>2. QED
    BY <1>1, SameAir DEF PhoneLeaves, Typed

LEMMA TroubleTyped == ASSUME Typed, NEW e \in Ends, Lose(e) \/ Repeat(e) PROVE Typed'
  <1>1. wire' \in [Ends -> Seq(air)]
    <2>1. CASE Lose(e)
      BY <2>1, SequenceFacts DEF Lose, Typed
    <2>2. CASE Repeat(e)
      <3>1. PICK f \in air : wire' = [wire EXCEPT ![e] = <<f>> \o @]
        BY <2>2 DEF Repeat
      <3>2. QED
        BY <3>1, SequenceFacts DEF Typed
    <2>3. QED
      BY <2>1, <2>2
  <1>2. history' = [history EXCEPT !.faults = @ + 1]
        /\ UNCHANGED <<gen, conn, up, session, sent, received, pc, job, client, casting,
                       phone, air, heard>>
    BY DEF Lose, Repeat
  <1>3. TypeOK' /\ JobTyped'
    BY <1>2 DEF Typed, TypeOK, JobTyped
  <1>4. history' \in [faults : Nat, broke : BOOLEAN, bare : BOOLEAN, asked : SUBSET Nonces,
                      made : SUBSET Keys]
    <2>1. history' = [history EXCEPT !.faults = history.faults + 1]
      BY <1>2
    <2>2. history.faults + 1 \in Nat
      BY DEF Typed
    <2>3. QED
      BY <2>1, <2>2 DEF Typed
  <1>5. QED
    BY <1>1, <1>2, <1>3, <1>4, SameAir DEF Typed

LEMMA InitTyped == ConstantsOK /\ Init => Typed
  <1> SUFFICES ASSUME ConstantsOK, Init PROVE Typed
    OBVIOUS
  <1>1. said = {}
    BY DEF Init, said
  <1>2. TypeOK /\ JobTyped
    <2>1. 0 \in 0 .. MaxTrouble /\ 0 \in 0 .. MaxConns /\ 0 \in 0 .. MaxSaid
          /\ 0 \in 0 .. MaxAuths /\ -1 \in -1 .. MaxSaid - 1
      BY DEF ConstantsOK
    <2>2. up \in BOOLEAN /\ casting \in BOOLEAN /\ pc = "read"
      BY DEF Init
    <2>3. QED
      BY <2>1, <2>2 DEF Init, TypeOK, JobTyped, Working
  <1>3. wire \in [Ends -> Seq(air)] /\ heard \in [Ends -> Seq(said)] /\ air \subseteq Frames
    BY <1>1 DEF Init
  <1>4. QED
    BY <1>2, <1>3 DEF Init, Typed, ConstantsOK

LEMMA NextTyped == Typed /\ [Next]_vars => Typed'
  <1> SUFFICES ASSUME Typed, [Next]_vars PROVE Typed'
    OBVIOUS
  <1>1. CASE UNCHANGED vars
    <2>1. TypeOK' /\ JobTyped'
      BY <1>1 DEF vars, Typed, TypeOK, JobTyped
    <2>2. QED
      BY <1>1, <2>1, SameAir DEF vars, Typed
  <1>2. CASE HandleConnection
    BY <1>2, GiveUpTyped, HandleOrderTyped, HandleExpiredTyped, HandleAuthTyped,
       AuthKeyTyped, AuthenticateTyped, EnterTyped, SealSessionTyped, ProveTyped,
       AcceptAndSealTyped, CatchUpTyped
       DEF HandleConnection, Unreadable
  <1>3. CASE Next /\ ~HandleConnection
    BY <1>3, ConnectTyped, CollectTyped, CastTyped, RotateTyped, ScanTyped, OrderTyped,
       PhoneReadsTyped, GiveUpTyped, PhoneLeavesTyped, AskTyped, TroubleTyped
       DEF Next, PhoneGivesUp
  <1>4. QED
    BY <1>1, <1>2, <1>3

\* Every reachable state has its types: counters stay in range, frames on the wire are
\* frames somebody wrote.
THEOREM TypeCorrect == ASSUME ConstantsOK PROVE Spec => [](Typed /\ TypeOK)
  <1>1. Init => Typed
    BY InitTyped
  <1>2. Typed => TypeOK
    BY DEF Typed
  <1>3. QED
    BY <1>1, <1>2, NextTyped, PTL DEF Spec

-----------------------------------------------------------------------------
(***************************************************************************)
(* Both ends mean each other.                                              *)
(***************************************************************************)
\* A step that leaves the connection, the greeting and what came of it alone.
Steady ==
  /\ conn' = conn /\ phone'.salt = phone.salt
  /\ phone'.at = "greeting" => phone.at = "greeting"
  /\ history.asked \subseteq history'.asked /\ history.made \subseteq history'.made
  /\ session["daemon"] # None => session'["daemon"] # None

LEMMA SteadyProofs ==
  ASSUME Steady, NEW m
  PROVE  (PleaOK(m) => PleaOK(m)') /\ (GrantOK(m) => GrantOK(m)')
  BY DEF Steady, PleaOK, GrantOK

\* What is written is no proof, or a proof that holds.
LEMMA SteadyAir ==
  ASSUME Meant, Steady, NEW g, air' = air \cup {g}, PleaOK(Body(g))', GrantOK(Body(g))'
  PROVE  \A f \in air' : PleaOK(Body(f))' /\ GrantOK(Body(f))'
  BY SteadyProofs DEF Meant

LEMMA SameAirMeant ==
  ASSUME Meant, Steady, air' = air
  PROVE  \A f \in air' : PleaOK(Body(f))' /\ GrantOK(Body(f))'
  BY SteadyProofs DEF Meant

LEMMA SteadyJob ==
  ASSUME Typed, Meant, Steady, UNCHANGED <<pc, job>>, gen' >= gen, gen' \in Nat
  PROVE  JobOK'
  <1>1. pc \in Working => PleaOK(job.msg)'
    BY SteadyProofs DEF Meant, JobOK
  <1>2. gen \in Nat /\ phone.salt \in Nat
    BY DEF Typed, TypeOK
  <1>3. pc \in {"prove", "accept"} => job.new.key[2] \in Nat
    BY DEF Typed, JobTyped, Keys, Rotations
  <1>4. pc = "accept" => job.proof.key[2] \in Nat
    BY DEF Typed, JobTyped, Proofs, Rotations
  <1>5. conn' = conn /\ phone'.salt = phone.salt /\ pc' = pc /\ job' = job
    BY DEF Steady
  <1>6. (pc \in Convinced \/ (pc = "authenticate" /\ job.holds)) =>
          /\ job.msg.proof.sn = conn /\ job.msg.proof.key = <<job.key, phone.salt>>
          /\ phone.salt <= gen'
    <2>1. phone.salt <= gen => phone.salt <= gen'
      BY <1>2
    <2>2. QED
      BY <2>1 DEF Meant, JobOK
  <1>7. pc \in {"prove", "accept"} =>
          /\ job.new = NewSession(<<job.key, job.new.key[2]>>, conn, job.msg.cn)
          /\ phone.salt <= job.new.key[2] /\ job.new.key[2] <= gen'
    <2>1. ASSUME pc \in {"prove", "accept"}, job.new.key[2] <= gen
          PROVE  job.new.key[2] <= gen'
      BY <1>2, <1>3, <2>1
    <2>2. QED
      BY <2>1 DEF Meant, JobOK
  <1>8. pc = "accept" =>
          /\ job.proof = Proof("server", <<job.key, job.proof.key[2]>>, conn, job.msg.cn, TRUE)
          /\ job.new.key[2] <= job.proof.key[2] /\ job.proof.key[2] <= gen'
    <2>1. ASSUME pc = "accept", job.proof.key[2] <= gen
          PROVE  job.proof.key[2] <= gen'
      BY <1>2, <1>4, <2>1
    <2>2. QED
      BY <2>1 DEF Meant, JobOK
  <1>9. QED
    BY <1>1, <1>5, <1>6, <1>7, <1>8 DEF JobOK, NewSession, Proof

LEMMA IdleJob == ASSUME pc' \notin Working PROVE JobOK'
  BY DEF JobOK, Working, Convinced

LEMMA SteadySessions ==
  ASSUME Meant, Steady, session' = session, history'.made = history.made
  PROVE  SessionsOK'
  BY DEF Meant, SessionsOK, Steady

\* The daemon writes nothing in the clear where it has accepted.
LEMMA NotAccepted ==
  ASSUME Typed, Meant, session["daemon"] = None
  PROVE  ~Accepted
  <1>1. SUFFICES ASSUME NEW f \in air, f.type = "auth_ok", f.proof.sn = conn PROVE FALSE
    BY DEF Accepted
  <1>2. Body(f) = f
    BY <1>1 DEF Body
  <1>3. QED
    BY <1>1, <1>2 DEF Meant, GrantOK

\* An end says something that is not about pairing.
LEMMA SaysMeant ==
  ASSUME Typed, Meant, NEW e \in Ends, NEW t \in {"auth_fail", "reply", "alert", "order"},
         Write(e, Plain(t)), UNCHANGED <<gen, conn, session, phone>>, JobOK'
  PROVE  Meant'
  <1>1. Plain(t) \in Messages /\ Plain(t).type = t
    BY DEF Plain, Messages
  <1>2. /\ Room(e) /\ air' = air \cup {Wrap(e, Plain(t))}
        /\ history' = [history EXCEPT !.bare =
                         @ \/ (e = "daemon" /\ session["daemon"] = None /\ Accepted)]
    BY <1>1, WriteFacts
  <1>3. /\ history'.asked = history.asked /\ history'.made = history.made
        /\ history'.bare = FALSE
    BY <1>2, NotAccepted DEF Typed, Meant, AcceptanceIsLast
  <1>4. Steady
    BY <1>3 DEF Steady
  <1>5. Body(Wrap(e, Plain(t))) = Plain(t)
    BY <1>1, <1>2, WrapFacts
  <1>6. PleaOK(Plain(t))' /\ GrantOK(Plain(t))'
    BY <1>1 DEF PleaOK, GrantOK
  <1>7. QED
    BY <1>2, <1>3, <1>4, <1>5, <1>6, SteadyAir, SteadySessions DEF Meant, AcceptanceIsLast

LEMMA AnswersMeant ==
  ASSUME Typed, Meant, NEW t \in {"auth_fail", "reply"}, wire["daemon"] # <<>>,
         Answer(Plain(t)), UNCHANGED <<gen, conn, session, phone, pc, job>>
  PROVE  Meant'
  <1>1. Plain(t) \in Messages /\ Plain(t).type = t /\ "daemon" \in Ends
    BY DEF Plain, Messages, Ends
  <1>2. /\ Room("daemon") /\ air' = air \cup {Wrap("daemon", Plain(t))}
        /\ history' = [history EXCEPT !.bare = @ \/ (session["daemon"] = None /\ Accepted)]
    BY <1>1, AnswerFacts
  <1>3. /\ history'.asked = history.asked /\ history'.made = history.made
        /\ history'.bare = FALSE
    BY <1>2, NotAccepted DEF Typed, Meant, AcceptanceIsLast
  <1>4. Steady
    BY <1>3 DEF Steady
  <1>5. Body(Wrap("daemon", Plain(t))) = Plain(t)
    BY <1>1, <1>2, WrapFacts
  <1>6. PleaOK(Plain(t))' /\ GrantOK(Plain(t))'
    BY <1>1 DEF PleaOK, GrantOK
  <1>7. JobOK'
    BY <1>4, SteadyJob DEF Typed, TypeOK
  <1>8. QED
    BY <1>2, <1>3, <1>4, <1>5, <1>6, <1>7, SteadyAir, SteadySessions
       DEF Meant, AcceptanceIsLast

\* A step that writes nothing, and changes no session.
LEMMA QuietMeant ==
  ASSUME Typed, Meant, UNCHANGED <<conn, session, air>>,
         history'.asked = history.asked, history'.made = history.made,
         history'.bare = history.bare,
         phone'.salt = phone.salt, phone'.at = "greeting" => phone.at = "greeting", JobOK'
  PROVE  Meant'
  <1>1. Steady
    BY DEF Steady
  <1>2. QED
    BY <1>1, SameAirMeant, SteadySessions DEF Meant, AcceptanceIsLast

LEMMA ConnectMeant == ASSUME Typed, Meant, Connect PROVE Meant'
  <1>1. PICK hello : hello.type = "hello" /\ Body(hello) = hello /\ air' = air \cup {hello}
    <2>1. [Hello EXCEPT !.nonce = conn + 1].type = "hello"
      BY DEF Hello
    <2>2. QED
      BY <2>1 DEF Body, Connect
  <1>2. conn' = conn + 1 /\ conn \in Nat /\ pc' = "read" /\ session' = [e \in Ends |-> None]
        /\ history' = [history EXCEPT !.bare = FALSE, !.asked = {}, !.made = {}]
    BY DEF Connect, Typed, TypeOK
  <1>3. ASSUME NEW f \in air PROVE PleaOK(Body(f))' /\ GrantOK(Body(f))'
    <2>1. Body(f) \in Messages
      BY FrameFacts DEF Typed
    <2>2. PleaOK(Body(f))'
      <3>1. SUFFICES ASSUME Body(f).type = "auth" /\ Body(f).seals
                     PROVE  /\ Body(f).proof \in Proofs
                            /\ Body(f).proof.sn <= conn' /\ Body(f).proof.sn # conn'
        BY DEF PleaOK
      <3>2. Body(f).proof \in Proofs /\ Body(f).proof.sn <= conn
        BY <3>1 DEF Meant, PleaOK
      <3>3. Body(f).proof.sn \in Nat
        BY <3>2 DEF Proofs, Conns
      <3>4. QED
        BY <1>2, <3>2, <3>3
    <2>3. GrantOK(Body(f))'
      <3>1. SUFFICES ASSUME Body(f).type = "auth_ok"
                     PROVE  Body(f).proof.sn <= conn' /\ Body(f).proof.sn # conn'
        BY DEF GrantOK
      <3>2. Body(f).proof.sn \in Nat
        <4>1. Body(f) \in Grants
          BY <2>1, <3>1, MessageFacts
        <4>2. Body(f).proof \in Proofs
          BY <4>1 DEF Grants
        <4>3. QED
          BY <4>2 DEF Proofs, Conns
      <3>3. Body(f).proof.sn <= conn
        BY <3>1 DEF Meant, GrantOK
      <3>4. QED
        BY <1>2, <3>2, <3>3
    <2>4. QED
      BY <2>2, <2>3
  <1>4. PleaOK(Body(hello))' /\ GrantOK(Body(hello))'
    BY <1>1 DEF PleaOK, GrantOK
  <1>5. JobOK'
    BY <1>2, IdleJob DEF Working
  <1>6. SessionsOK' /\ AcceptanceIsLast'
    BY <1>2 DEF SessionsOK, AcceptanceIsLast, Typed
  <1>7. QED
    BY <1>1, <1>3, <1>4, <1>5, <1>6 DEF Meant

\* What closes a connection, or what the wire does, says nothing about proofs.
LEMMA ClosedMeant ==
  ASSUME Typed, Meant, UNCHANGED <<gen, conn, session, air, pc, job>>,
         phone'.salt = phone.salt, phone'.at = "greeting" => phone.at = "greeting",
         history'.asked = history.asked, history'.made = history.made,
         history'.bare = history.bare
  PROVE  Meant'
  <1>1. Steady
    BY DEF Steady
  <1>2. JobOK'
    BY <1>1, SteadyJob DEF Typed, TypeOK
  <1>3. QED
    BY <1>2, QuietMeant

LEMMA GiveUpMeant == ASSUME Typed, Meant, GiveUp PROVE Meant'
  <1>1. phone' = [phone EXCEPT !.at = IF phone.at = "impostor" THEN "impostor" ELSE "away"]
        /\ history' = [history EXCEPT !.broke = TRUE]
    BY DEF GiveUp, Close
  <1>2. QED
    BY <1>1, ClosedMeant DEF GiveUp, Typed, TypeOK

LEMMA HandleExpiredMeant == ASSUME Typed, Meant, HandleExpired \/ PhoneLeaves PROVE Meant'
  <1>1. phone' = [phone EXCEPT !.at = IF phone.at = "impostor" THEN "impostor" ELSE "away"]
        /\ history' = history
    BY DEF HandleExpired, PhoneLeaves, Close
  <1>2. QED
    BY <1>1, ClosedMeant DEF HandleExpired, PhoneLeaves, Typed, TypeOK

LEMMA HandleAuthMeant == ASSUME Typed, Meant, HandleAuth PROVE Meant'
  <1>1. CASE Message.seals
    <2>1. pc' = "judge" /\ job' = [msg |-> Message, key |-> gen, holds |-> FALSE,
                                   new |-> None, proof |-> None]
          /\ UNCHANGED <<gen, conn, session, phone, air, history>>
      BY <1>1 DEF HandleAuth
    <2>2. PleaOK(Message)
      BY MessageFromAir DEF HandleAuth, Meant
    <2>3. JobOK'
      BY <2>1, <2>2 DEF JobOK, PleaOK, Working, Convinced
    <2>4. QED
      BY <2>1, <2>3, QuietMeant
  <1>2. CASE ~Message.seals
    BY <1>2, AnswersMeant DEF HandleAuth, Reading
  <1>3. QED
    BY <1>1, <1>2

LEMMA AuthKeyMeant == ASSUME Typed, Meant, AuthKey PROVE Meant'
  <1>1. pc = "judge" /\ PleaOK(job.msg) /\ job.msg \in Pleas /\ job.msg.seals
        /\ job \in [msg : Pleas, key : Rotations, holds : BOOLEAN, new : Keys \cup {None},
                    proof : Proofs \cup {None}]
    BY DEF AuthKey, Meant, JobOK, Typed, JobTyped, Working
  <1> DEFINE holds == job.msg.proof = Proof("client", Stretched(job.key, gen), conn,
                                            job.msg.cn, job.msg.seals)
  <1>2. /\ pc' = "authenticate" /\ job' = [job EXCEPT !.holds = holds]
        /\ UNCHANGED <<gen, conn, session, phone, air, history>>
    BY DEF AuthKey
  <1>3. job'.msg = job.msg /\ job'.key = job.key /\ job'.holds = holds
    BY <1>1, <1>2
  <1>4. PleaOK(job.msg)'
    BY <1>1, <1>2, <1>3 DEF PleaOK
  <1>5. holds => /\ job.msg.proof.sn = conn /\ job.msg.proof.key = <<job.key, phone.salt>>
                 /\ phone.salt <= gen
    <2>1. SUFFICES ASSUME holds
                   PROVE  /\ job.msg.proof.sn = conn
                          /\ job.msg.proof.key = <<job.key, gen>> /\ phone.salt = gen
      BY DEF Typed, TypeOK
    <2>2. job.msg.proof.sn = conn /\ job.msg.proof.key = <<job.key, gen>>
      BY <2>1 DEF Proof, Stretched
    <2>3. job.msg.type = "auth"
      BY <1>1 DEF Pleas
    <2>4. job.msg.proof.key[2] = phone.salt
      BY <1>1, <2>2, <2>3 DEF PleaOK
    <2>5. QED
      BY <2>2, <2>4
  <1>6. pc' = "authenticate" /\ job'.holds =>
          /\ job'.msg.proof.sn = conn' /\ job'.msg.proof.key = <<job'.key, phone'.salt>>
          /\ phone'.salt <= gen'
    BY <1>2, <1>3, <1>5
  <1>7. JobOK'
    BY <1>2, <1>4, <1>6 DEF JobOK, Convinced
  <1>8. QED
    BY <1>2, <1>7, QuietMeant

LEMMA AuthenticateMeant == ASSUME Typed, Meant, Authenticate \/ Refuse PROVE Meant'
  <1>1. UNCHANGED <<gen, conn, session, phone>> /\ "daemon" \in Ends
    BY DEF Authenticate, Refuse, Ends
  <1>2. JobOK'
    <2>1. CASE pc' = "read"
      BY <2>1, IdleJob DEF Working
    <2>2. CASE pc' # "read"
      <3>1. pc = "authenticate" /\ pc' = "enter" /\ job' = job /\ job.holds
            /\ UNCHANGED history
        BY <2>2 DEF Authenticate, Refuse
      <3>2. PleaOK(job.msg)'
        BY <1>1, <3>1 DEF Meant, JobOK, PleaOK, Working
      <3>3. QED
        BY <1>1, <3>1, <3>2 DEF Meant, JobOK, Working, Convinced
    <2>3. QED
      BY <2>1, <2>2
  <1>3. CASE Write("daemon", Plain("auth_fail"))
    BY <1>1, <1>2, <1>3, SaysMeant
  <1>4. CASE UNCHANGED <<wire, air, history, sent>>
    BY <1>1, <1>2, <1>4, QuietMeant
  <1>5. QED
    BY <1>3, <1>4 DEF Authenticate, Refuse, Silent

LEMMA EnterMeant == ASSUME Typed, Meant, Enter PROVE Meant'
  <1>1. pc = "enter" /\ pc' = "derive"
        /\ UNCHANGED <<gen, conn, session, job, phone, air, history>>
    BY DEF Enter
  <1>2. JobOK'
    BY <1>1 DEF Meant, JobOK, PleaOK, Working, Convinced
  <1>3. QED
    BY <1>1, <1>2, QuietMeant

LEMMA SealSessionMeant == ASSUME Typed, Meant, SealSession PROVE Meant'
  <1> DEFINE new == NewSession(Stretched(job.key, gen), conn, job.msg.cn)
  <1>1. /\ pc = "derive" /\ pc' = "prove" /\ job' = [job EXCEPT !.new = new]
        /\ UNCHANGED <<gen, conn, session, phone, air, history>>
    BY DEF SealSession
  <1>2. job'.msg = job.msg /\ job'.key = job.key /\ job'.new = new
    BY <1>1 DEF Typed, JobTyped, Working
  <1>3. new = NewSession(<<job.key, gen>>, conn, job.msg.cn) /\ new.key[2] = gen
    BY DEF NewSession, Stretched
  <1>4. gen <= gen /\ phone.salt <= gen
    BY <1>1 DEF Meant, JobOK, Convinced, Typed, TypeOK
  <1>5. JobOK'
    BY <1>1, <1>2, <1>3, <1>4 DEF Meant, JobOK, PleaOK, Working, Convinced
  <1>6. QED
    BY <1>1, <1>5, QuietMeant

LEMMA ProveMeant == ASSUME Typed, Meant, Prove PROVE Meant'
  <1> DEFINE proof == Proof("server", Stretched(job.key, gen), conn, job.msg.cn, TRUE)
  <1>1. /\ pc = "prove" /\ pc' = "accept" /\ job' = [job EXCEPT !.proof = proof]
        /\ UNCHANGED <<gen, conn, session, phone, air, history>>
    BY DEF Prove
  <1>2. job'.msg = job.msg /\ job'.key = job.key /\ job'.new = job.new /\ job'.proof = proof
    BY <1>1 DEF Typed, JobTyped, Working
  <1>3. proof = Proof("server", <<job.key, gen>>, conn, job.msg.cn, TRUE) /\ proof.key[2] = gen
    BY DEF Proof, Stretched
  <1>4. gen <= gen /\ phone.salt <= gen
    BY <1>1 DEF Meant, JobOK, Convinced, Typed, TypeOK
  <1>5. JobOK'
    BY <1>1, <1>2, <1>3, <1>4 DEF Meant, JobOK, PleaOK, Working, Convinced
  <1>6. QED
    BY <1>1, <1>5, QuietMeant

\* The plea whose job is accepted was made on this connection, and in the session the
\* acceptance announces.
LEMMA JobFacts ==
  ASSUME Typed, Meant, pc = "accept"
  PROVE  /\ job.msg.cn \in history.asked /\ phone.at # "greeting"
         /\ job.new \in Keys /\ job.proof \in Proofs
         /\ job.new.sn = conn /\ job.new.cn = job.msg.cn
         /\ job.proof.sn = conn /\ job.proof.cn = job.msg.cn
         /\ job.proof.key[2] = phone.salt =>
              NewSession(job.proof.key, conn, job.proof.cn) = job.new
  <1>1. /\ job \in [msg : Pleas, key : Rotations, holds : BOOLEAN, new : Keys \cup {None},
                    proof : Proofs \cup {None}]
        /\ job.msg.seals /\ job.new \in Keys /\ job.proof \in Proofs
    BY DEF Typed, JobTyped, Working
  <1>2. PleaOK(job.msg) /\ job.msg.proof.sn = conn /\ job.msg.type = "auth"
    BY <1>1 DEF Meant, JobOK, Working, Convinced, Pleas
  <1>3. job.msg.cn \in history.asked /\ phone.at # "greeting"
    BY <1>1, <1>2 DEF PleaOK
  <1>4. /\ job.new = NewSession(<<job.key, job.new.key[2]>>, conn, job.msg.cn)
        /\ phone.salt <= job.new.key[2] /\ job.new.key[2] <= job.proof.key[2]
        /\ job.proof = Proof("server", <<job.key, job.proof.key[2]>>, conn, job.msg.cn, TRUE)
    BY DEF Meant, JobOK
  <1>5. /\ job.new.sn = conn /\ job.new.cn = job.msg.cn
        /\ job.proof.sn = conn /\ job.proof.cn = job.msg.cn
        /\ job.proof.key = <<job.key, job.proof.key[2]>>
    <2>1. PICK k : job.new = NewSession(k, conn, job.msg.cn)
      BY <1>4
    <2>2. PICK j : /\ j = <<job.key, job.proof.key[2]>>
                   /\ job.proof = Proof("server", j, conn, job.msg.cn, TRUE)
      BY <1>4
    <2>3. job.new.sn = conn /\ job.new.cn = job.msg.cn
      BY <2>1 DEF NewSession
    <2>4. job.proof.sn = conn /\ job.proof.cn = job.msg.cn /\ job.proof.key = j
      BY <2>2 DEF Proof
    <2>5. QED
      BY <2>2, <2>3, <2>4
  <1>6. ASSUME job.proof.key[2] = phone.salt
        PROVE  NewSession(job.proof.key, conn, job.proof.cn) = job.new
    <2>1. job.new.key[2] \in Nat /\ phone.salt \in Nat
      BY <1>1 DEF Keys, Rotations, Typed, TypeOK
    <2>2. job.new.key[2] = job.proof.key[2]
      BY <1>4, <1>6, <2>1
    <2>3. QED
      BY <1>4, <1>5, <2>2
  <1>7. QED
    BY <1>1, <1>3, <1>5, <1>6

LEMMA AcceptAndSealMeant == ASSUME Typed, Meant, AcceptAndSeal PROVE Meant'
  <1>1. /\ pc = "accept" /\ pc' = "catch_up"
        /\ session' = [session EXCEPT !["daemon"] = job.new]
        /\ history' = [history EXCEPT !.made = @ \cup {job.new}]
        /\ UNCHANGED <<gen, conn, up, job, client, casting, phone, heard>>
    BY DEF AcceptAndSeal, Install
  <1>2. /\ job.msg.cn \in history.asked /\ phone.at # "greeting"
        /\ job.new \in Keys /\ job.proof \in Proofs
        /\ job.new.sn = conn /\ job.new.cn = job.msg.cn
        /\ job.proof.sn = conn /\ job.proof.cn = job.msg.cn
        /\ job.proof.key[2] = phone.salt =>
             NewSession(job.proof.key, conn, job.proof.cn) = job.new
    BY <1>1, JobFacts
  <1>3. /\ history'.made = history.made \cup {job.new} /\ history'.asked = history.asked
        /\ history'.bare = history.bare
        /\ session'["daemon"] = job.new /\ session'["phone"] = session["phone"]
        /\ job.new # None
    BY <1>1, <1>2, NoneIsNoTerm DEF Typed, Ends
  <1>4. Steady
    BY <1>1, <1>3 DEF Steady
  <1>5. JobOK'
    BY <1>1, IdleJob DEF Working
  <1>6. SessionsOK'
    <2>1. \A m \in history'.made : m.sn = conn' /\ m.cn \in history'.asked
      BY <1>1, <1>2, <1>3 DEF Meant, SessionsOK
    <2>2. \A e \in Ends : session'[e] # None => session'[e] \in history'.made
      BY <1>3 DEF Meant, SessionsOK, Ends
    <2>3. QED
      BY <2>1, <2>2 DEF SessionsOK
  <1>7. \A f \in air' : PleaOK(Body(f))' /\ GrantOK(Body(f))'
    <2>1. CASE up
      <3>1. PICK g : g = Wrap("daemon", AuthOK(job.proof))
        OBVIOUS
      <3>2. AuthOK(job.proof) \in Messages /\ "daemon" \in Ends
        BY <1>2 DEF AuthOK, Messages, Grants, Ends
      <3>3. Room("daemon") /\ air' = air \cup {g}
        BY <2>1, <3>1 DEF AcceptAndSeal, Wrap
      <3>4. Body(g) = AuthOK(job.proof)
        BY <3>1, <3>2, <3>3, WrapFacts
      <3>5. (Body(g)).type = "auth_ok" /\ (Body(g)).proof = job.proof
        BY <3>4 DEF AuthOK
      <3>6. PleaOK(Body(g))'
        BY <3>5 DEF PleaOK
      <3>7. conn <= conn
        BY DEF Typed, TypeOK
      <3>8. GrantOK(Body(g))'
        BY <1>1, <1>2, <1>3, <3>5, <3>7 DEF GrantOK
      <3>9. QED
        BY <1>4, <3>3, <3>6, <3>8, SteadyAir
    <2>2. CASE ~up
      BY <1>4, <2>2, SameAirMeant DEF AcceptAndSeal
    <2>3. QED
      BY <2>1, <2>2
  <1>8. QED
    BY <1>3, <1>5, <1>6, <1>7 DEF Meant, AcceptanceIsLast

LEMMA CatchUpMeant == ASSUME Typed, Meant, CatchUp PROVE Meant'
  <1>1. UNCHANGED <<gen, conn, session, phone>> /\ "daemon" \in Ends /\ JobOK'
    BY IdleJob DEF CatchUp, Ends, Working
  <1>2. CASE Write("daemon", Plain("alert"))
    BY <1>1, <1>2, SaysMeant
  <1>3. CASE Silent
    BY <1>1, <1>3, QuietMeant DEF Silent
  <1>4. QED
    BY <1>2, <1>3 DEF CatchUp

LEMMA CastMeant == ASSUME Typed, Meant, Cast PROVE Meant'
  <1>1. UNCHANGED <<gen, conn, session, phone, pc, job>> /\ "daemon" \in Ends
    BY DEF Cast, Ends
  <1>2. CASE Write("daemon", Plain("alert"))
    <2>1. Plain("alert") \in Messages
      BY DEF Plain, Messages
    <2>2. history'.asked = history.asked /\ history'.made = history.made
      BY <1>1, <1>2, <2>1, WriteFacts DEF Typed
    <2>3. Steady
      BY <1>1, <2>2 DEF Steady
    <2>4. JobOK'
      BY SMTT(30), <1>1, <2>3, SteadyJob DEF Typed, TypeOK
    <2>5. QED
      BY <1>1, <1>2, <2>4, SaysMeant
  <1>3. CASE Silent
    BY <1>1, <1>3, ClosedMeant DEF Silent
  <1>4. QED
    BY <1>2, <1>3 DEF Cast

LEMMA RotateMeant == ASSUME Typed, Meant, Rotate PROVE Meant'
  <1>1. /\ gen' = gen + 1 /\ gen \in Nat
        /\ UNCHANGED <<conn, session, phone, pc, job, air, history>>
    BY DEF Rotate, Typed, TypeOK
  <1>2. JobOK'
    BY <1>1, SteadyJob DEF Steady
  <1>3. QED
    BY <1>1, <1>2, QuietMeant

LEMMA OrderMeant == ASSUME Typed, Meant, Order PROVE Meant'
  <1>1. /\ UNCHANGED <<gen, conn, session, phone, pc, job>> /\ "phone" \in Ends
        /\ Write("phone", Plain("order"))
    BY DEF Order, Ends
  <1>2. Plain("order") \in Messages
    BY DEF Plain, Messages
  <1>3. history'.asked = history.asked /\ history'.made = history.made
    BY <1>1, <1>2, WriteFacts DEF Typed
  <1>4. JobOK'
    BY SMTT(30), <1>1, <1>3, SteadyJob DEF Steady, Typed, TypeOK
  <1>5. QED
    BY <1>1, <1>4, SaysMeant

LEMMA AskMeant == ASSUME Typed, Meant, NEW seals \in BOOLEAN, Ask(seals) PROVE Meant'
  <1> DEFINE cn == phone.cn + 1
             proof == Proof("client", Strong, conn, cn, seals)
             msg == AuthMsg(cn, seals, IF seals THEN proof ELSE None)
  <1>1. /\ msg \in Messages /\ msg.type = "auth" /\ msg.cn = cn /\ msg.seals = seals
        /\ (seals => msg.proof = proof) /\ proof \in Proofs
        /\ proof.sn = conn /\ proof.key[2] = phone.salt
    BY PleaMade DEF Ask
  <1>2. PICK g : g = Wrap("phone", msg)
    OBVIOUS
  <1>3. /\ Room("phone") /\ air' = air \cup {g} /\ "phone" \in Ends
        /\ phone' = [phone EXCEPT !.at = "waiting", !.cn = cn]
        /\ history' = [history EXCEPT !.asked = @ \cup {cn}]
        /\ UNCHANGED <<gen, conn, session, pc, job>>
    BY <1>2 DEF Ask, Wrap, Ends
  <1>4. Body(g) = msg
    BY <1>1, <1>2, <1>3, WrapFacts
  <1>5. /\ phone'.at = "waiting" /\ phone'.salt = phone.salt
        /\ history'.asked = history.asked \cup {cn} /\ history'.made = history.made
        /\ history'.bare = history.bare
    BY <1>3 DEF Typed, TypeOK
  <1>6. Steady
    BY <1>3, <1>5 DEF Steady
  <1> HIDE DEF msg, proof, cn
  <1>7. PleaOK(Body(g))'
    <2>1. conn <= conn
      BY DEF Typed, TypeOK
    <2>2. (Body(g)).cn \in history'.asked
      BY <1>1, <1>4, <1>5
    <2>3. (Body(g)).seals => /\ (Body(g)).proof \in Proofs /\ (Body(g)).proof.sn = conn
                             /\ (Body(g)).proof.key[2] = phone.salt
      BY <1>1, <1>4
    <2>4. QED
      BY <1>3, <1>5, <2>1, <2>2, <2>3 DEF PleaOK
  <1>8. GrantOK(Body(g))'
    BY <1>1, <1>4 DEF GrantOK
  <1>9. JobOK'
    BY SMTT(30), <1>3, <1>6, SteadyJob DEF Typed, TypeOK
  <1>10. QED
    BY <1>3, <1>5, <1>6, <1>7, <1>8, <1>9, SteadyAir, SteadySessions DEF Meant, AcceptanceIsLast

\* A greeting: nothing was asked or granted here before it.
LEMMA GreetedMeant ==
  ASSUME Typed, Meant, phone.at = "greeting",
         UNCHANGED <<gen, conn, session, pc, job, air, history>>
  PROVE  Meant'
  <1>1. ASSUME NEW m, PleaOK(m) PROVE PleaOK(m)'
    BY <1>1 DEF PleaOK
  <1>2. ASSUME NEW m, GrantOK(m) PROVE GrantOK(m)'
    BY <1>2 DEF GrantOK
  <1>3. pc \notin Convinced /\ (pc = "authenticate" => ~job.holds)
    <2>1. SUFFICES ASSUME pc \in Convinced \/ (pc = "authenticate" /\ job.holds) PROVE FALSE
      OBVIOUS
    <2>2. pc \in Working /\ job.msg.proof.sn = conn /\ PleaOK(job.msg)
      BY <2>1 DEF Meant, JobOK, Working, Convinced
    <2>3. job.msg.type = "auth" /\ job.msg.seals
      BY <2>2 DEF Typed, JobTyped, Pleas
    <2>4. QED
      BY <2>2, <2>3 DEF PleaOK
  <1>4. pc' = pc /\ job' = job
    OBVIOUS
  <1>5. pc \in Working => PleaOK(job.msg)'
    BY <1>1 DEF Meant, JobOK
  <1>6. JobOK'
    BY <1>3, <1>4, <1>5 DEF JobOK, Convinced
  <1>7. \A f \in air' : PleaOK(Body(f))' /\ GrantOK(Body(f))'
    BY <1>1, <1>2 DEF Meant
  <1>8. QED
    BY <1>6, <1>7 DEF Meant, SessionsOK, AcceptanceIsLast

LEMMA PhoneReadsMeant == ASSUME Typed, Meant, PhoneReads PROVE Meant'
  <1>1. /\ UNCHANGED <<gen, conn, pc, job, air, history>> /\ wire["phone"] # <<>>
        /\ phone' = [phone EXCEPT !.at = Understood,
             !.salt = IF phone.at = "greeting" /\ Opened.type = "hello"
                      THEN Opened.salt ELSE phone.salt]
    BY DEF PhoneReads
  <1>2. /\ phone'.at = Understood
        /\ ~(phone.at = "greeting" /\ Opened.type = "hello") => phone'.salt = phone.salt
    BY <1>1 DEF Typed, TypeOK
  <1>3. CASE phone.at = "greeting"
    <2>1. UNCHANGED session
      BY <1>3 DEF PhoneReads
    <2>2. QED
      BY <1>1, <1>3, <2>1, GreetedMeant
  <1>4. CASE phone.at = "waiting" /\ Understood = "paired"
    <2>1. session' = [session EXCEPT !["phone"] = NewSession(Strong, conn, phone.cn)]
      BY <1>4 DEF PhoneReads, Install
    <2>2. Opened.type = "auth_ok"
          /\ Opened.proof = Proof("server", Strong, conn, phone.cn, Opened.seals)
      BY <1>4, UnderstoodFacts
    <2>3. GrantOK(Opened)
      BY <1>1, ArrivingFromAir DEF Meant
    <2>4. NewSession(Strong, conn, phone.cn) \in history.made
      BY <2>2, <2>3 DEF GrantOK, Proof, Strong, Stretched
    <2>5. Steady
      BY <1>1, <1>2, <1>4, <2>1 DEF Steady, Typed, Ends
    <2>6. JobOK'
      BY <1>1, <2>5, SteadyJob DEF Typed, TypeOK
    <2>7. session'["daemon"] = session["daemon"]
          /\ session'["phone"] = NewSession(Strong, conn, phone.cn)
      BY <2>1 DEF Typed, Ends
    <2>8. SessionsOK'
      BY <1>1, <2>4, <2>7 DEF SessionsOK, Meant, Ends
    <2>9. QED
      BY <1>1, <2>5, <2>6, <2>8, SameAirMeant DEF Meant, AcceptanceIsLast
  <1>5. CASE phone.at # "greeting" /\ ~(phone.at = "waiting" /\ Understood = "paired")
    <2>1. session' = session
      BY <1>5 DEF PhoneReads
    <2>2. phone'.at # "greeting"
      BY <1>2, <1>5, UnderstoodFacts
    <2>3. QED
      BY <1>1, <1>2, <1>5, <2>1, <2>2, ClosedMeant
  <1>6. QED
    BY <1>3, <1>4, <1>5

LEMMA TroubleMeant ==
  ASSUME Typed, Meant, NEW e \in Ends, Lose(e) \/ Repeat(e)
  PROVE  Meant'
  <1>1. UNCHANGED <<gen, conn, session, air, pc, job, phone>>
        /\ history' = [history EXCEPT !.faults = @ + 1]
    BY DEF Lose, Repeat
  <1>2. history'.asked = history.asked /\ history'.made = history.made
        /\ history'.bare = history.bare
    BY <1>1 DEF Typed
  <1>3. QED
    BY <1>1, <1>2, ClosedMeant

LEMMA CollectMeant == ASSUME Typed, Meant, Collect \/ Scan PROVE Meant'
  <1>1. UNCHANGED <<gen, conn, session, air, pc, job, history>>
        /\ phone'.salt = phone.salt /\ phone'.at = phone.at
    BY DEF Collect, Scan, Typed, TypeOK
  <1>2. QED
    BY <1>1, ClosedMeant

LEMMA InitMeant == ConstantsOK /\ Init => Meant
  <1> SUFFICES ASSUME ConstantsOK, Init PROVE Meant
    OBVIOUS
  <1>1. air = {} /\ pc = "read" /\ history.made = {} /\ history.bare = FALSE
        /\ session = [e \in Ends |-> None]
    BY DEF Init
  <1>2. JobOK
    BY <1>1 DEF JobOK, Working, Convinced
  <1>3. QED
    BY <1>1, <1>2 DEF Meant, SessionsOK, AcceptanceIsLast

LEMMA NextMeant == Typed /\ Meant /\ [Next]_vars => Meant'
  <1> SUFFICES ASSUME Typed, Meant, [Next]_vars PROVE Meant'
    OBVIOUS
  <1>1. CASE UNCHANGED vars
    BY <1>1, ClosedMeant DEF vars
  <1>2. CASE HandleConnection
    <2>1. CASE HandleOrder
      <3>1. Answer(Plain("reply")) \/ Answer(Plain("auth_fail"))
        BY <2>1 DEF HandleOrder
      <3>2. wire["daemon"] # <<>> /\ UNCHANGED <<gen, conn, session, phone, pc, job>>
        BY <2>1 DEF HandleOrder, Reading
      <3>3. QED
        BY <3>1, <3>2, AnswersMeant
    <2>2. CASE ~HandleOrder
      BY <1>2, <2>2, GiveUpMeant, HandleExpiredMeant, HandleAuthMeant, AuthKeyMeant,
         AuthenticateMeant, EnterMeant, SealSessionMeant, ProveMeant, AcceptAndSealMeant,
         CatchUpMeant DEF HandleConnection, Unreadable
    <2>3. QED
      BY <2>1, <2>2
  <1>3. CASE Next /\ ~HandleConnection
    BY <1>3, ConnectMeant, CollectMeant, CastMeant, RotateMeant, OrderMeant, PhoneReadsMeant,
       GiveUpMeant, HandleExpiredMeant, AskMeant, TroubleMeant DEF Next, PhoneGivesUp
  <1>4. QED
    BY <1>1, <1>2, <1>3

\* Neither end holds a session the other did not mean on this very connection, whatever
\* proofs of other connections the wire brings again and whenever the key is rotated.
\* (handshakeProof, acceptAndSeal.)
THEOREM BothMeantItHolds == ASSUME ConstantsOK PROVE Spec => []BothMeantIt
  <1>1. Init => Typed /\ Meant
    BY InitTyped, InitMeant
  <1>2. Typed /\ Meant /\ [Next]_vars => Typed' /\ Meant'
    BY NextTyped, NextMeant
  <1>3. Meant => BothMeantIt
    BY DEF Meant, SessionsOK, BothMeantIt, Ends
  <1>4. QED
    BY <1>1, <1>2, <1>3, PTL DEF Spec

-----------------------------------------------------------------------------
(***************************************************************************)
(* No key and counter seal two messages, and none is opened twice.         *)
(***************************************************************************)
\* A step that stays on the connection, and that keeps the phone's old keys old.
Later ==
  /\ conn' = conn /\ history.made \subseteq history'.made
  /\ \A cn \in Nonces : Older(cn) => Older(cn)'

LEMMA LaterKeys ==
  ASSUME Later, NEW e, NEW k \in Keys, KeyOK(e, k)
  PROVE  KeyOK(e, k)'
  <1>1. k.cn \in Nonces
    BY DEF Keys
  <1>2. QED
    BY <1>1 DEF Later, KeyOK

\* Whatever the phone does but ask, its old keys stay old.
LEMMA OlderFacts ==
  ASSUME Typed, phone'.cn = phone.cn, phone'.at = "waiting" => phone.at = "waiting"
  PROVE  \A cn \in Nonces : Older(cn) => Older(cn)'
  BY DEF Older

LEMMA SealedFacts ==
  ASSUME Typed, NEW f \in air, f.type = "sealed"
  PROVE  /\ f.key \in Keys /\ f.from \in Ends /\ f.seq \in 0 .. MaxSaid - 1
         /\ f.seq \in Nat /\ f.body \in Messages
         /\ f = [type |-> "sealed", key |-> f.key, from |-> f.from, seq |-> f.seq,
                 body |-> f.body]
  <1>1. f \in SealedFrames
    BY FrameFacts DEF Typed
  <1>2. QED
    BY <1>1 DEF SealedFrames

LEMMA HeardFacts ==
  ASSUME Typed, NEW e \in Ends, NEW i \in DOMAIN heard[e]
  PROVE  heard[e][i].of \in Keys /\ heard[e][i].at \in Nat
  <1>1. heard[e][i] \in said
    BY DEF Typed
  <1>2. PICK f \in air : f.type = "sealed" /\ heard[e][i] = Utterance(f)
    BY <1>1 DEF said
  <1>3. QED
    BY <1>2, SealedFacts DEF Utterance

\* The session an end holds is one it may seal under.
LEMMA HeldKeys ==
  ASSUME Typed, Meant, Sent, NEW e \in Ends, session[e] # None
  PROVE  session[e] \in Keys /\ KeyOK(e, session[e]) /\ session[e].sn = conn
  <1>1. session[e] \in Keys /\ session[e] \in history.made /\ session[e].sn = conn
    BY DEF Typed, Meant, SessionsOK
  <1>2. conn <= conn
    BY DEF Typed, TypeOK
  <1>3. QED
    BY <1>1, <1>2 DEF Sent, RisingOK, KeyOK

\* Nothing written: the counters stand where they stood.
LEMMA SameAirSent ==
  ASSUME Typed, Sent, Numbered, Later, UNCHANGED <<air, session, sent>>
  PROVE  SealsOK' /\ Numbered'
  <1>1. ASSUME NEW f \in air PROVE SealOK(f)'
    <2>1. SUFFICES ASSUME f.type = "sealed" PROVE SealOK(f)'
      BY DEF SealOK
    <2>2. f.key \in Keys /\ KeyOK(f.from, f.key)
      BY <2>1, SealedFacts DEF Sent, SealsOK, SealOK
    <2>3. KeyOK(f.from, f.key)'
      BY <2>2, LaterKeys
    <2>4. QED
      BY <2>1, <2>3 DEF Sent, SealsOK, SealOK
  <1>2. QED
    BY <1>1 DEF SealsOK, Numbered

\* A frame sealed under the counter of its end is the first with that counter.
LEMMA WroteSent ==
  ASSUME Typed, Meant, Sent, Numbered, Later, NEW e \in Ends, NEW msg \in Messages, Room(e),
         air' = air \cup {Wrap(e, msg)}, sent' = Counted(e), session' = session,
         e = "phone" /\ msg.type = "auth" /\ session["phone"] # None =>
           msg.cn > session["phone"].cn
  PROVE  SealsOK' /\ Numbered'
  <1>1. PICK g : g = Wrap(e, msg)
    OBVIOUS
  <1>2. CASE session[e] = None
    <2>1. g.type # "sealed" /\ sent' = sent
      BY <1>1, <1>2, WrapFacts DEF Counted
    <2>2. ASSUME NEW f \in air, f.type = "sealed" PROVE SealOK(f)'
      <3>1. f.key \in Keys /\ KeyOK(f.from, f.key)
        BY <2>2, SealedFacts DEF Sent, SealsOK, SealOK
      <3>2. KeyOK(f.from, f.key)'
        BY <3>1, LaterKeys
      <3>3. QED
        BY <2>1, <2>2, <3>2 DEF Sent, SealsOK, SealOK
    <2>3. SealsOK'
      BY <1>1, <2>1, <2>2 DEF SealsOK, SealOK
    <2>4. QED
      BY <1>1, <2>1, <2>3 DEF Numbered
  <1>3. CASE session[e] # None
    <2>1. /\ g.type = "sealed" /\ g.key = session[e] /\ g.from = e /\ g.seq = sent[e]
          /\ g.body = msg /\ sent[e] \in Nat /\ sent' = [sent EXCEPT ![e] = @ + 1]
      BY <1>1, <1>3, WrapFacts DEF Counted
    <2>2. sent'[e] = sent[e] + 1 /\ \A d \in Ends : d # e => sent'[d] = sent[d]
      BY <2>1 DEF Typed
    <2>3. \A d \in Ends : \A n \in Nat : n < sent[d] => n < sent'[d]
      BY <2>1, <2>2
    <2>4. ASSUME NEW f \in air, f.type = "sealed" PROVE SealOK(f)'
      <3>1. f.key \in Keys /\ f.from \in Ends /\ f.seq \in Nat /\ KeyOK(f.from, f.key)
        BY <2>4, SealedFacts DEF Sent, SealsOK, SealOK
      <3>2. KeyOK(f.from, f.key)'
        BY <3>1, LaterKeys
      <3>3. f.key = session[f.from] => f.seq < sent'[f.from]
        BY <2>3, <2>4, <3>1 DEF Sent, SealsOK, SealOK
      <3>4. f.from = "phone" /\ f.body.type = "auth" => f.body.cn > f.key.cn
        BY <2>4 DEF Sent, SealsOK, SealOK
      <3>5. QED
        BY <2>4, <3>2, <3>3, <3>4 DEF SealOK
    <2>5. SealOK(g)'
      <3>1. g.key \in Keys /\ KeyOK(g.from, g.key)
        BY <1>3, <2>1, HeldKeys
      <3>2. KeyOK(g.from, g.key)'
        BY <3>1, LaterKeys
      <3>3. g.seq < sent'[g.from]
        BY <2>1, <2>2
      <3>4. g.from = "phone" /\ g.body.type = "auth" => g.body.cn > g.key.cn
        BY <1>3, <2>1
      <3>5. QED
        BY <3>2, <3>3, <3>4 DEF SealOK
    <2>6. SealsOK'
      BY <1>1, <2>4, <2>5 DEF SealsOK, SealOK
    <2>7. ASSUME NEW f \in air', NEW h \in air', f.type = "sealed", h.type = "sealed",
                 f.key = h.key, f.from = h.from, f.seq = h.seq
          PROVE  f = h
      <3>1. ASSUME NEW k \in air, k.type = "sealed" PROVE ~(k.key = g.key /\ k.from = g.from
                                                             /\ k.seq = g.seq)
        BY <2>1, <3>1 DEF Sent, SealsOK, SealOK
      <3>2. QED
        BY <1>1, <2>7, <3>1 DEF Numbered
    <2>8. ASSUME NEW d \in Ends, session'[d] # None, NEW n \in 0 .. sent'[d] - 1
          PROVE  \E f \in air' : f.type = "sealed" /\ f.key = session'[d] /\ f.from = d
                                 /\ f.seq = n
      <3>1. CASE d = e /\ n = sent[e]
        BY <1>1, <2>1, <3>1
      <3>2. CASE ~(d = e /\ n = sent[e])
        <4>1. n \in 0 .. sent[d] - 1
          BY <2>1, <2>2, <3>2 DEF Typed
        <4>2. QED
          BY <2>8, <4>1 DEF Numbered
      <3>3. QED
        BY <3>1, <3>2
    <2>9. QED
      BY <2>6, <2>7, <2>8 DEF Numbered
  <1>4. QED
    BY <1>2, <1>3

LEMMA SettledSent ==
  ASSUME Typed, Sent, Later, session' = session, history'.made = history.made,
         pc' \in Working => pc \in Working /\ job'.msg = job.msg
  PROVE  RisingOK'
  <1>1. session["phone"] # None => session["phone"].cn \in Nonces
    BY DEF Typed, Keys, Ends
  <1>2. session'["phone"] # None => Older(session["phone"].cn)'
    BY <1>1 DEF Sent, RisingOK, Later
  <1>3. QED
    BY <1>2 DEF Sent, RisingOK

LEMMA SameHeard ==
  ASSUME Typed, Sent, Later, UNCHANGED <<session, received, heard>>
  PROVE  HeardOK'
  <1>1. ASSUME NEW e \in Ends, NEW i \in DOMAIN heard[e]
        PROVE  KeyOK(e, heard[e][i].of)'
    <2>1. PICK k \in Keys : k = heard[e][i].of
      BY HeardFacts
    <2>2. KeyOK(e, k)'
      BY <2>1, LaterKeys DEF Sent, HeardOK
    <2>3. QED
      BY <2>1, <2>2
  <1>2. QED
    BY <1>1 DEF Sent, HeardOK

\* A frame that opens is later than every one heard in its conversation.
LEMMA TookHeard ==
  ASSUME Typed, Meant, Sent, Later, NEW e \in Ends, NEW g \in air,
         session[e] = None \/ Opens(e, g), Take(e, g), session' = session
  PROVE  HeardOK'
  <1>1. CASE session[e] = None
    BY <1>1, SameHeard DEF Take
  <1>2. CASE session[e] # None
    <2>1. /\ g.type = "sealed" /\ g.key = session[e] /\ g.seq > received[e]
          /\ received' = [received EXCEPT ![e] = g.seq]
          /\ heard' = [heard EXCEPT ![e] = Append(@, Utterance(g))]
      BY <1>2 DEF Opens, Take
    <2>2. received'[e] = g.seq /\ \A d \in Ends : d # e => received'[d] = received[d]
      BY <2>1 DEF Typed
    <2>3. g.seq \in Nat /\ received[e] \in Int
      BY <2>1, SealedFacts DEF Typed
    <2>4. ASSUME NEW d \in Ends, NEW i \in DOMAIN heard[d], heard[d][i].of = session[d]
          PROVE  heard[d][i].at <= received'[d]
      <3>1. heard[d][i].at <= received[d] /\ heard[d][i].at \in Nat
        BY <2>4, HeardFacts DEF Sent, HeardOK
      <3>2. QED
        BY <2>1, <2>2, <2>3, <3>1
    <2>5. ASSUME NEW d \in Ends, NEW i \in DOMAIN heard'[d]
          PROVE  \/ i \in DOMAIN heard[d] /\ heard'[d][i] = heard[d][i]
                 \/ d = e /\ heard'[d][i] = Utterance(g)
      <3>1. heard[d] \in Seq(said) /\ heard'[d] = IF d = e THEN Append(heard[d], Utterance(g))
                                                  ELSE heard[d]
        BY <2>1 DEF Typed
      <3>2. QED
        BY <3>1
    <2>6. ASSUME NEW d \in Ends, NEW i \in DOMAIN heard'[d], NEW k \in Keys,
                 k = heard'[d][i].of
          PROVE  KeyOK(d, k) /\ (k = session[d] => heard'[d][i].at <= received'[d])
      <3>1. CASE i \in DOMAIN heard[d] /\ heard'[d][i] = heard[d][i]
        BY <2>4, <2>6, <3>1 DEF Sent, HeardOK
      <3>2. CASE d = e /\ heard'[d][i] = Utterance(g)
        BY <1>2, <2>1, <2>2, <2>3, <2>6, <3>2, HeldKeys DEF Utterance
      <3>3. QED
        BY <2>5, <3>1, <3>2
    <2>7. ASSUME NEW d \in Ends, NEW i \in DOMAIN heard'[d]
          PROVE  /\ KeyOK(d, heard[d][i].of)'
                 /\ heard'[d][i].of = session'[d] => heard'[d][i].at <= received'[d]
      <3>1. heard'[d][i].of \in Keys
        BY <1>2, <2>1, <2>5, HeardFacts, HeldKeys DEF Utterance
      <3>2. PICK k \in Keys : k = heard'[d][i].of
        BY <3>1
      <3>3. KeyOK(d, k)'
        BY <2>6, <3>2, LaterKeys
      <3>4. QED
        BY <2>6, <3>2, <3>3
    <2>8. QED
      BY <2>7 DEF HeardOK
  <1>3. QED
    BY <1>1, <1>2

Spoken == Sent /\ Numbered

\* A step that neither writes nor hears.
LEMMA QuietSpoken ==
  ASSUME Typed, Spoken, UNCHANGED <<conn, air, session, sent, received, heard>>,
         history'.made = history.made, phone'.cn = phone.cn,
         phone'.at = "waiting" => phone.at = "waiting",
         pc' \in Working => pc \in Working /\ job'.msg = job.msg
  PROVE  Spoken'
  <1>1. Later
    BY OlderFacts DEF Later
  <1>2. QED
    BY <1>1, SameAirSent, SettledSent, SameHeard DEF Spoken, Sent

\* A step that says something that is not about pairing, and hears nothing.
LEMMA SaysSpoken ==
  ASSUME Typed, Meant, Spoken, NEW e \in Ends,
         NEW t \in {"auth_fail", "reply", "alert", "order"}, Write(e, Plain(t)),
         UNCHANGED <<conn, session, received, phone, heard>>,
         pc' \in Working => pc \in Working /\ job'.msg = job.msg
  PROVE  Spoken'
  <1>1. Plain(t) \in Messages /\ Plain(t).type # "auth"
    BY DEF Plain, Messages
  <1>2. /\ Room(e) /\ air' = air \cup {Wrap(e, Plain(t))} /\ sent' = Counted(e)
        /\ history'.made = history.made
    BY <1>1, WriteFacts DEF Typed
  <1>3. Later
    BY <1>2, OlderFacts DEF Later
  <1>4. QED
    BY <1>1, <1>2, <1>3, WroteSent, SettledSent, SameHeard DEF Spoken, Sent

\* What the daemon takes next is on the air, and it can read it.
LEMMA IncomingFacts ==
  ASSUME Typed, Reading, Readable
  PROVE  /\ Incoming \in air /\ "daemon" \in Ends
         /\ session["daemon"] = None \/ Opens("daemon", Incoming)
  BY SequenceFacts DEF Typed, Reading, Readable, Incoming, Ends

LEMMA AnswersSpoken ==
  ASSUME Typed, Meant, Spoken, Reading, Readable, Take("daemon", Incoming),
         NEW t \in {"auth_fail", "reply"}, Answer(Plain(t)),
         UNCHANGED <<conn, session, phone, pc, job>>
  PROVE  Spoken'
  <1>1. Plain(t) \in Messages /\ Plain(t).type # "auth" /\ wire["daemon"] # <<>>
    BY DEF Plain, Messages, Reading
  <1>2. /\ Room("daemon") /\ air' = air \cup {Wrap("daemon", Plain(t))}
        /\ sent' = Counted("daemon") /\ history'.made = history.made
    BY <1>1, AnswerFacts DEF Typed
  <1>3. Later
    BY <1>2, OlderFacts DEF Later
  <1>4. HeardOK'
    BY <1>3, IncomingFacts, TookHeard DEF Spoken
  <1>5. SealsOK' /\ Numbered'
    BY <1>1, <1>2, <1>3, IncomingFacts, WroteSent DEF Spoken
  <1>6. QED
    BY <1>2, <1>3, <1>4, <1>5, SettledSent DEF Spoken, Sent

LEMMA HandleExpiredSpoken == ASSUME Typed, Meant, Spoken, HandleExpired PROVE Spoken'
  <1>1. UNCHANGED <<conn, air, session, sent, pc, job, history>> /\ Reading /\ Readable
        /\ Take("daemon", Incoming)
        /\ phone' = [phone EXCEPT !.at = IF phone.at = "impostor" THEN "impostor" ELSE "away"]
    BY DEF HandleExpired, Close
  <1>2. Later
    BY <1>1, OlderFacts DEF Later, Typed, TypeOK
  <1>3. HeardOK'
    BY <1>1, <1>2, IncomingFacts, TookHeard DEF Spoken
  <1>4. QED
    BY <1>1, <1>2, <1>3, SameAirSent, SettledSent DEF Spoken, Sent

\* A plea that is read is for a later pairing than all that were granted here.
LEMMA HandleAuthSpoken == ASSUME Typed, Meant, Spoken, HandleAuth PROVE Spoken'
  <1>1. Reading /\ Readable /\ Message.type = "auth" /\ Take("daemon", Incoming)
        /\ UNCHANGED <<conn, session, phone>>
    BY DEF HandleAuth
  <1>2. CASE Message.seals
    <2>1. /\ pc' = "judge" /\ UNCHANGED <<sent, air, history>>
          /\ job' = [msg |-> Message, key |-> gen, holds |-> FALSE,
                     new |-> None, proof |-> None]
      BY <1>2 DEF HandleAuth
    <2>2. Later
      BY <1>1, <2>1, OlderFacts DEF Later
    <2>3. ASSUME NEW m \in history.made PROVE m.cn < Message.cn
      <3>1. session["daemon"] # None /\ m.cn <= session["daemon"].cn
        BY DEF Spoken, Sent, RisingOK
      <3>2. /\ Incoming \in air /\ Incoming.type = "sealed" /\ Incoming.body = Message
            /\ Incoming.key = session["daemon"] /\ Incoming.from = "phone"
        BY <1>1, <3>1, MessageFromAir
      <3>3. Message.cn > session["daemon"].cn
        BY <1>1, <3>2 DEF Spoken, Sent, SealsOK, SealOK
      <3>4. m.cn \in Nat /\ session["daemon"].cn \in Nat /\ Message.cn \in Nat
        BY <1>1, <3>1, MessageFromAir DEF Typed, Keys, Nonces, Pleas, Ends
      <3>5. QED
        BY <3>1, <3>3, <3>4
    <2>4. RisingOK'
      <3>1. session["phone"] # None => session["phone"].cn \in Nonces
        BY DEF Typed, Keys, Ends
      <3>2. QED
        BY <1>1, <2>1, <2>3, <3>1 DEF Spoken, Sent, RisingOK, Older
    <2>5. QED
      BY <1>1, <2>1, <2>2, <2>4, IncomingFacts, TookHeard, SameAirSent DEF Spoken, Sent
  <1>3. CASE ~Message.seals
    BY <1>1, <1>3, AnswersSpoken DEF HandleAuth
  <1>4. QED
    BY <1>2, <1>3

LEMMA ConnectSpoken == ASSUME Typed, Meant, Spoken, Connect PROVE Spoken'
  <1>1. PICK hello : hello.type = "hello" /\ air' = air \cup {hello}
    <2>1. [Hello EXCEPT !.nonce = conn + 1].type = "hello"
      BY DEF Hello
    <2>2. QED
      BY <2>1 DEF Connect
  <1>2. /\ conn' = conn + 1 /\ conn \in Nat /\ pc' = "read" /\ heard' = heard
        /\ session' = [e \in Ends |-> None] /\ sent' = [e \in Ends |-> 0]
        /\ phone' = [phone EXCEPT !.at = "greeting"]
        /\ history' = [history EXCEPT !.bare = FALSE, !.asked = {}, !.made = {}]
    BY DEF Connect, Typed, TypeOK
  <1>3. history'.made = {} /\ phone'.cn = phone.cn /\ phone'.at = "greeting"
    BY <1>2 DEF Typed, TypeOK
  <1>4. ASSUME NEW e, NEW k \in Keys, KeyOK(e, k) PROVE KeyOK(e, k)' /\ k.sn # conn'
    <2>1. k.sn \in Nat /\ k.sn <= conn
      BY <1>4 DEF Keys, Conns, KeyOK
    <2>2. k.sn <= conn' /\ k.sn # conn'
      BY <1>2, <2>1
    <2>3. QED
      BY <1>3, <1>4, <2>2 DEF KeyOK, Older
  <1>5. ASSUME NEW f \in air, f.type = "sealed" PROVE SealOK(f)'
    <2>1. f.key \in Keys /\ f.from \in Ends /\ KeyOK(f.from, f.key)
      BY <1>5, SealedFacts DEF Spoken, Sent, SealsOK, SealOK
    <2>2. f.key # session'[f.from]
      BY <1>2, <2>1, NoneIsNoTerm
    <2>3. QED
      BY <1>4, <1>5, <2>1, <2>2 DEF Spoken, Sent, SealsOK, SealOK
  <1>6. SealsOK'
    BY <1>1, <1>5 DEF SealsOK, SealOK
  <1>7. RisingOK'
    BY <1>2, <1>3 DEF RisingOK, Ends, Working
  <1>8. HeardOK'
    <2>1. ASSUME NEW e \in Ends, NEW i \in DOMAIN heard[e]
          PROVE  KeyOK(e, heard[e][i].of)' /\ heard[e][i].of # session'[e]
      <3>1. PICK k \in Keys : k = heard[e][i].of
        BY HeardFacts
      <3>2. KeyOK(e, k)'
        BY <1>4, <3>1 DEF Spoken, Sent, HeardOK
      <3>3. QED
        BY <1>2, <3>1, <3>2, NoneIsNoTerm
    <2>2. QED
      BY <1>2, <2>1 DEF HeardOK
  <1>9. Numbered'
    BY <1>1, <1>2 DEF Spoken, Numbered
  <1>10. QED
    BY <1>6, <1>7, <1>8, <1>9 DEF Spoken, Sent

LEMMA AskSpoken == ASSUME Typed, Meant, Spoken, NEW seals \in BOOLEAN, Ask(seals) PROVE Spoken'
  <1> DEFINE cn == phone.cn + 1
             msg == AuthMsg(cn, seals,
                      IF seals THEN Proof("client", Strong, conn, cn, seals) ELSE None)
  <1>1. msg \in Messages /\ msg.cn = cn /\ "phone" \in Ends
    BY PleaMade DEF Ask, Ends
  <1>2. /\ Room("phone") /\ air' = air \cup {Wrap("phone", msg)} /\ sent' = Counted("phone")
        /\ phone' = [phone EXCEPT !.at = "waiting", !.cn = cn]
        /\ history' = [history EXCEPT !.asked = @ \cup {cn}]
        /\ UNCHANGED <<conn, session, received, pc, job, heard>>
    BY DEF Ask, Wrap, Counted
  <1>3. phone.cn \in Nat /\ phone'.cn = phone.cn + 1 /\ phone'.at = "waiting"
        /\ history'.made = history.made
    BY <1>2 DEF Typed, TypeOK
  <1>4. Later
    <2>1. ASSUME NEW old \in Nonces, Older(old) PROVE Older(old)'
      <3>1. old \in Nat /\ old <= phone.cn
        BY <2>1 DEF Nonces, Older
      <3>2. old <= phone'.cn /\ old < phone'.cn
        BY <1>3, <3>1
      <3>3. QED
        BY <3>2 DEF Older
    <2>2. QED
      BY <1>2, <1>3, <2>1 DEF Later
  <1>5. session["phone"] # None => msg.cn > session["phone"].cn
    <2>1. SUFFICES ASSUME session["phone"] # None PROVE phone.cn + 1 > session["phone"].cn
      BY <1>1
    <2>2. session["phone"].cn \in Nat /\ session["phone"].cn <= phone.cn
      BY <2>1 DEF Spoken, Sent, RisingOK, Older, Typed, Keys, Nonces, Ends
    <2>3. QED
      BY <1>3, <2>2
  <1> HIDE DEF msg, cn
  <1>6. QED
    BY <1>1, <1>2, <1>3, <1>4, <1>5, WroteSent, SettledSent, SameHeard DEF Spoken, Sent

\* The session an acceptance starts is a new one, under which nothing was sealed yet.
LEMMA NewlyMade ==
  ASSUME Typed, Meant, Spoken, pc = "accept", NEW k \in Keys, KeyOK("daemon", k)
  PROVE  k # job.new
  <1>1. SUFFICES ASSUME k = job.new PROVE FALSE
    OBVIOUS
  <1>2. k.sn = conn /\ k.cn = job.msg.cn
    BY <1>1, JobFacts
  <1>3. k \in history.made
    BY <1>2 DEF KeyOK
  <1>4. k.cn < job.msg.cn
    BY <1>3 DEF Spoken, Sent, RisingOK, Working
  <1>5. k.cn \in Nat
    BY DEF Keys, Nonces
  <1>6. QED
    BY <1>2, <1>4, <1>5

LEMMA AcceptAndSealSpoken == ASSUME Typed, Meant, Spoken, AcceptAndSeal PROVE Spoken'
  <1>1. /\ pc = "accept" /\ pc' = "catch_up"
        /\ session' = [session EXCEPT !["daemon"] = job.new]
        /\ received' = [received EXCEPT !["daemon"] = -1]
        /\ sent' = [sent EXCEPT !["daemon"] = 0]
        /\ history' = [history EXCEPT !.made = @ \cup {job.new}]
        /\ UNCHANGED <<conn, phone, heard>>
    BY DEF AcceptAndSeal, Install
  <1>2. /\ history'.made = history.made \cup {job.new}
        /\ session'["daemon"] = job.new /\ session'["phone"] = session["phone"]
        /\ sent'["daemon"] = 0 /\ sent'["phone"] = sent["phone"]
        /\ received'["phone"] = received["phone"]
    BY <1>1 DEF Typed, Ends
  <1>3. job.new \in Keys /\ job.new # None /\ job.new.cn = job.msg.cn /\ job.msg.cn \in Nat
    <2>1. job.new \in Keys /\ job.new.cn = job.msg.cn
      BY <1>1, JobFacts
    <2>2. QED
      BY <2>1, NoneIsNoTerm DEF Keys, Nonces
  <1>4. Later
    BY <1>1, <1>2, OlderFacts DEF Later
  <1>5. ASSUME NEW f \in air, f.type = "sealed" PROVE SealOK(f)'
    <2>1. f.key \in Keys /\ f.from \in Ends /\ KeyOK(f.from, f.key)
      BY <1>5, SealedFacts DEF Spoken, Sent, SealsOK, SealOK
    <2>2. KeyOK(f.from, f.key)'
      BY <1>4, <2>1, LaterKeys
    <2>3. f.from = "daemon" => f.key # session'[f.from]
      BY <1>1, <1>2, <2>1, NewlyMade
    <2>4. f.from = "phone" => session'[f.from] = session[f.from] /\ sent'[f.from] = sent[f.from]
      BY <1>2
    <2>5. QED
      BY <1>5, <2>1, <2>2, <2>3, <2>4 DEF Spoken, Sent, SealsOK, SealOK, Ends
  <1>6. PICK g : g = Wrap("daemon", AuthOK(job.proof))
    OBVIOUS
  <1>7. /\ up => air' = air \cup {g} /\ Room("daemon")
        /\ ~up => air' = air
    BY <1>6 DEF AcceptAndSeal, Wrap
  <1>8. AuthOK(job.proof) \in Messages /\ "daemon" \in Ends
    BY <1>1, JobFacts DEF AuthOK, Messages, Grants, Ends
  <1>9. up /\ g.type = "sealed" =>
          /\ g.key = session["daemon"] /\ g.from = "daemon" /\ g.seq = sent["daemon"]
          /\ session["daemon"] # None /\ sent["daemon"] \in Nat
    BY <1>6, <1>7, <1>8, WrapFacts
  <1>10. up => SealOK(g)'
    <2>1. SUFFICES ASSUME up, g.type = "sealed" PROVE SealOK(g)'
      BY DEF SealOK
    <2>2. g.key \in Keys /\ KeyOK("daemon", g.key) /\ g.from = "daemon"
      BY <1>8, <1>9, <2>1, HeldKeys DEF Spoken
    <2>3. g.key # session'["daemon"]
      BY <1>1, <1>2, <2>2, NewlyMade
    <2>4. KeyOK("daemon", g.key)'
      BY <1>4, <2>2, LaterKeys
    <2>5. QED
      BY <2>2, <2>3, <2>4 DEF SealOK
  <1>11. SealsOK'
    BY <1>5, <1>7, <1>10 DEF SealsOK, SealOK
  <1>12. RisingOK'
    <2>1. ASSUME NEW m \in history'.made PROVE m.cn <= job.new.cn
      <3>1. CASE m = job.new
        BY <1>3, <3>1
      <3>2. CASE m \in history.made
        <4>1. m.cn < job.msg.cn /\ m.cn \in Nat
          BY <1>1, <3>2 DEF Spoken, Sent, RisingOK, Working, Typed, Keys, Nonces
        <4>2. QED
          BY <1>3, <4>1
      <3>3. QED
        BY <1>2, <3>1, <3>2
    <2>2. session'["phone"] # None => Older(session["phone"].cn)'
      <3>1. session["phone"] # None => session["phone"].cn \in Nonces
        BY DEF Typed, Keys, Ends
      <3>2. QED
        BY <1>1, <1>2, <3>1 DEF Spoken, Sent, RisingOK, Older
    <2>3. QED
      BY <1>1, <1>2, <1>3, <2>1, <2>2 DEF RisingOK, Working
  <1>13. HeardOK'
    <2>1. ASSUME NEW e \in Ends, NEW i \in DOMAIN heard[e]
          PROVE  /\ KeyOK(e, heard[e][i].of)'
                 /\ heard[e][i].of = session'[e] => heard[e][i].at <= received'[e]
      <3>1. PICK k \in Keys : k = heard[e][i].of
        BY HeardFacts
      <3>2. KeyOK(e, k)
        BY <3>1 DEF Spoken, Sent, HeardOK
      <3>3. KeyOK(e, k)'
        BY <1>4, <3>2, LaterKeys
      <3>4. e = "daemon" => k # session'[e]
        BY <1>1, <1>2, <3>2, NewlyMade
      <3>5. QED
        BY <1>1, <1>2, <3>1, <3>3, <3>4 DEF Spoken, Sent, HeardOK, Ends
    <2>2. QED
      BY <1>1, <2>1 DEF HeardOK
  <1>14. Numbered'
    <2>1. ASSUME up, g.type = "sealed", NEW k \in air, k.type = "sealed"
          PROVE ~(k.key = g.key /\ k.from = g.from /\ k.seq = g.seq)
      <3>1. KeyOK(k.from, k.key) /\ (k.key = session[k.from] => k.seq < sent[k.from])
        BY <2>1 DEF Spoken, Sent, SealsOK, SealOK
      <3>2. QED
        BY <1>9, <2>1, <3>1
    <2>2. ASSUME NEW f \in air', NEW h \in air', f.type = "sealed", h.type = "sealed",
                 f.key = h.key, f.from = h.from, f.seq = h.seq
          PROVE  f = h
      BY <1>7, <2>1, <2>2 DEF Spoken, Numbered
    <2>3. ASSUME NEW d \in Ends, session'[d] # None, NEW n \in 0 .. sent'[d] - 1
          PROVE  \E f \in air' : f.type = "sealed" /\ f.key = session'[d] /\ f.from = d
                                 /\ f.seq = n
      <3>1. d = "phone"
        BY <1>2, <2>3 DEF Ends
      <3>2. air \subseteq air'
        BY <1>7
      <3>3. QED
        BY <1>2, <2>3, <3>1, <3>2 DEF Spoken, Numbered
    <2>4. QED
      BY <2>2, <2>3 DEF Numbered
  <1>15. QED
    BY <1>11, <1>12, <1>13, <1>14 DEF Spoken, Sent

\* The key the phone installs is newer than any it had.
LEMMA PhoneReadsSpoken == ASSUME Typed, Meant, Spoken, PhoneReads PROVE Spoken'
  <1>1. /\ UNCHANGED <<gen, conn, pc, job, air, history>> /\ wire["phone"] # <<>>
        /\ phone' = [phone EXCEPT !.at = Understood,
             !.salt = IF phone.at = "greeting" /\ Opened.type = "hello"
                      THEN Opened.salt ELSE phone.salt]
        /\ Arriving \in air /\ "phone" \in Ends
    BY ArrivingFromAir DEF PhoneReads, Ends
  <1>2. phone'.at = Understood /\ phone'.cn = phone.cn
    BY <1>1 DEF Typed, TypeOK
  <1>3. phone'.at = "waiting" => phone.at = "waiting"
    BY <1>2, UnderstoodFacts
  <1>4. Later
    BY <1>1, <1>2, <1>3, OlderFacts DEF Later
  <1>5. CASE ~(phone.at = "waiting" /\ Understood = "paired")
    <2>1. UNCHANGED <<session, sent>>
      BY <1>5 DEF PhoneReads
    <2>2. HeardOK'
      <3>1. CASE Arriving.type = "sealed"
        <4>1. Opens("phone", Arriving) /\ Take("phone", Arriving)
          BY <1>5, <3>1 DEF PhoneReads, Take, Opens
        <4>2. QED
          BY <1>1, <1>4, <2>1, <4>1, TookHeard DEF Spoken
      <3>2. CASE Arriving.type # "sealed"
        <4>1. UNCHANGED <<heard, received>>
          BY <1>5, <3>2 DEF PhoneReads
        <4>2. QED
          BY <1>4, <2>1, <4>1, SameHeard DEF Spoken
      <3>3. QED
        BY <3>1, <3>2
    <2>3. QED
      BY <1>1, <1>4, <2>1, <2>2, SameAirSent, SettledSent DEF Spoken, Sent
  <1>6. CASE phone.at = "waiting" /\ Understood = "paired"
    <2> DEFINE new == NewSession(Strong, conn, phone.cn)
    <2>1. /\ session' = [session EXCEPT !["phone"] = new]
          /\ received' = [received EXCEPT !["phone"] = -1]
          /\ sent' = [sent EXCEPT !["phone"] = 0]
          /\ phone'.at = "paired"
      BY <1>2, <1>6 DEF PhoneReads, Install
    <2>2. new.cn = phone.cn /\ phone.cn \in Nat
      BY DEF NewSession, Typed, TypeOK
    <2> HIDE DEF new
    <2>3. /\ session'["phone"] = new /\ session'["daemon"] = session["daemon"]
          /\ sent'["phone"] = 0 /\ sent'["daemon"] = sent["daemon"]
          /\ received'["daemon"] = received["daemon"]
      BY <2>1 DEF Typed, Ends
    <2>4. ASSUME NEW k \in Keys, KeyOK("phone", k) PROVE k # new
      <3>1. k.cn < phone.cn /\ k.cn \in Nat
        BY <1>6, <2>4 DEF KeyOK, Older, Keys, Nonces
      <3>2. QED
        BY <2>2, <3>1
    <2>5. SealsOK'
      <3>1. ASSUME NEW f \in air, f.type = "sealed" PROVE SealOK(f)'
        <4>1. f.key \in Keys /\ f.from \in Ends /\ KeyOK(f.from, f.key)
          BY <3>1, SealedFacts DEF Spoken, Sent, SealsOK, SealOK
        <4>2. KeyOK(f.from, f.key)'
          BY <1>4, <4>1, LaterKeys
        <4>3. f.from = "phone" => f.key # session'[f.from]
          BY <2>3, <2>4, <4>1
        <4>4. f.from = "daemon" =>
                session'[f.from] = session[f.from] /\ sent'[f.from] = sent[f.from]
          BY <2>3
        <4>5. QED
          BY <3>1, <4>1, <4>2, <4>3, <4>4 DEF Spoken, Sent, SealsOK, SealOK, Ends
      <3>2. QED
        BY <1>1, <3>1 DEF SealsOK, SealOK
    <2>6. RisingOK'
      <3>1. Older(session["phone"].cn)'
        BY <1>2, <2>1, <2>2, <2>3 DEF Older
      <3>2. QED
        BY <1>1, <2>3, <3>1 DEF Spoken, Sent, RisingOK
    <2>7. HeardOK'
      <3>1. ASSUME NEW e \in Ends, NEW i \in DOMAIN heard'[e]
            PROVE  \/ i \in DOMAIN heard[e] /\ heard'[e][i] = heard[e][i]
                   \/ /\ e = "phone" /\ Arriving.type = "sealed" /\ Opens("phone", Arriving)
                      /\ heard'[e][i] = Utterance(Arriving)
        <4>1. CASE Arriving.type = "sealed"
          <5>1. heard' = [heard EXCEPT !["phone"] = Append(@, Utterance(Arriving))]
                /\ Opens("phone", Arriving)
            BY <4>1 DEF PhoneReads
          <5>2. heard[e] \in Seq(said)
                /\ heard'[e] = IF e = "phone" THEN Append(heard[e], Utterance(Arriving))
                               ELSE heard[e]
            BY <5>1 DEF Typed
          <5>3. QED
            BY <4>1, <5>1, <5>2
        <4>2. CASE Arriving.type # "sealed"
          BY <4>2 DEF PhoneReads
        <4>3. QED
          BY <4>1, <4>2
      <3>2. ASSUME NEW e \in Ends, NEW i \in DOMAIN heard'[e]
            PROVE  /\ KeyOK(e, heard[e][i].of)'
                   /\ heard'[e][i].of = session'[e] => heard'[e][i].at <= received'[e]
        <4>1. PICK k \in Keys : k = heard'[e][i].of /\ KeyOK(e, k)
          <5>1. CASE i \in DOMAIN heard[e] /\ heard'[e][i] = heard[e][i]
            BY <5>1, HeardFacts DEF Spoken, Sent, HeardOK
          <5>2. CASE /\ e = "phone" /\ Arriving.type = "sealed" /\ Opens("phone", Arriving)
                     /\ heard'[e][i] = Utterance(Arriving)
            BY <5>2, HeldKeys DEF Spoken, Opens, Utterance
          <5>3. QED
            BY <3>1, <5>1, <5>2
        <4>2. KeyOK(e, k)'
          BY <1>4, <4>1, LaterKeys
        <4>3. e = "phone" => k # session'[e]
          BY <2>3, <2>4, <4>1
        <4>4. e = "daemon" => heard'[e][i] = heard[e][i] /\ i \in DOMAIN heard[e]
          BY <3>1
        <4>5. QED
          BY <2>3, <4>1, <4>2, <4>3, <4>4 DEF Spoken, Sent, HeardOK, Ends
      <3>3. QED
        BY <3>2 DEF HeardOK
    <2>8. Numbered'
      BY <1>1, <2>3 DEF Spoken, Numbered, Ends
    <2>9. QED
      BY <2>5, <2>6, <2>7, <2>8 DEF Spoken, Sent
  <1>7. QED
    BY <1>5, <1>6

-----------------------------------------------------------------------------
(***************************************************************************)
(* What the two ends say and hear implements SealedChannel.                *)
(***************************************************************************)
LEMMA SameCount == ASSUME NEW S PROVE Channel!Cardinality(S) = Cardinality(S)
  BY Zenon DEF Channel!Cardinality, Cardinality, Channel!IsFiniteSet, IsFiniteSet

\* An end has said as much in its conversation as its counter says.
LEMMA SaidSoFar ==
  ASSUME Typed, Meant, Spoken, NEW e \in Ends, session[e] # None
  PROVE  Cardinality(Channel!SaidBy(session[e], e)) = sent[e]
  <1> DEFINE S == Channel!SaidBy(session[e], e)
             N == 0 .. sent[e] - 1
             place == [u \in S |-> u.at]
  <1>1. sent[e] \in Nat
    BY DEF Typed
  <1>2. ASSUME NEW u \in S
        PROVE  \E f \in air : /\ f.type = "sealed" /\ u = Utterance(f)
                              /\ f.key = session[e] /\ f.from = e /\ f.seq = u.at
    BY DEF said, Utterance, Channel!SaidBy
  <1>3. ASSUME NEW u \in S PROVE u.at \in N
    <2>1. PICK f \in air : /\ f.type = "sealed" /\ u = Utterance(f)
                           /\ f.key = session[e] /\ f.from = e /\ f.seq = u.at
      BY <1>2
    <2>2. f.seq \in Nat /\ f.seq < sent[e]
      BY <2>1, SealedFacts DEF Spoken, Sent, SealsOK, SealOK
    <2>3. QED
      BY <1>1, <2>1, <2>2
  <1>4. ASSUME NEW u \in S, NEW v \in S, u.at = v.at PROVE u = v
    <2>1. PICK f \in air : /\ f.type = "sealed" /\ u = Utterance(f)
                           /\ f.key = session[e] /\ f.from = e /\ f.seq = u.at
      BY <1>2
    <2>2. PICK g \in air : /\ g.type = "sealed" /\ v = Utterance(g)
                           /\ g.key = session[e] /\ g.from = e /\ g.seq = v.at
      BY <1>2
    <2>3. f = g
      BY <1>4, <2>1, <2>2 DEF Spoken, Numbered
    <2>4. QED
      BY <2>1, <2>2, <2>3
  <1>5. ASSUME NEW n \in N PROVE \E u \in S : u.at = n
    <2>1. PICK f \in air : f.type = "sealed" /\ f.key = session[e] /\ f.from = e /\ f.seq = n
      BY DEF Spoken, Numbered
    <2>2. Utterance(f) \in S /\ Utterance(f).at = n
      BY <2>1 DEF said, Utterance, Channel!SaidBy
    <2>3. QED
      BY <2>2
  <1> HIDE DEF S, N
  <1>6. place \in Bijection(S, N)
    <2>1. place \in [S -> N]
      BY <1>3
    <2>2. \A u, v \in S : place[u] = place[v] => u = v
      BY <1>4
    <2>3. \A n \in N : \E u \in S : place[u] = n
      BY <1>5
    <2>4. QED
      BY <2>1, <2>2, <2>3 DEF Bijection, Injection, Surjection, IsInjective
  <1>7. ExistsBijection(N, S)
    BY <1>6, Fun_ExistsBijSymmetric DEF ExistsBijection
  <1>8. IsFiniteSet(N) /\ Cardinality(N) = sent[e]
    <2>1. 0 \in Int /\ sent[e] - 1 \in Int
      BY <1>1
    <2>2. IsFiniteSet(N) /\ Cardinality(N) = IF 0 > sent[e] - 1 THEN 0 ELSE sent[e] - 1 - 0 + 1
      BY <2>1, FS_Interval DEF N
    <2>3. QED
      BY <1>1, <2>2
  <1>9. Cardinality(S) = sent[e]
    BY <1>7, <1>8, FS_Bijection
  <1>10. QED
    BY <1>9 DEF S

\* A frame that leaves in the clear says nothing in a conversation; a sealed one says the
\* next thing in it.
LEMMA WroteSays ==
  ASSUME Typed, Meant, Spoken, NEW e \in Ends, NEW msg \in Messages, Room(e),
         air' = air \cup {Wrap(e, msg)}
  PROVE  IF session[e] = None THEN said' = said ELSE Channel!Says
  <1>1. PICK g : g = Wrap(e, msg)
    OBVIOUS
  <1>2. CASE session[e] = None
    <2>1. g.type # "sealed"
      BY <1>1, <1>2, WrapFacts
    <2>2. QED
      BY <1>1, <1>2, <2>1 DEF said
  <1>3. CASE session[e] # None
    <2>1. g.type = "sealed" /\ g.key = session[e] /\ g.from = e /\ g.seq = sent[e]
      BY <1>1, <1>3, WrapFacts
    <2>2. PICK u : u = Utterance(g)
      OBVIOUS
    <2>3. u.of = session[e] /\ u.by = e /\ u.at = sent[e]
      BY <2>1, <2>2 DEF Utterance
    <2>4. said' = said \cup {u}
      BY <1>1, <2>1, <2>2 DEF said, Utterance
    <2>5. Channel!Fresh(u)
      BY <1>3, <2>3, SaidSoFar, SameCount DEF Channel!Fresh
    <2>6. QED
      BY <1>3, <2>4, <2>5 DEF Channel!Says
  <1>4. QED
    BY <1>2, <1>3

\* What opens is something the other end said, later than all that was heard.
LEMMA TookHears ==
  ASSUME Typed, Meant, Spoken, NEW e \in Ends, NEW g \in air, Opens(e, g),
         heard' = [heard EXCEPT ![e] = Append(@, Utterance(g))]
  PROVE  Channel!Hears(e)
  <1>1. PICK u : u = Utterance(g)
    OBVIOUS
  <1>2. /\ g.type = "sealed" /\ g.key = session[e] /\ g.from = Other(e)
        /\ g.seq > received[e] /\ session[e] # None
    BY DEF Opens
  <1>3. u \in said /\ u.by # e /\ u.of = session[e] /\ u.at = g.seq
    BY <1>1, <1>2 DEF said, Utterance, Other
  <1>4. ASSUME NEW v \in Channel!ToSet(heard[e]), v.of = u.of PROVE v.at < u.at
    <2>1. PICK i \in DOMAIN heard[e] : v = heard[e][i]
      BY DEF Channel!ToSet
    <2>2. v.at <= received[e] /\ v.at \in Nat
      BY <1>3, <1>4, <2>1, HeardFacts DEF Spoken, Sent, HeardOK
    <2>3. g.seq \in Nat /\ received[e] \in Int
      BY <1>2, SealedFacts DEF Typed
    <2>4. QED
      BY <1>2, <1>3, <2>2, <2>3
  <1>5. heard' = [heard EXCEPT ![e] = Append(@, u)]
    BY <1>1
  <1>6. QED
    BY <1>3, <1>4, <1>5 DEF Channel!Hears

Conversing == [Channel!Next]_<<said, heard>>

LEMMA SilentConverses ==
  ASSUME UNCHANGED <<air, heard>>
  PROVE  Conversing
  BY DEF Conversing, said

LEMMA WritesConverses ==
  ASSUME Typed, Meant, Spoken, NEW e \in Ends, NEW msg \in Messages, Room(e),
         air' = air \cup {Wrap(e, msg)}, UNCHANGED heard
  PROVE  Conversing
  BY WroteSays DEF Conversing, Channel!Next

LEMMA TakesConverses ==
  ASSUME Typed, Meant, Spoken, NEW e \in Ends, NEW g \in air,
         session[e] = None \/ Opens(e, g), Take(e, g),
         IF session[e] = None THEN said' = said ELSE Channel!Says \/ UNCHANGED said
  PROVE  Conversing
  <1>1. CASE session[e] = None
    BY <1>1 DEF Take, Conversing
  <1>2. CASE session[e] # None
    <2>1. heard' = [heard EXCEPT ![e] = Append(@, Utterance(g))]
      BY <1>2 DEF Take
    <2>2. Channel!Hears(e) /\ e \in DOMAIN heard
      BY <1>2, <2>1, TookHears DEF Typed
    <2>3. QED
      BY <1>2, <2>2 DEF Conversing, Channel!Next
  <1>3. QED
    BY <1>1, <1>2

LEMMA AnswersConverses ==
  ASSUME Typed, Meant, Spoken, Reading, Readable, Take("daemon", Incoming),
         NEW t \in {"auth_fail", "reply"}, Answer(Plain(t))
  PROVE  Conversing
  <1>1. Plain(t) \in Messages /\ wire["daemon"] # <<>>
    BY DEF Plain, Messages, Reading
  <1>2. Room("daemon") /\ air' = air \cup {Wrap("daemon", Plain(t))}
    BY <1>1, AnswerFacts
  <1>3. QED
    BY <1>1, <1>2, IncomingFacts, WroteSays, TakesConverses

LEMMA HandlesConverses ==
  ASSUME Typed, Meant, Spoken, HandleOrder \/ HandleExpired \/ HandleAuth
  PROVE  Conversing
  <1>1. Reading /\ Readable /\ Take("daemon", Incoming)
    BY DEF HandleOrder, HandleExpired, HandleAuth
  <1>2. Answer(Plain("reply")) \/ Answer(Plain("auth_fail")) \/ UNCHANGED air
    BY DEF HandleOrder, HandleExpired, HandleAuth
  <1>3. CASE UNCHANGED air
    BY <1>1, <1>3, IncomingFacts, TakesConverses DEF said
  <1>4. QED
    BY <1>1, <1>2, <1>3, AnswersConverses

LEMMA SaysConverses ==
  ASSUME Typed, Meant, Spoken, NEW e \in Ends,
         NEW t \in {"auth_fail", "reply", "alert", "order"}, Write(e, Plain(t)),
         UNCHANGED heard
  PROVE  Conversing
  <1>1. Plain(t) \in Messages
    BY DEF Plain, Messages
  <1>2. Room(e) /\ air' = air \cup {Wrap(e, Plain(t))}
    BY <1>1, WriteFacts
  <1>3. QED
    BY <1>1, <1>2, WritesConverses

LEMMA AcceptsConverses ==
  ASSUME Typed, Meant, Spoken, AcceptAndSeal
  PROVE  Conversing
  <1>1. pc = "accept" /\ heard' = heard
    BY DEF AcceptAndSeal
  <1>2. AuthOK(job.proof) \in Messages /\ "daemon" \in Ends
    BY <1>1, JobFacts DEF AuthOK, Messages, Grants, Ends
  <1>3. CASE up
    <2>1. Room("daemon") /\ air' = air \cup {Wrap("daemon", AuthOK(job.proof))}
      BY <1>3 DEF AcceptAndSeal, Wrap
    <2>2. QED
      BY <1>1, <1>2, <2>1, WritesConverses
  <1>4. CASE ~up
    BY <1>1, <1>4, SilentConverses DEF AcceptAndSeal
  <1>5. QED
    BY <1>3, <1>4

LEMMA AskConverses ==
  ASSUME Typed, Meant, Spoken, NEW seals \in BOOLEAN, Ask(seals)
  PROVE  Conversing
  <1> DEFINE cn == phone.cn + 1
             msg == AuthMsg(cn, seals,
                      IF seals THEN Proof("client", Strong, conn, cn, seals) ELSE None)
  <1>1. msg \in Messages /\ "phone" \in Ends
    BY PleaMade DEF Ask, Ends
  <1>2. Room("phone") /\ air' = air \cup {Wrap("phone", msg)} /\ UNCHANGED heard
    BY DEF Ask, Wrap
  <1> HIDE DEF msg
  <1>3. QED
    BY <1>1, <1>2, WritesConverses

LEMMA ConnectConverses == ASSUME Connect PROVE Conversing
  <1>1. PICK hello : hello.type = "hello" /\ air' = air \cup {hello}
    <2>1. [Hello EXCEPT !.nonce = conn + 1].type = "hello"
      BY DEF Hello
    <2>2. QED
      BY <2>1 DEF Connect
  <1>2. said' = said
    BY <1>1 DEF said
  <1>3. QED
    BY <1>2 DEF Conversing, Connect

LEMMA PhoneReadsConverses == ASSUME Typed, Meant, Spoken, PhoneReads PROVE Conversing
  <1>1. wire["phone"] # <<>> /\ "phone" \in Ends /\ air' = air
    BY DEF PhoneReads, Ends
  <1>2. Arriving \in air /\ said' = said
    BY <1>1, ArrivingFromAir DEF said
  <1>3. CASE Arriving.type = "sealed"
    <2>1. Opens("phone", Arriving)
          /\ heard' = [heard EXCEPT !["phone"] = Append(@, Utterance(Arriving))]
      BY <1>3 DEF PhoneReads
    <2>2. Channel!Hears("phone") /\ "phone" \in DOMAIN heard
      BY <1>1, <1>2, <2>1, TookHears DEF Typed
    <2>3. QED
      BY <1>2, <2>2 DEF Conversing, Channel!Next
  <1>4. CASE Arriving.type # "sealed"
    BY <1>1, <1>4, SilentConverses DEF PhoneReads
  <1>5. QED
    BY <1>3, <1>4

\* Everything else the daemon does writes one plain message, or nothing.
LEMMA WorksConverses ==
  ASSUME Typed, Meant, Spoken,
         AuthKey \/ Authenticate \/ Refuse \/ Enter \/ SealSession \/ Prove \/ CatchUp \/ Cast
  PROVE  Conversing
  <1>1. "daemon" \in Ends /\ UNCHANGED heard
    BY DEF AuthKey, Authenticate, Refuse, Enter, SealSession, Prove, CatchUp, Cast, Ends
  <1>2. \/ Write("daemon", Plain("auth_fail")) \/ Write("daemon", Plain("alert"))
        \/ UNCHANGED air
    BY DEF AuthKey, Authenticate, Refuse, Enter, SealSession, Prove, CatchUp, Cast, Silent
  <1>3. QED
    BY <1>1, <1>2, SaysConverses, SilentConverses

LEMMA WorksSpoken ==
  ASSUME Typed, Meant, Spoken,
         AuthKey \/ Authenticate \/ Refuse \/ Enter \/ SealSession \/ Prove \/ CatchUp \/ Cast
  PROVE  Spoken'
  <1>1. "daemon" \in Ends /\ UNCHANGED <<conn, session, received, phone, heard>>
    BY DEF AuthKey, Authenticate, Refuse, Enter, SealSession, Prove, CatchUp, Cast, Ends
  <1>2. pc' \in Working => pc \in Working /\ job'.msg = job.msg
    BY DEF AuthKey, Authenticate, Refuse, Enter, SealSession, Prove, CatchUp, Cast, Working,
           Typed, JobTyped
  <1>3. \/ Write("daemon", Plain("auth_fail")) \/ Write("daemon", Plain("alert"))
        \/ UNCHANGED <<air, history, sent>>
    BY DEF AuthKey, Authenticate, Refuse, Enter, SealSession, Prove, CatchUp, Cast, Silent
  <1>4. CASE UNCHANGED <<air, history, sent>>
    BY <1>1, <1>2, <1>4, QuietSpoken
  <1>5. QED
    BY <1>1, <1>2, <1>3, <1>4, SaysSpoken

\* What is left: nothing is written, nothing heard, and no pairing is taken up.
Idles ==
  Unreadable \/ PhoneGivesUp \/ PhoneLeaves \/ Collect \/ Rotate \/ Scan
    \/ (\E e \in Ends : Lose(e) \/ Repeat(e)) \/ UNCHANGED vars

LEMMA IdlesFacts ==
  ASSUME Typed, Idles
  PROVE  /\ UNCHANGED <<conn, air, session, sent, received, heard, pc, job>>
         /\ history'.made = history.made /\ phone'.cn = phone.cn
         /\ phone'.at = "waiting" => phone.at = "waiting"
  <1>1. UNCHANGED <<conn, air, session, sent, received, heard, pc, job>>
    BY DEF Idles, Unreadable, PhoneGivesUp, GiveUp, PhoneLeaves, Collect, Rotate, Scan, Lose,
           Repeat, vars
  <1>2. history'.made = history.made
    BY DEF Idles, Unreadable, PhoneGivesUp, GiveUp, PhoneLeaves, Collect, Rotate, Scan, Lose,
           Repeat, vars, Typed
  <1>3. \/ phone' = phone \/ phone' = [phone EXCEPT !.key = gen]
        \/ phone' = [phone EXCEPT !.at = IF phone.at = "impostor" THEN "impostor" ELSE "away"]
    BY DEF Idles, Unreadable, PhoneGivesUp, GiveUp, PhoneLeaves, Close, Collect, Rotate, Scan,
           Lose, Repeat, vars
  <1>4. phone'.cn = phone.cn /\ (phone'.at = "waiting" => phone.at = "waiting")
    BY <1>3 DEF Typed, TypeOK
  <1>5. QED
    BY <1>1, <1>2, <1>4

LEMMA NextSpoken ==
  ASSUME Typed, Meant, Spoken, [Next]_vars
  PROVE  Spoken' /\ Conversing
  <1>1. CASE Idles
    BY <1>1, IdlesFacts, QuietSpoken, SilentConverses
  <1>2. CASE AuthKey \/ Authenticate \/ Refuse \/ Enter \/ SealSession \/ Prove \/ CatchUp
             \/ Cast
    BY <1>2, WorksSpoken, WorksConverses
  <1>3. CASE HandleOrder
    <2>1. Reading /\ Readable /\ Take("daemon", Incoming)
          /\ UNCHANGED <<conn, session, phone, pc, job>>
      BY <1>3 DEF HandleOrder
    <2>2. Answer(Plain("reply")) \/ Answer(Plain("auth_fail"))
      BY <1>3 DEF HandleOrder
    <2>3. QED
      BY <1>3, <2>1, <2>2, AnswersSpoken, HandlesConverses
  <1>4. CASE HandleExpired \/ HandleAuth
    BY <1>4, HandleExpiredSpoken, HandleAuthSpoken, HandlesConverses
  <1>5. CASE Connect \/ AcceptAndSeal \/ PhoneReads
    BY <1>5, ConnectSpoken, AcceptAndSealSpoken, PhoneReadsSpoken, ConnectConverses,
       AcceptsConverses, PhoneReadsConverses
  <1>6. CASE Order
    <2>1. Write("phone", Plain("order")) /\ "phone" \in Ends
          /\ UNCHANGED <<conn, session, received, phone, heard, pc, job>>
      BY <1>6 DEF Order, Ends
    <2>2. QED
      BY <2>1, SaysSpoken, SaysConverses
  <1>7. CASE \E seals \in BOOLEAN : Ask(seals)
    BY <1>7, AskSpoken, AskConverses
  <1>8. QED
    BY <1>1, <1>2, <1>3, <1>4, <1>5, <1>6, <1>7 DEF Next, HandleConnection, Idles

LEMMA InitSpoken == ASSUME Init PROVE Spoken /\ Channel!Init
  <1>1. said = {}
    BY DEF Init, said
  <1>2. Spoken
    BY DEF Init, Spoken, Sent, SealsOK, RisingOK, HeardOK, Numbered, Working, Ends
  <1>3. QED
    BY <1>1, <1>2 DEF Init, Channel!Init

\* What either end takes for the other's is what the other said in that conversation, in
\* that order and once, whatever the wire loses or brings again: the exchange implements
\* SealedChannel.  (session.go.)
THEOREM ConversationIsSealed == ASSUME ConstantsOK PROVE Spec => SealedConversation
  <1>1. Init => Typed /\ Meant /\ Spoken /\ Channel!Init
    BY InitTyped, InitMeant, InitSpoken
  <1>2. Typed /\ Meant /\ Spoken /\ [Next]_vars => Typed' /\ Meant' /\ Spoken'
    BY NextTyped, NextMeant, NextSpoken
  <1>3. Typed /\ Meant /\ Spoken /\ [Next]_vars => [Channel!Next]_<<said, heard>>
    BY NextSpoken DEF Conversing
  <1>4. QED
    BY <1>1, <1>2, <1>3, PTL DEF Spec, SealedConversation, Channel!Spec

-----------------------------------------------------------------------------
(***************************************************************************)
(* As long as the wire keeps its frames, the two ends change keys at the   *)
(* same place in the stream.                                               *)
(***************************************************************************)
LEMMA AppendPlaces ==
  ASSUME NEW S, NEW w \in Seq(S), NEW g \in S
  PROVE  /\ Len(Append(w, g)) = Len(w) + 1 /\ Len(w) \in Nat
         /\ \A i \in 1 .. Len(w) : Append(w, g)[i] = w[i]
         /\ Append(w, g)[Len(w) + 1] = g
  OBVIOUS

LEMMA TailPlaces ==
  ASSUME NEW S, NEW w \in Seq(S), w # <<>>
  PROVE  /\ Len(Tail(w)) = Len(w) - 1 /\ Len(w) \in Nat /\ 1 \in 1 .. Len(w)
         /\ \A i \in 1 .. Len(w) - 1 : Tail(w)[i] = w[i + 1]
         /\ Head(w) = w[1] /\ w[1] \in S
         /\ Len(w) = 1 => Tail(w) = <<>>
  <1>1. Len(w) \in Nat /\ Len(w) >= 1
    OBVIOUS
  <1>2. Tail(w) \in Seq(S) /\ Len(Tail(w)) = Len(w) - 1
    BY <1>1
  <1>3. \A i \in 1 .. Len(w) - 1 : Tail(w)[i] = w[i + 1]
    BY <1>1
  <1>4. Head(w) = w[1] /\ w[1] \in S /\ 1 \in 1 .. Len(w)
    BY <1>1
  <1>5. ASSUME Len(w) = 1 PROVE Tail(w) = <<>>
    <2>1. Len(Tail(w)) = 0
      BY <1>2, <1>5
    <2>2. QED
      BY <1>2, <2>1, EmptySeq
  <1>6. QED
    BY <1>1, <1>2, <1>3, <1>4, <1>5

LEMMA StretchGrows ==
  ASSUME NEW w \in Seq(Frames), NEW g \in Frames, NEW a \in Nat, a >= 1, NEW e, NEW key,
         NEW low \in Int, NEW high \in Int, NEW higher \in Int,
         Stretch(w, a, Len(w), e, key, low, high), a <= Len(w) + 1, high <= higher,
         g.type = "sealed" <=> key # None,
         key # None => g.key = key /\ g.from = e /\ g.seq = high /\ high < higher
  PROVE  Stretch(Append(w, g), a, Len(Append(w, g)), e, key, low, higher)
  <1>1. /\ Len(Append(w, g)) = Len(w) + 1 /\ Len(w) \in Nat
        /\ \A i \in a .. Len(w) : Append(w, g)[i] = w[i]
        /\ Append(w, g)[Len(w) + 1] = g
    BY AppendPlaces
  <1>2. low < higher
    BY DEF Stretch
  <1>3. \A i \in a .. Len(w) + 1 : i \in a .. Len(w) \/ i = Len(w) + 1
    BY <1>1
  <1>4. \A i \in a .. Len(w) + 1 : Append(w, g)[i].type = "sealed" <=> key # None
    BY <1>1, <1>3 DEF Stretch
  <1>5. ASSUME key # None, NEW i \in a .. Len(w) + 1
        PROVE  /\ Append(w, g)[i].key = key /\ Append(w, g)[i].from = e
               /\ low < Append(w, g)[i].seq /\ Append(w, g)[i].seq < higher
               /\ \A j \in i + 1 .. Len(w) + 1 : Append(w, g)[i].seq < Append(w, g)[j].seq
    <2>1. CASE i = Len(w) + 1
      <3>1. i + 1 .. Len(w) + 1 = {}
        BY <1>1, <2>1
      <3>2. QED
        BY <1>1, <1>5, <2>1, <3>1 DEF Stretch
    <2>2. CASE i \in a .. Len(w)
      <3>1. /\ w[i].key = key /\ w[i].from = e /\ low < w[i].seq /\ w[i].seq < high
            /\ \A j \in i + 1 .. Len(w) : w[i].seq < w[j].seq
        BY <1>5, <2>2 DEF Stretch
      <3>2. w[i].seq \in Int
        <4>1. w[i] \in Frames /\ w[i].type = "sealed"
          BY <1>5, <2>2 DEF Stretch
        <4>2. QED
          BY <4>1, FrameFacts DEF SealedFrames
      <3>3. \A j \in i + 1 .. Len(w) + 1 : j \in i + 1 .. Len(w) \/ j = Len(w) + 1
        BY <1>1, <2>2
      <3>4. \A j \in i + 1 .. Len(w) : j \in a .. Len(w)
        BY <2>2
      <3>5. \A j \in i + 1 .. Len(w) + 1 : Append(w, g)[i].seq < Append(w, g)[j].seq
        BY <1>1, <1>5, <2>2, <3>1, <3>3, <3>4
      <3>6. QED
        BY <1>1, <2>2, <3>1, <3>2, <3>5
    <2>3. QED
      BY <1>3, <2>1, <2>2
  <1>6. QED
    BY <1>1, <1>2, <1>4, <1>5 DEF Stretch

\* A frame that is taken off leaves a stretch above it.
LEMMA StretchFalls ==
  ASSUME NEW w \in Seq(Frames), w # <<>>, NEW b \in 1 .. Len(w), NEW e, NEW key,
         NEW low \in Int, NEW high \in Int, Stretch(w, 1, b, e, key, low, high)
  PROVE  /\ Stretch(Tail(w), 1, b - 1, e, key, IF key = None THEN low ELSE w[1].seq, high)
         /\ w[1].type = "sealed" <=> key # None
         /\ key # None => w[1].key = key /\ w[1].from = e /\ low < w[1].seq /\ w[1].seq < high
  <1>1. /\ Len(w) \in Nat /\ 1 \in 1 .. b
        /\ \A i \in 1 .. b - 1 : Tail(w)[i] = w[i + 1] /\ i + 1 \in 2 .. b /\ i + 1 \in 1 .. b
    BY TailPlaces
  <1>2. /\ low < high /\ w[1].type = "sealed" <=> key # None
        /\ key # None => w[1].key = key /\ w[1].from = e /\ low < w[1].seq /\ w[1].seq < high
    BY <1>1 DEF Stretch
  <1>3. \A i \in 1 .. b - 1 : Tail(w)[i].type = "sealed" <=> key # None
    BY <1>1 DEF Stretch
  <1>4. ASSUME key # None, NEW i \in 1 .. b - 1
        PROVE  /\ Tail(w)[i].key = key /\ Tail(w)[i].from = e
               /\ w[1].seq < Tail(w)[i].seq /\ Tail(w)[i].seq < high
               /\ \A j \in i + 1 .. b - 1 : Tail(w)[i].seq < Tail(w)[j].seq
    <2>1. \A j \in 2 .. b : w[1].seq < w[j].seq
      <3>1. 1 + 1 .. b = 2 .. b
        OBVIOUS
      <3>2. QED
        BY <1>1, <1>4, <3>1 DEF Stretch
    <2>2. /\ w[i + 1].key = key /\ w[i + 1].from = e /\ w[i + 1].seq < high
          /\ \A j \in (i + 1) + 1 .. b : w[i + 1].seq < w[j].seq
      BY <1>1, <1>4 DEF Stretch
    <2>3. \A j \in i + 1 .. b - 1 : j \in 1 .. b - 1 /\ j + 1 \in (i + 1) + 1 .. b
      BY <1>1
    <2>4. QED
      BY <1>1, <2>1, <2>2, <2>3
  <1>5. CASE key = None
    BY <1>2, <1>3, <1>5 DEF Stretch
  <1>6. CASE key # None
    <2>1. Stretch(Tail(w), 1, b - 1, e, key, w[1].seq, high)
      BY <1>2, <1>3, <1>4, <1>6 DEF Stretch
    <2>2. QED
      BY <1>2, <1>6, <2>1
  <1>7. QED
    BY <1>5, <1>6

LEMMA StretchShifts ==
  ASSUME NEW w \in Seq(Frames), w # <<>>, NEW a \in 2 .. Len(w) + 1, NEW e, NEW key,
         NEW low \in Int, NEW high \in Int, Stretch(w, a, Len(w), e, key, low, high)
  PROVE  Stretch(Tail(w), a - 1, Len(Tail(w)), e, key, low, high)
  <1>1. /\ Len(w) \in Nat /\ Len(Tail(w)) = Len(w) - 1
        /\ \A i \in a - 1 .. Len(w) - 1 : Tail(w)[i] = w[i + 1] /\ i + 1 \in a .. Len(w)
    BY TailPlaces
  <1>2. \A i \in a - 1 .. Len(w) - 1 : \A j \in i + 1 .. Len(w) - 1 :
          j \in a - 1 .. Len(w) - 1 /\ j + 1 \in (i + 1) + 1 .. Len(w)
    BY <1>1
  <1>3. QED
    BY <1>1, <1>2 DEF Stretch

LEMMA PlaceFacts ==
  ASSUME Typed, NEW e \in Ends
  PROVE  /\ wire[e] \in Seq(Frames) /\ wire[e] \in Seq(air) /\ Len(wire[e]) \in Nat
         /\ \A i \in 1 .. Len(wire[e]) : wire[e][i] \in Frames
         /\ wire[e] # <<>> => wire[e][1] = Head(wire[e])
         /\ sent[e] \in Nat /\ sent[e] <= MaxSaid /\ received[e] \in Int
         /\ session[e] \in Keys \cup {None} /\ MaxSaid \in Nat
  <1>1. wire[e] \in Seq(Frames) /\ wire[e] \in Seq(air)
    BY LargerAir DEF Typed
  <1>2. Len(wire[e]) \in Nat /\ \A i \in 1 .. Len(wire[e]) : wire[e][i] \in Frames
    BY <1>1
  <1>3. wire[e] # <<>> => wire[e][1] = Head(wire[e])
    BY <1>1, TailPlaces
  <1>4. sent[e] \in Nat /\ sent[e] <= MaxSaid /\ received[e] \in Int
        /\ session[e] \in Keys \cup {None} /\ MaxSaid \in Nat
    BY DEF Typed, ConstantsOK
  <1>5. QED
    BY <1>1, <1>2, <1>3, <1>4

LEMMA SameStretch ==
  ASSUME NEW v, NEW w, NEW a \in Int, NEW b \in Int, NEW e, NEW key, NEW low, NEW high,
         \A i \in a .. b : v[i] = w[i], Stretch(w, a, b, e, key, low, high)
  PROVE  Stretch(v, a, b, e, key, low, high)
  <1>1. \A i \in a .. b : \A j \in i + 1 .. b : j \in a .. b
    OBVIOUS
  <1>2. QED
    BY <1>1 DEF Stretch

\* A frame of the daemon goes to the end of the stream, under the key the daemon holds.
SpeaksOn(g) ==
  /\ wire'["phone"] = Append(wire["phone"], g) /\ sent'["daemon"] = Counted("daemon")["daemon"]
  /\ session' = session /\ received'["phone"] = received["phone"]

LEMMA SpeaksFacts ==
  ASSUME Typed, NEW msg \in Messages, Room("daemon"), NEW g, g = Wrap("daemon", msg), SpeaksOn(g)
  PROVE  /\ Len(wire'["phone"]) = Len(wire["phone"]) + 1 /\ Body(g) = msg
         /\ \A i \in 1 .. Len(wire["phone"]) : wire'["phone"][i] = wire["phone"][i]
         /\ wire'["phone"][Len(wire["phone"]) + 1] = g
         /\ \A a \in 1 .. Len(wire["phone"]) + 1 : \A low \in Int :
              Stretch(wire["phone"], a, Len(wire["phone"]), "daemon", session["daemon"], low,
                      sent["daemon"])
              => Stretch(wire'["phone"], a, Len(wire'["phone"]), "daemon", session["daemon"],
                         low, sent'["daemon"])
         /\ InTune => InTune'
  <1>1. "daemon" \in Ends /\ "phone" \in Ends
    BY DEF Ends
  <1>2. /\ g \in Frames /\ Body(g) = msg
        /\ g.type = "sealed" <=> session["daemon"] # None
        /\ session["daemon"] # None =>
             /\ g.key = session["daemon"] /\ g.from = "daemon" /\ g.seq = sent["daemon"]
    BY <1>1, WrapFacts
  <1>3. /\ wire["phone"] \in Seq(Frames) /\ Len(wire["phone"]) \in Nat
        /\ sent["daemon"] \in Nat /\ received["phone"] \in Int
    BY <1>1, PlaceFacts
  <1>4. /\ Len(wire'["phone"]) = Len(wire["phone"]) + 1
        /\ \A i \in 1 .. Len(wire["phone"]) : wire'["phone"][i] = wire["phone"][i]
        /\ wire'["phone"][Len(wire["phone"]) + 1] = g
    BY <1>2, <1>3, AppendPlaces DEF SpeaksOn
  <1>5. sent'["daemon"] = IF session["daemon"] = None THEN sent["daemon"] ELSE sent["daemon"] + 1
    BY <1>1 DEF SpeaksOn, Counted, Typed
  <1>6. ASSUME NEW a \in 1 .. Len(wire["phone"]) + 1, NEW low \in Int,
               Stretch(wire["phone"], a, Len(wire["phone"]), "daemon", session["daemon"], low,
                       sent["daemon"])
        PROVE  Stretch(wire'["phone"], a, Len(wire'["phone"]), "daemon", session["daemon"],
                       low, sent'["daemon"])
    <2>1. /\ a \in Nat /\ a >= 1 /\ a <= Len(wire["phone"]) + 1
          /\ sent["daemon"] \in Int /\ sent'["daemon"] \in Int
          /\ sent["daemon"] <= sent'["daemon"]
          /\ session["daemon"] # None => sent["daemon"] < sent'["daemon"]
      BY <1>3, <1>5
    <2>2. QED
      BY <1>2, <1>3, <1>6, <2>1, StretchGrows DEF SpeaksOn
  <1>7. ASSUME InTune PROVE InTune'
    <2>1. session["daemon"] = session["phone"]
          /\ Stretch(wire["phone"], 1, Len(wire["phone"]), "daemon", session["daemon"],
                     received["phone"], sent["daemon"])
      BY <1>7 DEF InTune
    <2>2. 1 \in 1 .. Len(wire["phone"]) + 1
      BY <1>3
    <2>3. Stretch(wire'["phone"], 1, Len(wire'["phone"]), "daemon", session["daemon"],
                  received["phone"], sent'["daemon"])
      BY <1>3, <1>6, <2>1, <2>2
    <2>4. QED
      BY <2>1, <2>3 DEF InTune, SpeaksOn
  <1>8. QED
    BY <1>2, <1>4, <1>6, <1>7

\* What is no answer leaves the stream as unanswered as it was.
LEMMA TellsUnanswered ==
  ASSUME Typed, NEW msg \in Messages, Room("daemon"), NEW g, g = Wrap("daemon", msg),
         SpeaksOn(g), msg.type \notin {"auth_ok", "auth_fail"}, Unanswered
  PROVE  Unanswered'
  <1>1. Len(wire["phone"]) \in Nat
    BY PlaceFacts DEF Ends
  <1>2. /\ Len(wire'["phone"]) = Len(wire["phone"]) + 1 /\ Body(g) = msg /\ InTune'
        /\ \A i \in 1 .. Len(wire["phone"]) : wire'["phone"][i] = wire["phone"][i]
        /\ wire'["phone"][Len(wire["phone"]) + 1] = g
    BY SpeaksFacts DEF Unanswered
  <1>3. \A i \in 1 .. Len(wire["phone"]) + 1 :
          i \in 1 .. Len(wire["phone"]) \/ i = Len(wire["phone"]) + 1
    BY <1>1
  <1>4. \A i \in 1 .. Len(wire'["phone"]) : ~Answers(wire'["phone"][i])
    BY <1>2, <1>3 DEF Unanswered, NoAnswer, Answers
  <1>5. QED
    BY <1>2, <1>4 DEF Unanswered, NoAnswer

LEMMA TellsOne ==
  ASSUME Typed, NEW msg \in Messages, Room("daemon"), NEW g, g = Wrap("daemon", msg),
         SpeaksOn(g), msg.type \notin {"auth_ok", "auth_fail"},
         NEW k \in 1 .. Len(wire["phone"]), OneAnswer(k)
  PROVE  k \in 1 .. Len(wire'["phone"]) /\ wire'["phone"][k] = wire["phone"][k] /\ OneAnswer(k)'
  <1>1. Len(wire["phone"]) \in Nat
    BY PlaceFacts DEF Ends
  <1>2. /\ Len(wire'["phone"]) = Len(wire["phone"]) + 1 /\ Body(g) = msg
        /\ \A i \in 1 .. Len(wire["phone"]) : wire'["phone"][i] = wire["phone"][i]
        /\ wire'["phone"][Len(wire["phone"]) + 1] = g
    BY SpeaksFacts
  <1>3. \A i \in k + 1 .. Len(wire["phone"]) + 1 :
          \/ i \in k + 1 .. Len(wire["phone"]) /\ i \in 1 .. Len(wire["phone"])
          \/ i = Len(wire["phone"]) + 1
    BY <1>1
  <1>4. \A i \in 1 .. k - 1 : i \in 1 .. Len(wire["phone"])
    BY <1>1
  <1>5. NoAnswer(wire'["phone"], 1, k - 1)
    BY <1>2, <1>4 DEF OneAnswer, NoAnswer
  <1>6. NoAnswer(wire'["phone"], k + 1, Len(wire'["phone"]))
    BY <1>2, <1>3 DEF OneAnswer, NoAnswer, Answers
  <1>7. k \in 1 .. Len(wire["phone"]) + 1
    BY <1>1
  <1>8. QED
    BY <1>2, <1>5, <1>6, <1>7 DEF OneAnswer

LEMMA TellsGranted ==
  ASSUME Typed, NEW msg \in Messages, Room("daemon"), NEW g, g = Wrap("daemon", msg),
         SpeaksOn(g), msg.type \notin {"auth_ok", "auth_fail"},
         conn' = conn, phone'.salt = phone.salt,
         NEW k \in 1 .. Len(wire["phone"]), Granted(k)
  PROVE  Granted(k)'
  <1>1. k \in 1 .. Len(wire'["phone"]) /\ wire'["phone"][k] = wire["phone"][k] /\ OneAnswer(k)'
    BY TellsOne DEF Granted
  <1>2. Len(wire["phone"]) \in Nat
    BY PlaceFacts DEF Ends
  <1>3. \A i \in 1 .. Len(wire["phone"]) : wire'["phone"][i] = wire["phone"][i]
    BY SpeaksFacts
  <1>4. Stretch(wire'["phone"], 1, k, "daemon", session["phone"], received["phone"], MaxSaid)
    <2>1. 1 \in Int /\ k \in Int /\ \A i \in 1 .. k : i \in 1 .. Len(wire["phone"])
      BY <1>2
    <2>2. QED
      BY <1>3, <2>1, SameStretch DEF Granted
  <1>5. Stretch(wire'["phone"], k + 1, Len(wire'["phone"]), "daemon", session["daemon"], -1,
                sent'["daemon"])
    <2>1. k + 1 \in 1 .. Len(wire["phone"]) + 1 /\ -1 \in Int
      BY <1>2
    <2>2. QED
      BY <2>1, SpeaksFacts DEF Granted
  <1>6. Announces(wire["phone"][k])'
    BY <1>1 DEF Granted, Announces, SpeaksOn
  <1>7. QED
    BY <1>1, <1>4, <1>5, <1>6 DEF Granted, SpeaksOn

\* A refusal is then the one answer.
LEMMA SaysNo ==
  ASSUME Typed, NEW msg \in Messages, Room("daemon"), NEW g, g = Wrap("daemon", msg),
         SpeaksOn(g), msg.type = "auth_fail", Unanswered
  PROVE  /\ InTune'
         /\ \E k \in 1 .. Len(wire'["phone"]) :
              Body(wire'["phone"][k]).type = "auth_fail" /\ OneAnswer(k)'
  <1>1. Len(wire["phone"]) \in Nat
    BY PlaceFacts DEF Ends
  <1>2. /\ Len(wire'["phone"]) = Len(wire["phone"]) + 1 /\ Body(g) = msg /\ InTune'
        /\ \A i \in 1 .. Len(wire["phone"]) : wire'["phone"][i] = wire["phone"][i]
        /\ wire'["phone"][Len(wire["phone"]) + 1] = g
    BY SpeaksFacts DEF Unanswered
  <1>3. PICK k : k = Len(wire["phone"]) + 1
    OBVIOUS
  <1>4. k \in 1 .. Len(wire'["phone"]) /\ Body(wire'["phone"][k]).type = "auth_fail"
    BY <1>1, <1>2, <1>3
  <1>5. NoAnswer(wire'["phone"], 1, k - 1)
    BY <1>1, <1>2, <1>3 DEF Unanswered, NoAnswer
  <1>6. NoAnswer(wire'["phone"], k + 1, Len(wire'["phone"]))
    BY <1>1, <1>2, <1>3 DEF NoAnswer
  <1>7. OneAnswer(k)'
    BY <1>5, <1>6 DEF OneAnswer
  <1>8. QED
    BY <1>2, <1>4, <1>7

LEMMA ClosedTuned ==
  ASSUME Tuned, Gone, history'.broke = history.broke
  PROVE  Tuned'
  BY DEF Tuned, Gone

\* A step that moves nothing, and takes the job further at most.
LEMMA StillTuned ==
  ASSUME Tuned, UNCHANGED <<up, conn, session, sent, received, wire>>,
         phone'.at = phone.at, phone'.salt = phone.salt, history'.broke = history.broke,
         client.in => client'.in,
         up /\ pc' \in {"derive", "prove", "accept", "catch_up"} => client'.in,
         pc \in Working => pc' \in Working,
         pc \in {"read", "catch_up"} => pc' \in {"read", "catch_up"},
         pc = "read" => pc' = "read"
  PROVE  Tuned'
  <1>1. Unanswered' <=> Unanswered
    BY DEF Unanswered, InTune
  <1>2. \A k \in 1 .. Len(wire["phone"]) : OneAnswer(k)' <=> OneAnswer(k)
    BY DEF OneAnswer
  <1>3. \A k \in 1 .. Len(wire["phone"]) : Granted(k) => Granted(k)'
    BY <1>2 DEF Granted, Announces
  <1>4. InTune' <=> InTune
    BY DEF InTune
  <1>5. Quiet => Quiet'
    BY <1>1 DEF Quiet
  <1>6. Asked => Asked'
    BY <1>1 DEF Asked
  <1>7. Judged => Judged'
    BY <1>1 DEF Judged
  <1>8. Refused => Refused'
    BY <1>2, <1>4 DEF Refused
  <1>9. Accepting => Accepting'
    BY <1>3 DEF Accepting
  <1>10. Inbound => Inbound'
    BY DEF Inbound
  <1>11. up /\ Entered => Entered'
    BY DEF Entered
  <1>12. QED
    BY <1>5, <1>6, <1>7, <1>8, <1>9, <1>10, <1>11 DEF Tuned, Stages

\* What the daemon writes, and the counters with it.
LEMMA DaemonWrites ==
  ASSUME Typed, NEW msg \in Messages, Write("daemon", msg), UNCHANGED <<session, received>>
  PROVE  \E g : /\ g = Wrap("daemon", msg) /\ SpeaksOn(g) /\ Room("daemon")
                /\ wire'["daemon"] = wire["daemon"] /\ sent'["phone"] = sent["phone"]
                /\ history'.broke = history.broke
  <1>1. "daemon" \in Ends /\ "phone" \in Ends /\ Other("daemon") = "phone"
    BY DEF Ends, Other
  <1>2. /\ Room("daemon") /\ sent' = Counted("daemon")
        /\ wire' = [wire EXCEPT !["phone"] = Append(@, Wrap("daemon", msg))]
        /\ history' = [history EXCEPT !.bare =
                         @ \/ ("daemon" = "daemon" /\ session["daemon"] = None /\ Accepted)]
    BY <1>1, WriteFacts
  <1>3. /\ wire'["phone"] = Append(wire["phone"], Wrap("daemon", msg))
        /\ wire'["daemon"] = wire["daemon"] /\ history'.broke = history.broke
    BY <1>1, <1>2 DEF Typed
  <1>4. sent'["phone"] = sent["phone"]
    BY <1>1, <1>2 DEF Counted, Typed
  <1>5. QED
    BY <1>2, <1>3, <1>4 DEF SpeaksOn

LEMMA TellsTuned ==
  ASSUME Typed, Tuned, up, Write("daemon", Plain("alert")),
         UNCHANGED <<conn, up, session, received, client, phone>>,
         pc' = pc \/ (pc = "catch_up" /\ pc' = "read")
  PROVE  Tuned'
  <1>1. Plain("alert") \in Messages /\ Plain("alert").type \notin {"auth_ok", "auth_fail"}
    BY DEF Plain, Messages
  <1>2. PICK g : /\ g = Wrap("daemon", Plain("alert")) /\ SpeaksOn(g) /\ Room("daemon")
                 /\ wire'["daemon"] = wire["daemon"] /\ sent'["phone"] = sent["phone"]
                 /\ history'.broke = history.broke
    BY <1>1, DaemonWrites
  <1>3. Unanswered => Unanswered'
    BY <1>1, <1>2, TellsUnanswered
  <1>4. Quiet => Quiet'
    BY <1>2, <1>3 DEF Quiet
  <1>5. Asked => Asked'
    BY <1>2, <1>3 DEF Asked
  <1>6. Judged => Judged'
    BY <1>2, <1>3 DEF Judged, Working
  <1>7. Refused => Refused'
    <2>1. SUFFICES ASSUME Refused PROVE Refused'
      OBVIOUS
    <2>2. InTune'
      BY <1>1, <1>2, <2>1, SpeaksFacts DEF Refused
    <2>3. PICK k \in 1 .. Len(wire["phone"]) :
            Body(wire["phone"][k]).type = "auth_fail" /\ OneAnswer(k)
      BY <2>1 DEF Refused
    <2>4. k \in 1 .. Len(wire'["phone"]) /\ wire'["phone"][k] = wire["phone"][k] /\ OneAnswer(k)'
      BY <1>1, <1>2, <2>3, TellsOne
    <2>5. QED
      BY <1>2, <2>1, <2>2, <2>3, <2>4 DEF Refused
  <1>8. Accepting => Accepting'
    <2>1. SUFFICES ASSUME Accepting PROVE Accepting'
      OBVIOUS
    <2>2. PICK k \in 1 .. Len(wire["phone"]) : Granted(k)
      BY <2>1 DEF Accepting
    <2>3. Granted(k)'
      BY <1>1, <1>2, <2>2, TellsGranted
    <2>4. k \in 1 .. Len(wire'["phone"])
      BY <1>1, <1>2, <2>2, TellsOne DEF Granted
    <2>5. QED
      BY <1>2, <2>1, <2>3, <2>4 DEF Accepting
  <1>9. Inbound'
    BY <1>2 DEF Tuned, Inbound
  <1>10. Entered'
    BY DEF Tuned, Entered
  <1>11. QED
    BY <1>2, <1>4, <1>5, <1>6, <1>7, <1>8, <1>9, <1>10 DEF Tuned, Stages

\* A pairing that is refused: the phone is waiting, and this is its one answer.
LEMMA RefusesTuned ==
  ASSUME Typed, Tuned, up, pc \in Working, pc' = "read", Write("daemon", Plain("auth_fail")),
         UNCHANGED <<conn, up, session, received, client, phone>>
  PROVE  Tuned'
  <1>1. Plain("auth_fail") \in Messages /\ Plain("auth_fail").type = "auth_fail"
    BY DEF Plain, Messages
  <1>2. PICK g : /\ g = Wrap("daemon", Plain("auth_fail")) /\ SpeaksOn(g) /\ Room("daemon")
                 /\ wire'["daemon"] = wire["daemon"] /\ sent'["phone"] = sent["phone"]
                 /\ history'.broke = history.broke
    BY <1>1, DaemonWrites
  <1>3. Judged
    BY DEF Tuned, Stages, Quiet, Asked, Refused, Accepting, Working
  <1>4. Refused'
    BY <1>1, <1>2, <1>3, SaysNo DEF Judged, Refused
  <1>5. Inbound' /\ Entered'
    BY <1>2 DEF Tuned, Inbound, Entered
  <1>6. QED
    BY <1>2, <1>4, <1>5 DEF Tuned, Stages

LEMMA AuthenticateTuned == ASSUME Typed, Tuned, Authenticate \/ Refuse PROVE Tuned'
  <1>1. pc = "authenticate" /\ UNCHANGED <<conn, up, session, received, phone>>
    BY DEF Authenticate, Refuse
  <1>2. CASE pc' = "enter"
    <2>1. client'.in = client.in /\ UNCHANGED <<wire, air, history, sent>>
      BY <1>2 DEF Authenticate, Refuse, Typed, TypeOK
    <2>2. QED
      BY <1>1, <1>2, <2>1, StillTuned DEF Working
  <1>3. CASE pc' = "read"
    <2>1. client' = client
      BY <1>3 DEF Authenticate, Refuse
    <2>2. CASE up
      <3>1. Write("daemon", Plain("auth_fail"))
        BY <1>3, <2>2 DEF Authenticate, Refuse
      <3>2. QED
        BY <1>1, <1>3, <2>1, <2>2, <3>1, RefusesTuned DEF Working
    <2>3. CASE ~up
      BY <1>1, <1>3, <2>3 DEF Tuned, Authenticate, Refuse, Silent
    <2>4. QED
      BY <2>2, <2>3
  <1>4. QED
    BY <1>2, <1>3 DEF Authenticate, Refuse

LEMMA WorksTuned == ASSUME Typed, Tuned, AuthKey \/ Enter \/ SealSession \/ Prove PROVE Tuned'
  <1>1. UNCHANGED <<up, conn, session, sent, received, wire, phone, history>>
        /\ pc \in Working /\ pc' \in Working
    BY DEF AuthKey, Enter, SealSession, Prove, Working
  <1>2. CASE Enter
    <2>1. pc \notin {"read", "catch_up"} /\ client'.in = up
      BY <1>2 DEF Enter, Typed, TypeOK
    <2>2. ~up => Tuned'
      BY <1>1 DEF Tuned
    <2>3. QED
      BY <1>1, <2>1, <2>2, StillTuned
  <1>3. CASE AuthKey \/ SealSession \/ Prove
    <2>1. client' = client /\ (pc' \in {"derive", "prove", "accept", "catch_up"} =>
                                 pc \in {"derive", "prove", "accept", "catch_up"})
      BY <1>3 DEF AuthKey, SealSession, Prove
    <2>2. pc \notin {"read", "catch_up"}
      BY <1>1 DEF Working
    <2>3. up /\ pc' \in {"derive", "prove", "accept", "catch_up"} => client'.in
      BY <2>1 DEF Tuned, Entered
    <2>4. QED
      BY <1>1, <2>1, <2>2, <2>3, StillTuned
  <1>4. QED
    BY <1>2, <1>3

LEMMA CatchUpTuned == ASSUME Typed, Tuned, CatchUp \/ Cast PROVE Tuned'
  <1>1. /\ UNCHANGED <<conn, up, session, received, client, phone>>
        /\ pc' = pc \/ (pc = "catch_up" /\ pc' = "read")
    BY DEF CatchUp, Cast
  <1>2. CASE up /\ Write("daemon", Plain("alert"))
    BY <1>1, <1>2, TellsTuned
  <1>3. CASE UNCHANGED <<wire, air, history, sent>>
    BY <1>1, <1>3, StillTuned DEF Working, Tuned, Entered
  <1>4. QED
    BY <1>2, <1>3 DEF CatchUp, Cast, Silent

\* What the owner, the loop over the clients and a new key do moves nothing either.
LEMMA AsideTuned == ASSUME Typed, Tuned, Collect \/ Rotate \/ Scan PROVE Tuned'
  <1>1. /\ UNCHANGED <<up, conn, session, sent, received, wire, history, client, pc>>
        /\ phone'.at = phone.at /\ phone'.salt = phone.salt
    BY DEF Collect, Rotate, Scan, Typed, TypeOK
  <1>2. up /\ pc' \in {"derive", "prove", "accept", "catch_up"} => client'.in
    BY <1>1 DEF Tuned, Entered
  <1>3. QED
    BY <1>1, <1>2, StillTuned

LEMMA ConnectTuned == ASSUME Typed, Tuned, Connect PROVE Tuned'
  <1>1. PICK hello : /\ hello.type = "hello"
                     /\ wire' = [daemon |-> <<>>, phone |-> <<hello>>]
    <2>1. [Hello EXCEPT !.nonce = conn + 1].type = "hello"
      BY DEF Hello
    <2>2. QED
      BY <2>1 DEF Connect
  <1>2. /\ up' = TRUE /\ pc' = "read"
        /\ session' = [e \in Ends |-> None] /\ sent' = [e \in Ends |-> 0]
        /\ received' = [e \in Ends |-> -1] /\ phone'.at = "greeting"
        /\ history'.broke = history.broke
    BY DEF Connect, Typed, TypeOK
  <1>3. /\ session'["daemon"] = None /\ session'["phone"] = None /\ sent'["daemon"] = 0
        /\ sent'["phone"] = 0 /\ received'["daemon"] = -1 /\ received'["phone"] = -1
    BY <1>2 DEF Ends
  <1>4. Len(wire'["phone"]) = 1 /\ wire'["phone"][1] = hello /\ Len(wire'["daemon"]) = 0
    BY <1>1
  <1>5. 1 .. 1 = {1} /\ 1 .. 0 = {}
    OBVIOUS
  <1>6. Body(hello) = hello
    BY <1>1 DEF Body
  <1>7. Stretch(wire'["phone"], 1, Len(wire'["phone"]), "daemon", None, -1, 0)
    BY <1>1, <1>4, <1>5 DEF Stretch
  <1>8. Unanswered'
    BY <1>1, <1>3, <1>4, <1>5, <1>6, <1>7 DEF Unanswered, InTune, NoAnswer, Answers
  <1>9. Quiet'
    BY <1>2, <1>4, <1>5, <1>8 DEF Quiet
  <1>10. Inbound'
    <2>1. Stretch(wire'["daemon"], 1, Len(wire'["daemon"]), "phone", None, -1, 0)
      BY <1>4, <1>5 DEF Stretch
    <2>2. QED
      BY <1>3, <1>4, <1>5, <2>1 DEF Inbound
  <1>11. Entered'
    BY <1>2 DEF Entered
  <1>12. QED
    BY <1>2, <1>9, <1>10, <1>11 DEF Tuned, Stages

\* The daemon can read what is on its way to it, as long as the wire keeps its frames.
LEMMA ReadingFacts ==
  ASSUME Typed, Tuned, Reading
  PROVE  /\ Quiet \/ Asked
         /\ session["daemon"] = session["phone"] /\ Readable
         /\ Incoming = wire["daemon"][1] /\ Message = Body(wire["daemon"][1])
         /\ 1 \in 1 .. Len(wire["daemon"])
  <1>1. up /\ pc = "read" /\ wire["daemon"] # <<>>
    BY DEF Reading
  <1>2. Quiet \/ Asked
    BY <1>1 DEF Tuned, Stages, Judged, Refused, Accepting, Working
  <1>3. session["daemon"] = session["phone"]
    BY <1>2 DEF Quiet, Asked, Unanswered, InTune
  <1>4. /\ wire["daemon"] \in Seq(Frames) /\ Len(wire["daemon"]) \in Nat
        /\ received["daemon"] \in Int /\ sent["phone"] \in Int
        /\ Incoming = wire["daemon"][1]
    BY <1>1, PlaceFacts DEF Ends, Incoming
  <1>5. 1 \in 1 .. Len(wire["daemon"]) /\ Len(wire["daemon"]) \in 1 .. Len(wire["daemon"])
    BY <1>1, <1>4, TailPlaces
  <1>6. Stretch(wire["daemon"], 1, Len(wire["daemon"]), "phone", session["phone"],
                received["daemon"], sent["phone"])
    BY <1>1 DEF Tuned, Inbound
  <1>7. /\ Incoming.type = "sealed" <=> session["phone"] # None
        /\ session["phone"] # None =>
             /\ Incoming.key = session["phone"] /\ Incoming.from = "phone"
             /\ received["daemon"] < Incoming.seq
    BY <1>1, <1>4, <1>5, <1>6, StretchFalls
  <1>8. Readable
    <2>1. session["daemon"] # None => Incoming.seq \in Int
      <3>1. Incoming \in Frames
        BY <1>4, <1>5
      <3>2. QED
        BY <1>3, <1>7, <3>1, FrameFacts DEF SealedFrames
    <2>2. QED
      BY <1>3, <1>4, <1>7, <2>1 DEF Readable, Opens, Other
  <1>9. Message = Body(wire["daemon"][1])
    BY <1>3, <1>4, <1>7 DEF Message, Body
  <1>10. QED
    BY <1>2, <1>3, <1>4, <1>5, <1>8, <1>9

\* A frame the daemon takes leaves the others as they were.
LEMMA InboundFalls ==
  ASSUME Typed, Tuned, Reading, Take("daemon", Incoming),
         wire'["daemon"] = Tail(wire["daemon"]), session' = session,
         sent'["phone"] = sent["phone"], client' = client
  PROVE  /\ Inbound' /\ received'["phone"] = received["phone"]
         /\ Len(wire'["daemon"]) = Len(wire["daemon"]) - 1 /\ Len(wire["daemon"]) \in Nat
         /\ \A i \in 1 .. Len(wire["daemon"]) - 1 :
              wire'["daemon"][i] = wire["daemon"][i + 1] /\ i + 1 \in 1 .. Len(wire["daemon"])
         /\ Len(wire["daemon"]) = 1 => wire'["daemon"] = <<>>
  <1>1. up /\ wire["daemon"] # <<>> /\ session["daemon"] = session["phone"]
        /\ Incoming = wire["daemon"][1] /\ 1 \in 1 .. Len(wire["daemon"])
    BY ReadingFacts DEF Reading
  <1>2. /\ wire["daemon"] \in Seq(Frames) /\ Len(wire["daemon"]) \in Nat
        /\ received["daemon"] \in Int /\ sent["phone"] \in Int
    BY PlaceFacts DEF Ends
  <1>3. /\ Len(wire'["daemon"]) = Len(wire["daemon"]) - 1
        /\ \A i \in 1 .. Len(wire["daemon"]) - 1 :
             wire'["daemon"][i] = wire["daemon"][i + 1] /\ i + 1 \in 1 .. Len(wire["daemon"])
        /\ Len(wire["daemon"]) = 1 => wire'["daemon"] = <<>>
    BY <1>1, <1>2, TailPlaces
  <1>4. /\ received'["daemon"] = IF session["phone"] = None THEN received["daemon"]
                                 ELSE wire["daemon"][1].seq
        /\ received'["phone"] = received["phone"]
    <2>1. CASE session["daemon"] = None
      BY <1>1, <2>1 DEF Take
    <2>2. CASE session["daemon"] # None
      <3>1. received' = [received EXCEPT !["daemon"] = wire["daemon"][1].seq]
        BY <1>1, <2>2 DEF Take
      <3>2. QED
        BY <1>1, <2>2, <3>1 DEF Typed, Ends
    <2>3. QED
      BY <2>1, <2>2
  <1>5. Stretch(wire["daemon"], 1, Len(wire["daemon"]), "phone", session["phone"],
                received["daemon"], sent["phone"])
    BY <1>1 DEF Tuned, Inbound
  <1>6. Len(wire["daemon"]) \in 1 .. Len(wire["daemon"])
    BY <1>1, <1>2
  <1>7. Stretch(wire'["daemon"], 1, Len(wire'["daemon"]), "phone", session["phone"],
                received'["daemon"], sent["phone"])
    <2>1. Stretch(Tail(wire["daemon"]), 1, Len(wire["daemon"]) - 1, "phone", session["phone"],
                  IF session["phone"] = None THEN received["daemon"] ELSE wire["daemon"][1].seq,
                  sent["phone"])
      BY <1>1, <1>2, <1>5, <1>6, StretchFalls
    <2>2. QED
      BY <1>3, <1>4, <2>1
  <1>8. \A i \in 1 .. Len(wire'["daemon"]) : ~Asks(wire'["daemon"][i]) => client'.in
    BY <1>1, <1>3 DEF Tuned, Inbound
  <1>9. Inbound'
    BY <1>7, <1>8 DEF Inbound
  <1>10. QED
    BY <1>2, <1>3, <1>4, <1>9

\* An answer that leaves with what it answers.
LEMMA DaemonAnswers ==
  ASSUME Typed, NEW msg \in Messages, wire["daemon"] # <<>>, Answer(msg), UNCHANGED session,
         received'["phone"] = received["phone"]
  PROVE  \E g : /\ g = Wrap("daemon", msg) /\ SpeaksOn(g) /\ Room("daemon")
                /\ wire'["daemon"] = Tail(wire["daemon"]) /\ sent'["phone"] = sent["phone"]
                /\ history'.broke = history.broke
  <1>1. /\ Room("daemon") /\ sent' = Counted("daemon")
        /\ wire' = [daemon |-> Tail(wire["daemon"]),
                    phone |-> Append(wire["phone"], Wrap("daemon", msg))]
        /\ history' = [history EXCEPT !.bare = @ \/ (session["daemon"] = None /\ Accepted)]
    BY AnswerFacts
  <1>2. /\ wire'["phone"] = Append(wire["phone"], Wrap("daemon", msg))
        /\ wire'["daemon"] = Tail(wire["daemon"]) /\ history'.broke = history.broke
    BY <1>1 DEF Typed
  <1>3. sent'["phone"] = sent["phone"]
    BY <1>1 DEF Counted, Typed, Ends
  <1>4. QED
    BY <1>1, <1>2, <1>3 DEF SpeaksOn

LEMMA HandleOrderTuned == ASSUME Typed, Tuned, HandleOrder PROVE Tuned'
  <1>1. /\ Reading /\ Message.type # "auth" /\ Take("daemon", Incoming)
        /\ UNCHANGED <<gen, conn, up, session, pc, job, client, casting, phone>>
    BY DEF HandleOrder
  <1>2. /\ Quiet \/ Asked
        /\ Message = Body(wire["daemon"][1]) /\ 1 \in 1 .. Len(wire["daemon"])
        /\ wire["daemon"] # <<>> /\ up
    BY <1>1, ReadingFacts DEF Reading
  <1>3. ~Asks(wire["daemon"][1])
    BY <1>1, <1>2 DEF Asks
  <1>4. client.in
    BY <1>2, <1>3 DEF Tuned, Inbound
  <1>5. Plain("reply") \in Messages /\ Plain("reply").type \notin {"auth_ok", "auth_fail"}
        /\ Answer(Plain("reply"))
    BY <1>4 DEF HandleOrder, Plain, Messages
  <1>6. received'["phone"] = received["phone"]
    BY <1>1 DEF Take, Typed, Ends
  <1>7. PICK g : /\ g = Wrap("daemon", Plain("reply")) /\ SpeaksOn(g) /\ Room("daemon")
                 /\ wire'["daemon"] = Tail(wire["daemon"]) /\ sent'["phone"] = sent["phone"]
                 /\ history'.broke = history.broke
    BY <1>1, <1>2, <1>5, <1>6, DaemonAnswers
  <1>8. Unanswered'
    BY <1>2, <1>5, <1>7, TellsUnanswered DEF Quiet, Asked
  <1>9. /\ Inbound'
        /\ Len(wire'["daemon"]) = Len(wire["daemon"]) - 1 /\ Len(wire["daemon"]) \in Nat
        /\ \A i \in 1 .. Len(wire["daemon"]) - 1 :
             wire'["daemon"][i] = wire["daemon"][i + 1] /\ i + 1 \in 1 .. Len(wire["daemon"])
    BY <1>1, <1>7, InboundFalls
  <1>10. Quiet => Quiet'
    BY <1>1, <1>8, <1>9 DEF Quiet
  <1>11. Asked => Asked'
    <2>1. SUFFICES ASSUME Asked PROVE Asked'
      OBVIOUS
    <2>2. \A i \in 1 .. Len(wire["daemon"]) : Asks(wire["daemon"][i]) <=> i = Len(wire["daemon"])
      BY <2>1 DEF Asked
    <2>3. Len(wire["daemon"]) # 1
      BY <1>2, <1>3, <2>2
    <2>4. wire'["daemon"] # <<>>
      <3>1. Len(wire'["daemon"]) # 0
        BY <1>2, <1>9, <2>3
      <3>2. QED
        BY <3>1
    <2>5. \A i \in 1 .. Len(wire'["daemon"]) :
            Asks(wire'["daemon"][i]) <=> i = Len(wire'["daemon"])
      BY <1>9, <2>2
    <2>6. QED
      BY <1>1, <1>8, <2>1, <2>4, <2>5 DEF Asked
  <1>12. Entered'
    BY <1>1, <1>2 DEF Tuned, Entered
  <1>13. QED
    BY <1>1, <1>2, <1>7, <1>9, <1>10, <1>11, <1>12 DEF Tuned, Stages

\* A plea is the last thing on its way to the daemon, and the one thing under way.
LEMMA HandleAuthTuned == ASSUME Typed, Tuned, HandleAuth PROVE Tuned'
  <1>1. /\ Reading /\ Message.type = "auth" /\ Take("daemon", Incoming)
        /\ UNCHANGED <<gen, conn, up, session, client, casting, phone>>
    BY DEF HandleAuth
  <1>2. /\ Quiet \/ Asked
        /\ Message = Body(wire["daemon"][1]) /\ 1 \in 1 .. Len(wire["daemon"])
        /\ wire["daemon"] # <<>> /\ up /\ pc = "read"
    BY <1>1, ReadingFacts DEF Reading
  <1>3. Asked /\ Len(wire["daemon"]) = 1
    BY <1>1, <1>2 DEF Asks, Quiet, Asked
  <1>4. received'["phone"] = received["phone"]
    BY <1>1 DEF Take, Typed, Ends
  <1>5. CASE Message.seals
    <2>1. /\ pc' = "judge" /\ wire' = [wire EXCEPT !["daemon"] = Tail(@)]
          /\ UNCHANGED <<sent, history>>
      BY <1>5 DEF HandleAuth
    <2>2. wire'["daemon"] = Tail(wire["daemon"]) /\ wire'["phone"] = wire["phone"]
      BY <2>1 DEF Typed, Ends
    <2>3. Inbound' /\ wire'["daemon"] = <<>>
      BY <1>1, <1>3, <2>1, <2>2, InboundFalls
    <2>4. Unanswered'
      BY <1>1, <1>3, <1>4, <2>1, <2>2 DEF Asked, Unanswered, InTune
    <2>5. Judged'
      BY <1>1, <1>3, <2>1, <2>3, <2>4 DEF Asked, Judged, Working
    <2>6. Entered'
      BY <1>1, <1>3, <2>1 DEF Asked, Entered
    <2>7. QED
      BY <1>1, <1>2, <2>1, <2>3, <2>5, <2>6 DEF Tuned, Stages
  <1>6. CASE ~Message.seals
    <2>1. Plain("auth_fail") \in Messages /\ Plain("auth_fail").type = "auth_fail"
          /\ Answer(Plain("auth_fail")) /\ UNCHANGED <<pc, job>>
      BY <1>6 DEF HandleAuth, Plain, Messages
    <2>2. PICK g : /\ g = Wrap("daemon", Plain("auth_fail")) /\ SpeaksOn(g) /\ Room("daemon")
                   /\ wire'["daemon"] = Tail(wire["daemon"]) /\ sent'["phone"] = sent["phone"]
                   /\ history'.broke = history.broke
      BY <1>1, <1>2, <1>4, <2>1, DaemonAnswers
    <2>3. Inbound' /\ wire'["daemon"] = <<>>
      BY <1>1, <1>3, <2>2, InboundFalls
    <2>4. /\ InTune'
          /\ \E k \in 1 .. Len(wire'["phone"]) :
               Body(wire'["phone"][k]).type = "auth_fail" /\ OneAnswer(k)'
      BY <1>3, <2>1, <2>2, SaysNo DEF Asked
    <2>5. Refused'
      BY <1>1, <1>2, <1>3, <2>1, <2>3, <2>4 DEF Asked, Refused
    <2>6. Entered'
      BY <1>1, <1>2, <2>1 DEF Tuned, Entered
    <2>7. QED
      BY <1>1, <1>2, <2>2, <2>3, <2>5, <2>6 DEF Tuned, Stages
  <1>7. QED
    BY <1>5, <1>6

\* The other way: a frame of the phone.
LEMMA PhoneWrites ==
  ASSUME Typed, Tuned, up, NEW msg \in Messages, Room("phone"), NEW g, g = Wrap("phone", msg),
         wire' = [wire EXCEPT !["daemon"] = Append(@, g)], sent' = Counted("phone"),
         UNCHANGED <<session, received, client>>, msg.type # "auth" => client.in
  PROVE  /\ Inbound' /\ Body(g) = msg /\ wire'["phone"] = wire["phone"]
         /\ sent'["daemon"] = sent["daemon"]
         /\ Len(wire'["daemon"]) = Len(wire["daemon"]) + 1 /\ Len(wire["daemon"]) \in Nat
         /\ \A i \in 1 .. Len(wire["daemon"]) : wire'["daemon"][i] = wire["daemon"][i]
         /\ wire'["daemon"][Len(wire["daemon"]) + 1] = g
         /\ \A i \in 1 .. Len(wire["daemon"]) + 1 :
              i \in 1 .. Len(wire["daemon"]) \/ i = Len(wire["daemon"]) + 1
  <1>1. "daemon" \in Ends /\ "phone" \in Ends
    BY DEF Ends
  <1>2. /\ g \in Frames /\ Body(g) = msg
        /\ g.type = "sealed" <=> session["phone"] # None
        /\ session["phone"] # None =>
             /\ g.key = session["phone"] /\ g.from = "phone" /\ g.seq = sent["phone"]
    BY <1>1, WrapFacts
  <1>3. /\ wire["daemon"] \in Seq(Frames) /\ Len(wire["daemon"]) \in Nat
        /\ sent["phone"] \in Nat /\ received["daemon"] \in Int
    BY <1>1, PlaceFacts
  <1>4. wire'["daemon"] = Append(wire["daemon"], g) /\ wire'["phone"] = wire["phone"]
    BY <1>1 DEF Typed
  <1>5. /\ Len(wire'["daemon"]) = Len(wire["daemon"]) + 1
        /\ \A i \in 1 .. Len(wire["daemon"]) : wire'["daemon"][i] = wire["daemon"][i]
        /\ wire'["daemon"][Len(wire["daemon"]) + 1] = g
    BY <1>2, <1>3, <1>4, AppendPlaces
  <1>6. sent'["phone"] = (IF session["phone"] = None THEN sent["phone"] ELSE sent["phone"] + 1)
        /\ sent'["daemon"] = sent["daemon"]
    BY <1>1 DEF Counted, Typed
  <1>7. \A i \in 1 .. Len(wire["daemon"]) + 1 :
          i \in 1 .. Len(wire["daemon"]) \/ i = Len(wire["daemon"]) + 1
    BY <1>3
  <1>8. Stretch(wire'["daemon"], 1, Len(wire'["daemon"]), "phone", session["phone"],
                received["daemon"], sent'["phone"])
    <2>1. /\ 1 \in Nat /\ 1 >= 1 /\ 1 <= Len(wire["daemon"]) + 1
          /\ sent["phone"] \in Int /\ sent'["phone"] \in Int
          /\ sent["phone"] <= sent'["phone"]
          /\ session["phone"] # None => sent["phone"] < sent'["phone"]
      BY <1>3, <1>6
    <2>2. Stretch(wire["daemon"], 1, Len(wire["daemon"]), "phone", session["phone"],
                  received["daemon"], sent["phone"])
      BY DEF Tuned, Inbound
    <2>3. QED
      BY <1>2, <1>3, <1>4, <2>1, <2>2, StretchGrows
  <1>9. \A i \in 1 .. Len(wire'["daemon"]) : ~Asks(wire'["daemon"][i]) => client.in
    <2>1. ~Asks(g) => client.in
      BY <1>2 DEF Asks
    <2>2. QED
      BY <1>5, <1>7, <2>1 DEF Tuned, Inbound
  <1>10. QED
    BY <1>2, <1>3, <1>4, <1>5, <1>6, <1>7, <1>8, <1>9 DEF Inbound

LEMMA AskTuned == ASSUME Typed, Tuned, NEW seals \in BOOLEAN, Ask(seals) PROVE Tuned'
  <1> DEFINE cn == phone.cn + 1
             msg == AuthMsg(cn, seals,
                      IF seals THEN Proof("client", Strong, conn, cn, seals) ELSE None)
  <1>1. msg \in Messages /\ msg.type = "auth"
    BY PleaMade DEF Ask
  <1>2. PICK g : g = Wrap("phone", msg)
    OBVIOUS
  <1>3. /\ up /\ phone.at # "waiting" /\ Room("phone") /\ sent' = Counted("phone")
        /\ wire' = [wire EXCEPT !["daemon"] = Append(@, g)]
        /\ phone' = [phone EXCEPT !.at = "waiting", !.cn = cn]
        /\ history' = [history EXCEPT !.asked = @ \cup {cn}]
        /\ UNCHANGED <<gen, conn, up, session, received, pc, job, client, casting, heard>>
    BY <1>2 DEF Ask, Wrap, Counted
  <1>4. phone'.at = "waiting" /\ history'.broke = history.broke
    BY <1>3 DEF Typed, TypeOK
  <1> HIDE DEF msg, cn
  <1>5. /\ Inbound' /\ Body(g) = msg /\ wire'["phone"] = wire["phone"]
        /\ sent'["daemon"] = sent["daemon"]
        /\ Len(wire'["daemon"]) = Len(wire["daemon"]) + 1 /\ Len(wire["daemon"]) \in Nat
        /\ \A i \in 1 .. Len(wire["daemon"]) : wire'["daemon"][i] = wire["daemon"][i]
        /\ wire'["daemon"][Len(wire["daemon"]) + 1] = g
        /\ \A i \in 1 .. Len(wire["daemon"]) + 1 :
             i \in 1 .. Len(wire["daemon"]) \/ i = Len(wire["daemon"]) + 1
    BY <1>1, <1>2, <1>3, PhoneWrites
  <1>6. Quiet
    BY <1>3 DEF Tuned, Stages, Asked, Judged, Refused, Accepting
  <1>7. Unanswered'
    BY <1>3, <1>5, <1>6 DEF Quiet, Unanswered, InTune
  <1>8. Asks(g)
    BY <1>1, <1>5 DEF Asks
  <1>9. \A i \in 1 .. Len(wire'["daemon"]) :
          Asks(wire'["daemon"][i]) <=> i = Len(wire'["daemon"])
    <2>1. ASSUME NEW i \in 1 .. Len(wire["daemon"]) + 1
          PROVE  Asks(wire'["daemon"][i]) <=> i = Len(wire["daemon"]) + 1
      <3>1. CASE i = Len(wire["daemon"]) + 1
        BY <1>5, <1>8, <3>1
      <3>2. CASE i \in 1 .. Len(wire["daemon"])
        <4>1. i # Len(wire["daemon"]) + 1
          BY <1>5, <3>2
        <4>2. QED
          BY <1>5, <1>6, <3>2, <4>1 DEF Quiet
      <3>3. QED
        BY <1>5, <3>1, <3>2
    <2>2. QED
      BY <1>5, <2>1
  <1>10. wire'["daemon"] # <<>>
    BY <1>5
  <1>11. Asked'
    BY <1>3, <1>4, <1>6, <1>7, <1>9, <1>10 DEF Quiet, Asked
  <1>12. Entered'
    BY <1>3, <1>4 DEF Tuned, Entered
  <1>13. QED
    BY <1>3, <1>4, <1>5, <1>11, <1>12 DEF Tuned, Stages

LEMMA OrderTuned == ASSUME Typed, Tuned, Order PROVE Tuned'
  <1>1. Plain("order") \in Messages /\ Plain("order").type # "auth" /\ Other("phone") = "daemon"
        /\ "phone" \in Ends /\ "daemon" \in Ends
    BY DEF Plain, Messages, Other, Ends
  <1>2. PICK g : g = Wrap("phone", Plain("order"))
    OBVIOUS
  <1>3. /\ up /\ phone.at = "paired" /\ Write("phone", Plain("order"))
        /\ UNCHANGED <<gen, conn, up, session, received, pc, job, client, casting, phone>>
    BY DEF Order
  <1>4. /\ Room("phone") /\ sent' = Counted("phone")
        /\ wire' = [wire EXCEPT !["daemon"] = Append(@, g)]
        /\ history' = [history EXCEPT !.bare =
                         @ \/ ("phone" = "daemon" /\ session["daemon"] = None /\ Accepted)]
    BY <1>1, <1>2, <1>3, WriteFacts
  <1>5. client.in /\ history'.broke = history.broke
    BY <1>3, <1>4 DEF Tuned, Entered, Typed
  <1>6. /\ Inbound' /\ Body(g) = Plain("order") /\ wire'["phone"] = wire["phone"]
        /\ sent'["daemon"] = sent["daemon"]
        /\ Len(wire'["daemon"]) = Len(wire["daemon"]) + 1 /\ Len(wire["daemon"]) \in Nat
        /\ \A i \in 1 .. Len(wire["daemon"]) : wire'["daemon"][i] = wire["daemon"][i]
        /\ wire'["daemon"][Len(wire["daemon"]) + 1] = g
        /\ \A i \in 1 .. Len(wire["daemon"]) + 1 :
             i \in 1 .. Len(wire["daemon"]) \/ i = Len(wire["daemon"]) + 1
    BY <1>1, <1>2, <1>3, <1>4, <1>5, PhoneWrites
  <1>7. Quiet
    BY <1>3 DEF Tuned, Stages, Asked, Judged, Refused, Accepting
  <1>8. ~Asks(g)
    BY <1>1, <1>6 DEF Asks
  <1>9. Quiet'
    BY <1>3, <1>6, <1>7, <1>8 DEF Quiet, Unanswered, InTune
  <1>10. Entered'
    BY <1>3 DEF Tuned, Entered
  <1>11. QED
    BY <1>3, <1>5, <1>6, <1>9, <1>10 DEF Tuned, Stages

\* The acceptance leaves under the old key, and the new one is the daemon's from there.
LEMMA AcceptAndSealTuned == ASSUME Typed, Meant, Tuned, AcceptAndSeal PROVE Tuned'
  <1>1. /\ pc = "accept" /\ pc' = "catch_up"
        /\ session' = [session EXCEPT !["daemon"] = job.new]
        /\ received' = [received EXCEPT !["daemon"] = -1]
        /\ sent' = [sent EXCEPT !["daemon"] = 0]
        /\ history' = [history EXCEPT !.made = @ \cup {job.new}]
        /\ UNCHANGED <<gen, conn, up, job, client, casting, phone, heard>>
    BY DEF AcceptAndSeal, Install
  <1>2. /\ session'["daemon"] = job.new /\ session'["phone"] = session["phone"]
        /\ received'["daemon"] = -1 /\ received'["phone"] = received["phone"]
        /\ sent'["daemon"] = 0 /\ sent'["phone"] = sent["phone"]
        /\ history'.broke = history.broke
    BY <1>1 DEF Typed, Ends
  <1>3. CASE ~up
    BY <1>1, <1>2, <1>3 DEF Tuned, AcceptAndSeal
  <1>4. CASE up
    <2> DEFINE msg == AuthOK(job.proof)
    <2>1. PICK g : g = Wrap("daemon", msg)
      OBVIOUS
    <2>2. /\ Room("daemon") /\ wire' = [wire EXCEPT !["phone"] = Append(@, g)]
      BY <1>4, <2>1 DEF AcceptAndSeal, Wrap
    <2>3. /\ msg \in Messages /\ "daemon" \in Ends /\ "phone" \in Ends
          /\ job.new \in Keys /\ job.new # None
          /\ msg.type = "auth_ok" /\ msg.proof = job.proof
          /\ job.proof.key[2] = phone.salt =>
               NewSession(job.proof.key, conn, job.proof.cn) = job.new
      BY <1>1, JobFacts, NoneIsNoTerm DEF AuthOK, Messages, Grants, Ends
    <2> HIDE DEF msg
    <2>4. /\ g \in Frames /\ Body(g) = msg
          /\ g.type = "sealed" <=> session["daemon"] # None
          /\ session["daemon"] # None =>
               /\ g.key = session["daemon"] /\ g.from = "daemon" /\ g.seq = sent["daemon"]
               /\ sent["daemon"] < MaxSaid
      <3>1. session["daemon"] # None => sent["daemon"] \in 0 .. MaxSaid - 1
        BY <2>1, <2>2, <2>3, WrapFacts
      <3>2. session["daemon"] # None => sent["daemon"] < MaxSaid
        BY <3>1, <2>3, PlaceFacts
      <3>3. QED
        BY <2>1, <2>2, <2>3, <3>2, WrapFacts
    <2>5. Judged
      BY <1>1, <1>4 DEF Tuned, Stages, Quiet, Asked, Refused, Accepting
    <2>6. wire'["phone"] = Append(wire["phone"], g) /\ wire'["daemon"] = wire["daemon"]
      BY <2>2, <2>3 DEF Typed
    <2>7. /\ wire["phone"] \in Seq(Frames) /\ Len(wire["phone"]) \in Nat
          /\ received["phone"] \in Int /\ sent["daemon"] \in Int /\ MaxSaid \in Int
          /\ sent["daemon"] <= MaxSaid /\ sent["phone"] \in Nat
      BY <2>3, PlaceFacts
    <2>8. /\ Len(wire'["phone"]) = Len(wire["phone"]) + 1
          /\ \A i \in 1 .. Len(wire["phone"]) : wire'["phone"][i] = wire["phone"][i]
          /\ wire'["phone"][Len(wire["phone"]) + 1] = g
      BY <2>4, <2>6, <2>7, AppendPlaces
    <2>9. PICK k : k = Len(wire["phone"]) + 1
      OBVIOUS
    <2>10. k \in 1 .. Len(wire'["phone"]) /\ wire'["phone"][k] = g /\ k = Len(wire'["phone"])
           /\ k + 1 .. Len(wire'["phone"]) = {} /\ k - 1 = Len(wire["phone"])
      BY <2>7, <2>8, <2>9
    <2>11. OneAnswer(k)'
      <3>1. NoAnswer(wire'["phone"], 1, k - 1)
        BY <2>5, <2>8, <2>10 DEF Judged, Unanswered, NoAnswer
      <3>2. NoAnswer(wire'["phone"], k + 1, Len(wire'["phone"]))
        BY <2>10 DEF NoAnswer
      <3>3. QED
        BY <3>1, <3>2 DEF OneAnswer
    <2>12. Stretch(wire'["phone"], 1, k, "daemon", session["phone"], received["phone"], MaxSaid)
      <3>1. Stretch(wire["phone"], 1, Len(wire["phone"]), "daemon", session["phone"],
                    received["phone"], sent["daemon"])
            /\ session["daemon"] = session["phone"]
        BY <2>5 DEF Judged, Unanswered, InTune
      <3>2. 1 \in Nat /\ 1 >= 1 /\ 1 <= Len(wire["phone"]) + 1
        BY <2>7
      <3>3. QED
        BY <2>4, <2>6, <2>7, <2>10, <3>1, <3>2, StretchGrows
    <2>13. Stretch(wire'["phone"], k + 1, Len(wire'["phone"]), "daemon", job.new, -1, 0)
      BY <2>10 DEF Stretch
    <2>14. Granted(k)'
      <3>1. Announces(wire["phone"][k])'
        BY <1>1, <1>2, <2>3, <2>4, <2>10 DEF Announces
      <3>2. QED
        BY <1>2, <2>11, <2>12, <2>13, <3>1 DEF Granted
    <2>15. client.in
      BY <1>1, <1>4 DEF Tuned, Entered
    <2>16. Accepting'
      BY <1>1, <1>2, <2>3, <2>5, <2>6, <2>10, <2>14, <2>15 DEF Judged, Accepting
    <2>17. Inbound'
      <3>1. Len(wire'["daemon"]) = 0 /\ 1 .. 0 = {}
        BY <2>5, <2>6 DEF Judged
      <3>2. -1 < sent["phone"]
        BY <2>7
      <3>3. Stretch(wire'["daemon"], 1, Len(wire'["daemon"]), "phone", session["phone"], -1,
                    sent["phone"])
        BY <3>1, <3>2 DEF Stretch
      <3>4. QED
        BY <1>2, <3>1, <3>3 DEF Inbound
    <2>18. Entered'
      BY <1>1, <2>15 DEF Entered
    <2>19. QED
      BY <1>1, <1>2, <1>4, <2>16, <2>17, <2>18 DEF Tuned, Stages
  <1>5. QED
    BY <1>3, <1>4

\* The phone can read what is on its way to it.
LEMMA ArrivingOpens ==
  ASSUME Typed, Tuned, up, wire["phone"] # <<>>
  PROVE  /\ Arriving = wire["phone"][1]
         /\ Arriving.type = "sealed" <=> session["phone"] # None
         /\ Arriving.type = "sealed" => Opens("phone", Arriving)
  <1>1. /\ wire["phone"] \in Seq(Frames) /\ Len(wire["phone"]) \in Nat
        /\ received["phone"] \in Int /\ sent["daemon"] \in Int /\ MaxSaid \in Int
        /\ Arriving = wire["phone"][1]
    BY PlaceFacts DEF Ends, Arriving
  <1>2. Len(wire["phone"]) \in 1 .. Len(wire["phone"])
    BY <1>1, TailPlaces
  <1>3. PICK b \in 1 .. Len(wire["phone"]), high \in Int :
          Stretch(wire["phone"], 1, b, "daemon", session["phone"], received["phone"], high)
    <2>1. CASE InTune
      BY <1>1, <1>2, <2>1 DEF InTune
    <2>2. CASE Accepting
      BY <1>1, <2>2 DEF Accepting, Granted
    <2>3. QED
      BY <2>1, <2>2 DEF Tuned, Stages, Quiet, Asked, Judged, Refused, Unanswered
  <1>4. /\ Arriving.type = "sealed" <=> session["phone"] # None
        /\ session["phone"] # None =>
             /\ Arriving.key = session["phone"] /\ Arriving.from = "daemon"
             /\ received["phone"] < Arriving.seq
    BY <1>1, <1>3, StretchFalls
  <1>5. Arriving.type = "sealed" => Opens("phone", Arriving)
    <2>1. Arriving.type = "sealed" => Arriving.seq \in Int
      BY ArrivingFromAir
    <2>2. QED
      BY <1>1, <1>4, <2>1 DEF Opens, Other
  <1>6. QED
    BY <1>1, <1>4, <1>5

\* The frame the phone reads is off the wire, and counted if it was sealed.
ReadsOn ==
  /\ wire["phone"] # <<>> /\ wire'["phone"] = Tail(wire["phone"])
  /\ session' = session /\ sent' = sent
  /\ received'["phone"] = IF session["phone"] = None THEN received["phone"]
                          ELSE wire["phone"][1].seq

LEMMA OutboundPlaces ==
  ASSUME Typed, wire["phone"] # <<>>, wire'["phone"] = Tail(wire["phone"])
  PROVE  /\ wire["phone"] \in Seq(Frames) /\ Len(wire["phone"]) \in Nat
         /\ 1 \in 1 .. Len(wire["phone"]) /\ Len(wire'["phone"]) = Len(wire["phone"]) - 1
         /\ \A i \in 1 .. Len(wire["phone"]) - 1 :
              wire'["phone"][i] = wire["phone"][i + 1] /\ i + 1 \in 1 .. Len(wire["phone"])
         /\ received["phone"] \in Int /\ sent["daemon"] \in Int /\ MaxSaid \in Int
  <1>1. /\ wire["phone"] \in Seq(Frames) /\ Len(wire["phone"]) \in Nat
        /\ received["phone"] \in Int /\ sent["daemon"] \in Int /\ MaxSaid \in Int
    BY PlaceFacts DEF Ends
  <1>2. QED
    BY <1>1, TailPlaces

LEMMA ReadsInTune == ASSUME Typed, ReadsOn, InTune PROVE InTune'
  <1>1. /\ wire["phone"] \in Seq(Frames) /\ Len(wire["phone"]) \in Nat
        /\ 1 \in 1 .. Len(wire["phone"]) /\ Len(wire'["phone"]) = Len(wire["phone"]) - 1
        /\ received["phone"] \in Int /\ sent["daemon"] \in Int
    BY OutboundPlaces DEF ReadsOn
  <1>2. Len(wire["phone"]) \in 1 .. Len(wire["phone"])
    BY <1>1
  <1>3. Stretch(wire'["phone"], 1, Len(wire["phone"]) - 1, "daemon", session["phone"],
                received'["phone"], sent["daemon"])
    BY <1>1, <1>2, StretchFalls DEF InTune, ReadsOn
  <1>4. QED
    BY <1>1, <1>3 DEF InTune, ReadsOn

LEMMA ReadsUnanswered == ASSUME Typed, ReadsOn, Unanswered PROVE Unanswered'
  <1>1. InTune'
    BY ReadsInTune DEF Unanswered
  <1>2. NoAnswer(wire'["phone"], 1, Len(wire'["phone"]))
    BY OutboundPlaces DEF Unanswered, NoAnswer, ReadsOn
  <1>3. QED
    BY <1>1, <1>2 DEF Unanswered

\* The one answer comes a place closer.
LEMMA ReadsOne ==
  ASSUME Typed, ReadsOn, NEW k \in 2 .. Len(wire["phone"]), OneAnswer(k)
  PROVE  /\ k - 1 \in 1 .. Len(wire'["phone"]) /\ wire'["phone"][k - 1] = wire["phone"][k]
         /\ ~Answers(wire["phone"][1])
         /\ \A j : j = k - 1 => OneAnswer(j)'
  <1>1. /\ Len(wire["phone"]) \in Nat
        /\ Len(wire'["phone"]) = Len(wire["phone"]) - 1
        /\ \A i \in 1 .. Len(wire["phone"]) - 1 :
             wire'["phone"][i] = wire["phone"][i + 1] /\ i + 1 \in 1 .. Len(wire["phone"])
    BY OutboundPlaces DEF ReadsOn
  <1>2. k - 1 \in 1 .. Len(wire["phone"]) - 1 /\ (k - 1) + 1 = k /\ 1 \in 1 .. k - 1
    BY <1>1
  <1>3. \A i \in 1 .. (k - 1) - 1 : i \in 1 .. Len(wire["phone"]) - 1 /\ i + 1 \in 1 .. k - 1
    BY <1>1
  <1>4. NoAnswer(wire'["phone"], 1, (k - 1) - 1)
    BY <1>1, <1>3 DEF OneAnswer, NoAnswer
  <1>5. \A i \in (k - 1) + 1 .. Len(wire["phone"]) - 1 :
          i \in 1 .. Len(wire["phone"]) - 1 /\ i + 1 \in k + 1 .. Len(wire["phone"])
    BY <1>1
  <1>6. NoAnswer(wire'["phone"], (k - 1) + 1, Len(wire'["phone"]))
    BY <1>1, <1>5 DEF OneAnswer, NoAnswer
  <1>7. \A j : j = k - 1 => OneAnswer(j)'
    BY <1>4, <1>6 DEF OneAnswer
  <1>8. ~Answers(wire["phone"][1])
    BY <1>2 DEF OneAnswer, NoAnswer
  <1>9. wire'["phone"][k - 1] = wire["phone"][k]
    BY <1>1, <1>2
  <1>10. QED
    BY <1>1, <1>2, <1>7, <1>8, <1>9

\* A frame that moves the phone no further than to a greeting or a refusal.
LEMMA PhoneReadsOn ==
  ASSUME Typed, Tuned, PhoneReads, Understood # "impostor",
         ~(phone.at = "waiting" /\ Understood = "paired")
  PROVE  /\ ReadsOn /\ phone'.at = Understood /\ Inbound' /\ Entered'
         /\ phone'.at \notin {"away", "impostor"}
         /\ phone.at = "waiting" => phone'.salt = phone.salt
         /\ wire'["daemon"] = wire["daemon"] /\ received'["daemon"] = received["daemon"]
         /\ UNCHANGED <<conn, up, session, sent, pc, client, history>>
  <1>1. /\ up /\ wire["phone"] # <<>>
        /\ wire' = [wire EXCEPT !["phone"] = Tail(@)]
        /\ received' = IF Arriving.type = "sealed"
                       THEN [received EXCEPT !["phone"] = Arriving.seq] ELSE received
        /\ UNCHANGED <<conn, up, session, sent, pc, client, history>>
    BY DEF PhoneReads
  <1>2. /\ phone'.at = Understood
        /\ phone.at = "waiting" => phone'.salt = phone.salt
    BY DEF PhoneReads, Typed, TypeOK
  <1>3. /\ wire'["phone"] = Tail(wire["phone"]) /\ wire'["daemon"] = wire["daemon"]
        /\ received'["daemon"] = received["daemon"]
        /\ received'["phone"] = IF Arriving.type = "sealed" THEN Arriving.seq
                                ELSE received["phone"]
    BY <1>1 DEF Typed, Ends
  <1>4. ReadsOn
    BY <1>1, <1>3, ArrivingOpens DEF ReadsOn
  <1>5. Inbound'
    BY <1>1, <1>3 DEF Tuned, Inbound
  <1>6. phone.at \notin {"away", "impostor"} /\ (phone'.at = "paired" => phone.at = "paired")
    BY <1>1, <1>2, UnderstoodFacts DEF Tuned
  <1>7. Entered'
    BY <1>1, <1>6 DEF Tuned, Entered
  <1>8. phone'.at \notin {"away", "impostor"}
    BY <1>2, <1>6, UnderstoodFacts
  <1>9. QED
    BY <1>1, <1>2, <1>3, <1>4, <1>5, <1>7, <1>8

\* No answer is at the front: the phone is as far as it was, or greeted.
LEMMA PhoneReadsUnanswered ==
  ASSUME Typed, Tuned, PhoneReads, Unanswered PROVE Tuned'
  <1>1. up /\ wire["phone"] # <<>>
    BY DEF PhoneReads
  <1>2. ~Answers(Arriving)
    BY <1>1, ArrivingOpens, OutboundPlaces, TailPlaces, PlaceFacts
       DEF Unanswered, NoAnswer, Ends
  <1>3. Opened.type \notin {"auth_ok", "auth_fail"}
    BY <1>1, <1>2, ArrivingFromAir DEF Answers
  <1>4. /\ Understood \in {phone.at, "greeted"}
        /\ Understood # phone.at => phone.at = "greeting"
        /\ Understood # "impostor" /\ ~(phone.at = "waiting" /\ Understood = "paired")
    BY <1>1, <1>3 DEF Understood, Tuned
  <1>5. /\ ReadsOn /\ phone'.at = Understood /\ Inbound' /\ Entered'
        /\ phone'.at \notin {"away", "impostor"}
        /\ wire'["daemon"] = wire["daemon"]
        /\ UNCHANGED <<up, pc, history>>
    BY <1>4, PhoneReadsOn
  <1>6. Unanswered'
    BY <1>5, ReadsUnanswered
  <1>7. phone'.at = "waiting" <=> phone.at = "waiting"
    BY <1>4, <1>5
  <1>8. Quiet => Quiet'
    BY <1>5, <1>6, <1>7 DEF Quiet
  <1>9. Asked => Asked'
    BY <1>5, <1>6, <1>7 DEF Asked
  <1>10. Judged => Judged'
    BY <1>5, <1>6, <1>7 DEF Judged
  <1>11. Quiet \/ Asked \/ Judged
    <2>1. ASSUME NEW k \in 1 .. Len(wire["phone"]), Answers(wire["phone"][k]) PROVE FALSE
      BY <2>1 DEF Unanswered, NoAnswer
    <2>2. ~Refused
      BY <2>1 DEF Refused, Answers
    <2>3. ~Accepting
      BY <2>1 DEF Accepting, Granted, Announces, Answers
    <2>4. QED
      BY <1>1, <2>2, <2>3 DEF Tuned, Stages
  <1>12. QED
    BY <1>1, <1>5, <1>8, <1>9, <1>10, <1>11 DEF Tuned, Stages

\* On the way to it, one answer at place k: the phone reads something before it.
LEMMA PhoneReadsBefore ==
  ASSUME Typed, Tuned, PhoneReads, phone.at = "waiting", NEW k \in 2 .. Len(wire["phone"]),
         OneAnswer(k)
  PROVE  /\ ReadsOn /\ phone'.at = "waiting" /\ phone'.salt = phone.salt
         /\ Inbound' /\ Entered'
         /\ wire'["daemon"] = wire["daemon"] /\ received'["daemon"] = received["daemon"]
         /\ UNCHANGED <<conn, up, session, sent, pc, client, history>>
  <1>1. wire["phone"] # <<>> /\ up
    BY DEF PhoneReads
  <1>2. Len(wire["phone"]) \in Nat /\ 1 \in 1 .. k - 1
    BY PlaceFacts DEF Ends
  <1>3. ~Answers(Arriving)
    BY <1>1, <1>2, ArrivingOpens DEF OneAnswer, NoAnswer
  <1>4. Opened.type \notin {"auth_ok", "auth_fail"}
    BY <1>1, <1>3, ArrivingFromAir DEF Answers
  <1>5. Understood = "waiting"
    BY <1>4 DEF Understood
  <1>6. QED
    BY <1>5, PhoneReadsOn

\* A refusal is read, or comes a place closer.
LEMMA PhoneReadsRefused == ASSUME Typed, Tuned, PhoneReads, Refused PROVE Tuned'
  <1>1. PICK k \in 1 .. Len(wire["phone"]) :
          Body(wire["phone"][k]).type = "auth_fail" /\ OneAnswer(k)
    BY DEF Refused
  <1>2. wire["phone"] # <<>> /\ up /\ Len(wire["phone"]) \in Nat
    BY PlaceFacts DEF PhoneReads, Ends
  <1>3. CASE k = 1
    <2>1. Understood = "refused"
      BY <1>1, <1>2, <1>3, ArrivingOpens, ArrivingFromAir DEF Understood, Refused
    <2>2. /\ ReadsOn /\ phone'.at = "refused" /\ Inbound' /\ Entered'
          /\ wire'["daemon"] = wire["daemon"]
          /\ UNCHANGED <<up, pc, history>>
      BY <2>1, PhoneReadsOn
    <2>3. InTune'
      BY <2>2, ReadsInTune DEF Refused
    <2>4. NoAnswer(wire'["phone"], 1, Len(wire'["phone"]))
      <3>1. NoAnswer(wire["phone"], 2, Len(wire["phone"]))
        BY <1>1, <1>3 DEF OneAnswer
      <3>2. /\ Len(wire'["phone"]) = Len(wire["phone"]) - 1
            /\ \A i \in 1 .. Len(wire["phone"]) - 1 : wire'["phone"][i] = wire["phone"][i + 1]
        BY <2>2, OutboundPlaces DEF ReadsOn
      <3>3. \A i \in 1 .. Len(wire["phone"]) - 1 : i + 1 \in 2 .. Len(wire["phone"])
        BY <1>2
      <3>4. QED
        BY <3>1, <3>2, <3>3 DEF NoAnswer
    <2>5. \A i \in 1 .. Len(wire'["daemon"]) : ~Asks(wire'["daemon"][i])
      BY <2>2 DEF Refused
    <2>6. Quiet'
      BY <2>2, <2>3, <2>4, <2>5 DEF Quiet, Unanswered, Refused
    <2>7. QED
      BY <1>2, <2>2, <2>6 DEF Tuned, Stages
  <1>4. CASE k # 1
    <2>1. k \in 2 .. Len(wire["phone"])
      BY <1>1, <1>2, <1>4
    <2>2. /\ ReadsOn /\ phone'.at = "waiting" /\ Inbound' /\ Entered'
          /\ wire'["daemon"] = wire["daemon"]
          /\ UNCHANGED <<up, pc, history>>
      BY <1>1, <2>1, PhoneReadsBefore DEF Refused
    <2>3. PICK j : j = k - 1
      OBVIOUS
    <2>4. j \in 1 .. Len(wire'["phone"]) /\ wire'["phone"][j] = wire["phone"][k] /\ OneAnswer(j)'
      BY <1>1, <2>1, <2>2, <2>3, ReadsOne
    <2>5. InTune'
      BY <2>2, ReadsInTune DEF Refused
    <2>6. Refused'
      BY <1>1, <2>2, <2>4, <2>5 DEF Refused
    <2>7. QED
      BY <1>2, <2>2, <2>6 DEF Tuned, Stages
  <1>5. QED
    BY <1>3, <1>4

\* The acceptance is the next frame: either it does not prove the laptop, or both ends
\* have the new key from here.
LEMMA PhoneReadsGrant == ASSUME Typed, Tuned, PhoneReads, Accepting, Granted(1) PROVE Tuned'
  <1>1. up /\ wire["phone"] # <<>> /\ phone.at = "waiting"
    BY DEF PhoneReads, Accepting
  <1>2. Opened = Body(wire["phone"][1]) /\ Opened.type = "auth_ok"
    BY <1>1, ArrivingOpens, ArrivingFromAir DEF Granted, Announces
  <1>3. CASE Understood = "impostor"
    <2>1. Gone /\ UNCHANGED history
      BY <1>3 DEF PhoneReads
    <2>2. QED
      BY <2>1, ClosedTuned
  <1>4. CASE Understood # "impostor"
    <2>1. /\ Understood = "paired"
          /\ Opened.proof = Proof("server", Strong, conn, phone.cn, Opened.seals)
      BY <1>1, <1>2, <1>4 DEF Understood
    <2>2. session["daemon"] = NewSession(Strong, conn, phone.cn)
      BY <1>2, <2>1 DEF Granted, Announces, Proof, Strong, Stretched
    <2>3. /\ session' = [session EXCEPT !["phone"] = session["daemon"]]
          /\ received' = [received EXCEPT !["phone"] = -1]
          /\ sent' = [sent EXCEPT !["phone"] = 0]
          /\ wire' = [wire EXCEPT !["phone"] = Tail(@)]
          /\ UNCHANGED <<conn, up, pc, client, history>>
      BY <1>1, <2>1, <2>2 DEF PhoneReads, Install
    <2>4. phone'.at = "paired"
      BY <2>1 DEF PhoneReads, Typed, TypeOK
    <2>5. /\ session'["phone"] = session["daemon"] /\ session'["daemon"] = session["daemon"]
          /\ received'["phone"] = -1 /\ received'["daemon"] = -1
          /\ sent'["phone"] = 0 /\ sent'["daemon"] = sent["daemon"]
          /\ wire'["phone"] = Tail(wire["phone"]) /\ wire'["daemon"] = <<>>
      BY <2>3 DEF Typed, Ends, Accepting
    <2>6. /\ wire["phone"] \in Seq(Frames) /\ Len(wire["phone"]) \in Nat
          /\ sent["daemon"] \in Int /\ Len(wire'["phone"]) = Len(wire["phone"]) - 1
          /\ \A i \in 1 .. Len(wire["phone"]) - 1 : wire'["phone"][i] = wire["phone"][i + 1]
      BY <1>1, <2>5, OutboundPlaces
    <2>7. 2 \in 2 .. Len(wire["phone"]) + 1 /\ 1 + 1 = 2 /\ 2 - 1 = 1
      <3>1. Len(wire["phone"]) >= 1
        BY <1>1, OutboundPlaces, TailPlaces, <2>5
      <3>2. QED
        BY <2>6, <3>1
    <2>8. Stretch(wire'["phone"], 1, Len(wire'["phone"]), "daemon", session["daemon"], -1,
                  sent["daemon"])
      <3>1. Stretch(wire["phone"], 2, Len(wire["phone"]), "daemon", session["daemon"], -1,
                    sent["daemon"])
        BY <2>7 DEF Granted
      <3>2. -1 \in Int
        OBVIOUS
      <3>3. Stretch(Tail(wire["phone"]), 2 - 1, Len(Tail(wire["phone"])), "daemon",
                    session["daemon"], -1, sent["daemon"])
        BY <1>1, <2>6, <2>7, <3>1, <3>2, StretchShifts
      <3>4. QED
        BY <2>5, <2>7, <3>3
    <2>9. InTune'
      BY <2>5, <2>8 DEF InTune
    <2>10. NoAnswer(wire'["phone"], 1, Len(wire'["phone"]))
      <3>1. NoAnswer(wire["phone"], 2, Len(wire["phone"]))
        BY <2>7 DEF Granted, OneAnswer
      <3>2. \A i \in 1 .. Len(wire["phone"]) - 1 : i + 1 \in 2 .. Len(wire["phone"])
        BY <2>6
      <3>3. QED
        BY <2>6, <3>1, <3>2 DEF NoAnswer
    <2>11. Len(wire'["daemon"]) = 0 /\ 1 .. 0 = {} /\ -1 < 0
      BY <2>5
    <2>12. Quiet'
      BY <2>3, <2>4, <2>9, <2>10, <2>11 DEF Quiet, Unanswered, Accepting
    <2>13. Stretch(wire'["daemon"], 1, Len(wire'["daemon"]), "phone", session["daemon"], -1, 0)
      BY <2>11 DEF Stretch
    <2>14. Inbound'
      BY <2>5, <2>11, <2>13 DEF Inbound
    <2>15. Entered'
      BY <2>3 DEF Accepting, Entered
    <2>16. QED
      BY <1>1, <2>3, <2>4, <2>12, <2>14, <2>15 DEF Tuned, Stages
  <1>5. QED
    BY <1>3, <1>4

\* Frames under the old key are read while the acceptance comes closer.
LEMMA PhoneReadsAccepting == ASSUME Typed, Tuned, PhoneReads, Accepting PROVE Tuned'
  <1>1. PICK k \in 1 .. Len(wire["phone"]) : Granted(k)
    BY DEF Accepting
  <1>2. CASE k = 1
    BY <1>1, <1>2, PhoneReadsGrant
  <1>3. CASE k # 1
    <2>1. up /\ wire["phone"] # <<>> /\ phone.at = "waiting" /\ Len(wire["phone"]) \in Nat
      BY PlaceFacts DEF PhoneReads, Accepting, Ends
    <2>2. k \in 2 .. Len(wire["phone"]) /\ OneAnswer(k)
      BY <1>1, <1>3, <2>1 DEF Granted
    <2>3. /\ ReadsOn /\ phone'.at = "waiting" /\ phone'.salt = phone.salt
          /\ Inbound' /\ Entered'
          /\ wire'["daemon"] = wire["daemon"] /\ received'["daemon"] = received["daemon"]
          /\ UNCHANGED <<conn, up, session, sent, pc, client, history>>
      BY <2>1, <2>2, PhoneReadsBefore
    <2>4. PICK j : j = k - 1
      OBVIOUS
    <2>5. j \in 1 .. Len(wire'["phone"]) /\ wire'["phone"][j] = wire["phone"][k] /\ OneAnswer(j)'
      BY <2>1, <2>2, <2>3, <2>4, ReadsOne
    <2>6. PICK low : low = received'["phone"]
      OBVIOUS
    <2>7. Stretch(wire'["phone"], 1, j, "daemon", session["phone"], low, MaxSaid)
      BY <1>1, <2>1, <2>3, <2>4, <2>6, OutboundPlaces, StretchFalls DEF Granted, ReadsOn
    <2>8. Stretch(wire'["phone"], j + 1, Len(wire'["phone"]), "daemon", session["daemon"], -1,
                  sent["daemon"])
      <3>1. k + 1 \in 2 .. Len(wire["phone"]) + 1 /\ (k + 1) - 1 = j + 1
        BY <2>1, <2>2, <2>4
      <3>2. /\ wire["phone"] \in Seq(Frames) /\ sent["daemon"] \in Int /\ -1 \in Int
            /\ wire'["phone"] = Tail(wire["phone"])
        BY <2>1, <2>3, OutboundPlaces DEF ReadsOn
      <3>3. Stretch(Tail(wire["phone"]), (k + 1) - 1, Len(Tail(wire["phone"])), "daemon",
                    session["daemon"], -1, sent["daemon"])
        BY <1>1, <2>1, <3>1, <3>2, StretchShifts DEF Granted
      <3>4. QED
        BY <3>1, <3>2, <3>3
    <2>9. Announces(wire["phone"][j])'
      BY <1>1, <2>3, <2>5 DEF Granted, Announces
    <2>10. Granted(j)'
      BY <2>3, <2>5, <2>6, <2>7, <2>8, <2>9 DEF Granted
    <2>11. Accepting'
      BY <2>3, <2>5, <2>10 DEF Accepting
    <2>12. QED
      BY <2>1, <2>3, <2>11 DEF Tuned, Stages
  <1>4. QED
    BY <1>2, <1>3

LEMMA PhoneReadsTuned == ASSUME Typed, Tuned, PhoneReads PROVE Tuned'
  <1>1. up
    BY DEF PhoneReads
  <1>2. QED
    BY <1>1, PhoneReadsUnanswered, PhoneReadsRefused, PhoneReadsAccepting
       DEF Tuned, Stages, Quiet, Asked, Judged

\* The end of a connection, whoever ends it.
LEMMA EndsTuned == ASSUME Typed, Tuned, PhoneLeaves \/ HandleExpired PROVE Tuned'
  <1>1. Gone /\ history' = history
    BY DEF PhoneLeaves, HandleExpired, Close
  <1>2. QED
    BY <1>1, ClosedTuned

\* Nobody meets a frame that does not open.
LEMMA NobodyGivesUp == ASSUME Typed, Tuned PROVE ~Unreadable /\ ~PhoneGivesUp
  <1>1. ~Unreadable
    BY ReadingFacts DEF Unreadable
  <1>2. ~PhoneGivesUp
    BY ArrivingOpens DEF PhoneGivesUp
  <1>3. QED
    BY <1>1, <1>2

\* A step that is not the wire's leaves the count of its faults alone.
LEMMA FaultsStay ==
  ASSUME Typed, [Next]_vars, history'.faults = 0
  PROVE  /\ history.faults = 0 /\ \A e \in Ends : ~Lose(e) /\ ~Repeat(e)
  <1>1. ASSUME NEW h, history' = [history EXCEPT !.bare = h] PROVE history.faults = 0
    BY <1>1 DEF Typed
  <1>2. ASSUME NEW e \in Ends, NEW msg, Write(e, msg) PROVE history.faults = 0
    BY <1>1, <1>2 DEF Write
  <1>3. ASSUME NEW msg, Answer(msg) PROVE history.faults = 0
    BY <1>1, <1>3 DEF Answer
  <1>4. ASSUME GiveUp PROVE history.faults = 0
    BY <1>4 DEF GiveUp, Typed
  <1>5. ASSUME NEW e \in Ends, Lose(e) \/ Repeat(e) PROVE FALSE
    <2>1. history'.faults = history.faults + 1 /\ history.faults \in Nat
      BY <1>5 DEF Lose, Repeat, Typed
    <2>2. QED
      BY <2>1
  <1>6. ASSUME NEW seals \in BOOLEAN, Ask(seals) PROVE history.faults = 0
    <2>1. history' = [history EXCEPT !.asked = @ \cup {phone.cn + 1}]
      BY <1>6 DEF Ask
    <2>2. QED
      BY <2>1 DEF Typed
  <1>7. ASSUME Connect PROVE history.faults = 0
    BY <1>7 DEF Connect, Typed
  <1>8. ASSUME AcceptAndSeal PROVE history.faults = 0
    BY <1>8 DEF AcceptAndSeal, Typed
  <1>9. ASSUME HandleOrder \/ HandleAuth PROVE history.faults = 0
    BY <1>3, <1>9 DEF HandleOrder, HandleAuth
  <1>10. ASSUME Authenticate \/ Refuse \/ CatchUp \/ Cast \/ Order PROVE history.faults = 0
    BY <1>2, <1>10 DEF Authenticate, Refuse, CatchUp, Cast, Order, Silent, Ends
  <1>11. ASSUME \/ HandleExpired \/ AuthKey \/ Enter \/ SealSession \/ Prove \/ Collect
                \/ Rotate \/ Scan \/ PhoneReads \/ PhoneLeaves \/ UNCHANGED vars
         PROVE  history.faults = 0
    BY <1>11 DEF HandleExpired, AuthKey, Enter, SealSession, Prove, Collect, Rotate, Scan,
                 PhoneReads, PhoneLeaves, vars
  <1>12. HandleConnection => history.faults = 0
    BY <1>4, <1>8, <1>9, <1>10, <1>11 DEF HandleConnection, Unreadable
  <1>13. history.faults = 0
    BY <1>4, <1>5, <1>6, <1>7, <1>10, <1>11, <1>12 DEF Next, PhoneGivesUp
  <1>14. QED
    BY <1>5, <1>13

LEMMA NextTuned == Typed /\ Meant /\ TunedInv /\ [Next]_vars => TunedInv'
  <1> SUFFICES ASSUME Typed, Meant, TunedInv, [Next]_vars, history'.faults = 0 PROVE Tuned'
    BY DEF TunedInv
  <1>1. /\ history.faults = 0 /\ \A e \in Ends : ~Lose(e) /\ ~Repeat(e)
        /\ Tuned
    BY FaultsStay DEF TunedInv
  <1>2. ~Unreadable /\ ~PhoneGivesUp
    BY <1>1, NobodyGivesUp
  <1>3. CASE UNCHANGED vars
    <2>1. up /\ pc' \in {"derive", "prove", "accept", "catch_up"} => client'.in
      BY <1>1, <1>3 DEF vars, Tuned, Entered
    <2>2. QED
      BY <1>1, <1>3, <2>1, StillTuned DEF vars
  <1>4. CASE HandleConnection
    BY <1>1, <1>2, <1>4, EndsTuned, HandleOrderTuned, HandleAuthTuned, WorksTuned,
       AuthenticateTuned, AcceptAndSealTuned, CatchUpTuned DEF HandleConnection
  <1>5. CASE Next /\ ~HandleConnection
    BY <1>1, <1>2, <1>5, ConnectTuned, AsideTuned, CatchUpTuned, OrderTuned, PhoneReadsTuned,
       EndsTuned, AskTuned DEF Next
  <1>6. QED
    BY <1>3, <1>4, <1>5

LEMMA InitTuned == Init => TunedInv
  BY DEF Init, TunedInv, Tuned

\* The acceptance is the last frame the daemon writes in the clear, and as long as the wire
\* keeps its frames no end meets one it cannot open: the two change their keys at the same
\* place in the stream, also when a paired phone pairs again with broadcasts on their way.
\* (acceptAndSeal, sendLocked.)
THEOREM AcceptanceIsLastHolds ==
  ASSUME ConstantsOK PROVE Spec => [](AcceptanceIsLast /\ InStep)
  <1>1. Init => Typed /\ Meant /\ TunedInv
    BY InitTyped, InitMeant, InitTuned
  <1>2. Typed /\ Meant /\ TunedInv /\ [Next]_vars => Typed' /\ Meant' /\ TunedInv'
    BY NextTyped, NextMeant, NextTuned
  <1>3. Typed /\ Meant /\ TunedInv => AcceptanceIsLast /\ InStep
    <2> SUFFICES ASSUME Typed, Meant, TunedInv PROVE AcceptanceIsLast /\ InStep
      OBVIOUS
    <2>1. history.faults \in Nat
      BY DEF Typed
    <2>2. history.broke => history.faults > 0
      BY <2>1 DEF TunedInv, Tuned
    <2>3. QED
      BY <2>2 DEF Meant, InStep
  <1>4. QED
    BY <1>1, <1>2, <1>3, PTL DEF Spec

=============================================================================
