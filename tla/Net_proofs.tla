------------------------------ MODULE Net_proofs ------------------------------
(***************************************************************************)
(* Proofs about the connections of the phones: about Connections, for any  *)
(* sockets, addresses and limits; and of what a run of the parts of MCNet  *)
(* says of the exchanges, from the theorems about Handshake.               *)
(*                                                                         *)
(* None of the three invariants of Connections is inductive alone.  A      *)
(* count is right after a slot is given back only if the socket's was      *)
(* counted (Own says who may hold one); and a live session is held by      *)
(* somebody only if the token a socket is about to lose, at "mark" and     *)
(* when it pairs again, is not a live one.                                 *)
(***************************************************************************)
EXTENDS MCNet, FiniteSetTheorems, TLAPS

USE LimitsArePositive

Holders == {c \in Sockets : held[c]}
HoldersAt(a) == {c \in Sockets : held[c] /\ Addr[c] = a}

Counted ==
  /\ total = Cardinality(Holders)
  /\ \A a \in Addrs : byAddr[a] = Cardinality(HoldersAt(a))

\* What a socket has at each place.
Own(c) ==
  /\ pc[c] \in {"new", "remove", "gone"} => ~held[c]
  /\ new[c] # 0 => pc[c] \in {"giveBack", "mark"}
  /\ pc[c] = "new" => token[c] = 0
  /\ pc[c] = "mark" => token[c] \notin sessions
  /\ pc[c] \in {"new", "gone"} => c \notin clients

CInv ==
  /\ TypeOK
  /\ Counted
  /\ \A c \in Sockets : Own(c)
  /\ SessionsAreHeld

-----------------------------------------------------------------------------
(***************************************************************************)
(* Slots: taking one and giving one back keep the two counts.              *)
(***************************************************************************)
LEMMA FiniteHolders ==
  /\ IsFiniteSet(Holders)
  /\ \A a : IsFiniteSet(HoldersAt(a))
  <1>1. Holders \subseteq Sockets /\ \A a : HoldersAt(a) \subseteq Sockets
    BY DEF Holders, HoldersAt
  <1>2. QED
    BY <1>1, SocketsAreFinite, FS_Subset

LEMMA TakeSlot ==
  ASSUME TypeOK, Counted, NEW c \in Sockets, ~held[c],
         total' = total + 1,
         byAddr' = [byAddr EXCEPT ![Addr[c]] = @ + 1],
         held' = [held EXCEPT ![c] = TRUE]
  PROVE  Counted'
  <1>1. Holders' = Holders \cup {c} /\ c \notin Holders
    BY DEF Holders, TypeOK
  <1>2. total' = Cardinality(Holders')
    BY <1>1, FiniteHolders, FS_AddElement DEF Counted
  <1>3. ASSUME NEW a \in Addrs
        PROVE  byAddr'[a] = Cardinality(HoldersAt(a)')
    <2>1. CASE a = Addr[c]
      <3>1. HoldersAt(a)' = HoldersAt(a) \cup {c} /\ c \notin HoldersAt(a)
        BY <2>1 DEF HoldersAt, TypeOK
      <3>2. Cardinality(HoldersAt(a)') = Cardinality(HoldersAt(a)) + 1
        BY <3>1, FiniteHolders, FS_AddElement
      <3>3. byAddr'[a] = byAddr[a] + 1
        BY <1>3, <2>1 DEF TypeOK
      <3>4. QED
        BY <3>2, <3>3, <1>3 DEF Counted
    <2>2. CASE a # Addr[c]
      <3>1. HoldersAt(a)' = HoldersAt(a)
        BY <2>2 DEF HoldersAt, TypeOK
      <3>2. byAddr'[a] = byAddr[a]
        BY <1>3, <2>2 DEF TypeOK
      <3>3. QED
        BY <3>1, <3>2, <1>3 DEF Counted
    <2>3. QED
      BY <2>1, <2>2
  <1>4. QED
    BY <1>2, <1>3 DEF Counted, Addrs

LEMMA GiveSlotBack ==
  ASSUME TypeOK, Counted, NEW c \in Sockets, ReleasePending(c)
  PROVE  Counted'
  <1>1. CASE ~held[c]
    <2>1. /\ UNCHANGED pending
          /\ held' = held
      BY <1>1 DEF ReleasePending, TypeOK
    <2>2. QED
      BY <2>1 DEF Counted, Holders, HoldersAt, pending, Addrs
  <1>2. CASE held[c]
    <2>1. Holders' = Holders \ {c} /\ c \in Holders
      BY <1>2 DEF Holders, TypeOK, ReleasePending
    <2>2. /\ Cardinality(Holders') = Cardinality(Holders) - 1
          /\ Cardinality(Holders) \in Nat /\ Cardinality(Holders) # 0
      BY <2>1, FiniteHolders, FS_RemoveElement, FS_CardinalityType, FS_EmptySet
    <2>3. total' = Cardinality(Holders')
      BY <2>2, <1>2 DEF Counted, ReleasePending, TypeOK
    <2>4. ASSUME NEW a \in Addrs
          PROVE  byAddr'[a] = Cardinality(HoldersAt(a)')
      <3>1. CASE a = Addr[c]
        <4>1. HoldersAt(a)' = HoldersAt(a) \ {c} /\ c \in HoldersAt(a)
          BY <1>2, <3>1 DEF HoldersAt, TypeOK, ReleasePending
        <4>2. /\ Cardinality(HoldersAt(a)') = Cardinality(HoldersAt(a)) - 1
              /\ Cardinality(HoldersAt(a)) \in Nat
              /\ Cardinality(HoldersAt(a)) # 0
          <5>1. IsFiniteSet(HoldersAt(a))
            BY FiniteHolders
          <5>2. Cardinality(HoldersAt(a)) \in Nat
            BY <5>1, FS_CardinalityType
          <5>3. Cardinality(HoldersAt(a) \ {c}) = Cardinality(HoldersAt(a)) - 1
            BY <4>1, <5>1, FS_RemoveElement
          <5>4. Cardinality(HoldersAt(a)) # 0
            BY <4>1, <5>1, FS_EmptySet
          <5>5. QED
            BY <4>1, <5>2, <5>3, <5>4
        <4>3. byAddr[a] = Cardinality(HoldersAt(a))
          BY <2>4 DEF Counted
        <4>4. byAddr'[a] = IF byAddr[a] > 0 THEN byAddr[a] - 1 ELSE 0
          BY <1>2, <2>4, <3>1 DEF ReleasePending, TypeOK
        <4>5. QED
          BY <4>2, <4>3, <4>4
      <3>2. CASE a # Addr[c]
        <4>1. HoldersAt(a)' = HoldersAt(a)
          BY <3>2 DEF HoldersAt, TypeOK, ReleasePending
        <4>2. byAddr'[a] = byAddr[a]
          BY <1>2, <2>4, <3>2 DEF ReleasePending, TypeOK
        <4>3. QED
          BY <4>1, <4>2, <2>4 DEF Counted
      <3>3. QED
        BY <3>1, <3>2
    <2>5. QED
      BY <2>3, <2>4 DEF Counted, Addrs
  <1>3. QED
    BY <1>1, <1>2

LEMMA CountedKept ==
  ASSUME Counted, UNCHANGED <<pending, held>>
  PROVE  Counted'
  BY DEF Counted, Holders, HoldersAt, pending, Addrs

LEMMA CountedStep ==
  ASSUME CInv, Next
  PROVE  Counted'
  <1>1. CASE \E c \in Sockets : Accept(c)
    <2>1. PICK c \in Sockets : Accept(c)
      BY <1>1
    <2>2. ~held[c]
      BY <2>1 DEF Accept, Goto, CInv, Own
    <2>3. CASE total < Limit /\ byAddr[Addr[c]] < PerAddr
      BY <2>1, <2>2, <2>3, TakeSlot DEF Accept, CInv
    <2>4. CASE ~(total < Limit /\ byAddr[Addr[c]] < PerAddr)
      BY <2>1, <2>4, CountedKept DEF Accept, CInv
    <2>5. QED
      BY <2>3, <2>4
  <1>2. CASE \E c \in Sockets : Release(c) \/ Leave(c)
    BY <1>2, GiveSlotBack DEF Release, Leave, CInv
  <1>3. CASE \E c \in Sockets : \/ Authenticate(c) \/ GiveBack(c) \/ Mark(c)
                                \/ Enter(c) \/ Seal(c) \/ Refuse(c)
                                \/ PeerLeaves(c) \/ Deadline(c) \/ Expel(c)
                                \/ ReadFails(c) \/ Remove(c)
    BY <1>3, CountedKept
    DEF Authenticate, GiveBack, Mark, Enter, Seal, Refuse, PeerLeaves, Deadline,
        Expel, ReadFails, Remove, CInv, own
  <1>4. CASE \/ Heartbeat \/ Rotate \/ Toggle
             \/ \E t \in Tokens : Expire(t)
             \/ \E r \in Reports : FollowUp(r)
    BY <1>4, CountedKept
    DEF Heartbeat, Collect, CloseStale, RemoveStale, Rotate, Toggle, Expire,
        FollowUp, CInv, own
  <1>5. QED
    BY <1>1, <1>2, <1>3, <1>4 DEF Next, Pairing, Leaving

-----------------------------------------------------------------------------
(***************************************************************************)
(* Types.                                                                  *)
(***************************************************************************)
LEMMA RemoveClientType ==
  ASSUME TypeOK, NEW c \in Sockets, RemoveClient(c)
  PROVE  /\ clients' \subseteq Sockets
         /\ sessions' \subseteq 1 .. issued
         /\ follow' \in [Reports -> {"none", "asleep", "seen", "over"}]
  <1>1. clients' \subseteq Sockets /\ sessions' \subseteq 1 .. issued
    BY DEF TypeOK, RemoveClient
  <1>2. CASE armed /\ clients' = {} /\ \E r \in Reports : follow[r] = "none"
    <2>1. (CHOOSE r \in Reports : follow[r] = "none") \in Reports
      BY <1>2
    <2>2. QED
      BY <1>1, <1>2, <2>1 DEF TypeOK, RemoveClient
  <1>3. CASE ~(armed /\ clients' = {} /\ \E r \in Reports : follow[r] = "none")
    BY <1>1, <1>3 DEF TypeOK, RemoveClient
  <1>4. QED
    BY <1>2, <1>3

LEMMA ReleaseType ==
  ASSUME TypeOK, NEW c \in Sockets, ReleasePending(c)
  PROVE  /\ total' \in 0 .. Limit /\ byAddr' \in [Addrs -> 0 .. PerAddr]
         /\ held' \in [Sockets -> BOOLEAN]
  <1>1. /\ held' \in [Sockets -> BOOLEAN]
        /\ Addr[c] \in Addrs
    BY DEF TypeOK, ReleasePending, Addrs
  <1>2. CASE held[c]
    BY <1>1, <1>2 DEF TypeOK, ReleasePending
  <1>3. CASE ~held[c]
    BY <1>1, <1>3 DEF TypeOK, ReleasePending, pending
  <1>4. QED
    BY <1>1, <1>2, <1>3

LEMMA TypeStep ==
  ASSUME TypeOK, [Next]_vars
  PROVE  TypeOK'
  <1> USE DEF Places
  <1>1. ASSUME NEW c \in Sockets, Accept(c)
        PROVE  TypeOK'
    <2>1. Addr[c] \in Addrs
      BY DEF Addrs
    <2>2. CASE total < Limit /\ byAddr[Addr[c]] < PerAddr
      <3>1. total' \in 0 .. Limit /\ byAddr' \in [Addrs -> 0 .. PerAddr]
        BY <1>1, <2>1, <2>2 DEF TypeOK, Accept
      <3>2. pc' \in [Sockets -> Places] /\ held' \in [Sockets -> BOOLEAN]
        BY <1>1, <2>2 DEF TypeOK, Accept, Goto
      <3>3. QED
        BY <1>1, <3>1, <3>2 DEF TypeOK, Accept
    <2>3. CASE ~(total < Limit /\ byAddr[Addr[c]] < PerAddr)
      BY <1>1, <2>3 DEF TypeOK, Accept, Goto, pending
    <2>4. QED
      BY <2>2, <2>3
  <1>2. ASSUME NEW c \in Sockets, Authenticate(c)
        PROVE  TypeOK'
    BY <1>2 DEF TypeOK, Authenticate, Goto, pending
  <1>3. ASSUME NEW c \in Sockets, GiveBack(c) \/ Mark(c) \/ Seal(c)
        PROVE  TypeOK'
    <2>1. CASE GiveBack(c)
      BY <2>1 DEF TypeOK, GiveBack, Goto, pending
    <2>2. CASE Mark(c)
      BY <2>2 DEF TypeOK, Mark, Goto, pending
    <2>3. CASE Seal(c)
      <3>1. /\ sessions' \subseteq 1 .. issued /\ paired' \in [Sockets -> BOOLEAN]
            /\ token' \in [Sockets -> 0 .. issued]
        <4>1. CASE UNCHANGED <<sessions, paired, token>>
          BY <4>1 DEF TypeOK
        <4>2. CASE /\ sessions' = sessions \ {token[c]}
                   /\ paired' = [paired EXCEPT ![c] = FALSE]
                   /\ token' = [token EXCEPT ![c] = 0]
          <5>1. sessions' \subseteq 1 .. issued /\ paired' \in [Sockets -> BOOLEAN]
            BY <4>2 DEF TypeOK
          <5>2. 0 \in 0 .. issued
            BY DEF TypeOK
          <5>3. token' \in [Sockets -> 0 .. issued]
            BY <4>2, <5>2 DEF TypeOK
          <5>4. QED
            BY <5>1, <5>3
        <4>3. QED
          BY <2>3, <4>1, <4>2 DEF Seal
      <3>2. pc' \in [Sockets -> Places]
        BY <2>3 DEF TypeOK, Seal, Goto
      <3>3. QED
        BY <2>3, <3>1, <3>2 DEF TypeOK, Seal, pending
    <2>4. QED
      BY <1>3, <2>1, <2>2, <2>3
  <1>4. ASSUME NEW c \in Sockets, Enter(c)
        PROVE  TypeOK'
    BY <1>4 DEF TypeOK, Enter, Goto, pending
  <1>5. ASSUME NEW c \in Sockets, Release(c) \/ Leave(c)
        PROVE  TypeOK'
    BY <1>5, ReleaseType DEF TypeOK, Release, Leave, Goto
  <1>6. ASSUME NEW c \in Sockets,
               Refuse(c) \/ PeerLeaves(c) \/ Deadline(c) \/ ReadFails(c)
        PROVE  TypeOK'
    BY <1>6 DEF TypeOK, Refuse, PeerLeaves, Deadline, ReadFails, Goto, pending, own
  <1>7. ASSUME NEW c \in Sockets, Expel(c) \/ Remove(c)
        PROVE  TypeOK'
    <2>1. RemoveClient(c)
      BY <1>7 DEF Expel, Remove
    <2>2. QED
      BY <1>7, <2>1, RemoveClientType DEF TypeOK, Expel, Remove, Goto, pending
  <1>8. ASSUME NEW c \in Sockets, RemoveStale(c)
        PROVE  TypeOK'
    <2>1. RemoveClient(c)
      BY <1>8 DEF RemoveStale
    <2>2. QED
      BY <1>8, <2>1, RemoveClientType DEF TypeOK, RemoveStale, pending, own
  <1>9. ASSUME Collect \/ \E c \in Sockets : CloseStale(c)
        PROVE  TypeOK'
    BY <1>9 DEF TypeOK, Collect, CloseStale, Expired, pending, own
  <1>10. ASSUME Rotate \/ Toggle \/ (\E t \in Tokens : Expire(t))
                \/ (\E r \in Reports : FollowUp(r))
         PROVE  TypeOK'
    BY <1>10 DEF TypeOK, Rotate, Toggle, Expire, FollowUp, pending, own
  <1>11. ASSUME UNCHANGED vars
         PROVE  TypeOK'
    BY <1>11 DEF TypeOK, vars, pending, own
  <1>12. QED
    BY <1>1, <1>2, <1>3, <1>4, <1>5, <1>6, <1>7, <1>8, <1>9, <1>10, <1>11
    DEF Next, Pairing, Leaving, Heartbeat

-----------------------------------------------------------------------------
(***************************************************************************)
(* What a socket has, and who holds a session.                             *)
(***************************************************************************)
LEMMA OwnStep ==
  ASSUME CInv, Next, NEW d \in Sockets
  PROVE  Own(d)'
  <1>1. TypeOK /\ Own(d)
    BY DEF CInv
  <1>2. ASSUME NEW c \in Sockets, Accept(c)
        PROVE  Own(d)'
    <2>1. UNCHANGED <<clients, sessions, token, new>> /\ pc[c] = "new"
      BY <1>2 DEF Accept, Goto
    <2>2. CASE total < Limit /\ byAddr[Addr[c]] < PerAddr
      <3>1. pc' = [pc EXCEPT ![c] = "reading"] /\ held' = [held EXCEPT ![c] = TRUE]
        BY <1>2, <2>2 DEF Accept, Goto
      <3>2. QED
        BY <1>1, <2>1, <3>1 DEF TypeOK, Own
    <2>3. CASE ~(total < Limit /\ byAddr[Addr[c]] < PerAddr)
      <3>1. pc' = [pc EXCEPT ![c] = "gone"] /\ held' = held
        BY <1>2, <2>3 DEF Accept, Goto
      <3>2. QED
        BY <1>1, <2>1, <3>1 DEF TypeOK, Own
    <2>4. QED
      BY <2>2, <2>3
  <1>3. ASSUME NEW c \in Sockets, Authenticate(c)
        PROVE  Own(d)'
    BY <1>1, <1>3 DEF TypeOK, Own, Authenticate, Goto
  <1>4. ASSUME NEW c \in Sockets, GiveBack(c) \/ Mark(c)
        PROVE  Own(d)'
    BY <1>1, <1>4 DEF TypeOK, Own, GiveBack, Mark, Goto
  <1>5. ASSUME NEW c \in Sockets, Enter(c)
        PROVE  Own(d)'
    BY <1>1, <1>5 DEF TypeOK, Own, Enter, Goto
  <1>6. ASSUME NEW c \in Sockets, Seal(c)
        PROVE  Own(d)'
    BY <1>1, <1>6 DEF TypeOK, Own, Seal, Goto
  <1>7. ASSUME NEW c \in Sockets, Release(c) \/ Leave(c)
        PROVE  Own(d)'
    BY <1>1, <1>7 DEF TypeOK, Own, Release, Leave, ReleasePending, Goto
  <1>8. ASSUME NEW c \in Sockets, Expel(c) \/ Remove(c)
        PROVE  Own(d)'
    BY <1>1, <1>8 DEF TypeOK, Own, Expel, Remove, RemoveClient, Goto
  <1>9. ASSUME NEW c \in Sockets,
               Refuse(c) \/ PeerLeaves(c) \/ Deadline(c) \/ ReadFails(c)
        PROVE  Own(d)'
    BY <1>1, <1>9 DEF TypeOK, Own, Refuse, PeerLeaves, Deadline, ReadFails,
                      Goto, own
  <1>10. ASSUME Heartbeat \/ Rotate \/ Toggle \/ (\E t \in Tokens : Expire(t))
                \/ (\E r \in Reports : FollowUp(r))
         PROVE  Own(d)'
    BY <1>1, <1>10 DEF Own, Heartbeat, Collect, CloseStale, RemoveStale,
                       RemoveClient, Rotate, Toggle, Expire, FollowUp, own
  <1>11. QED
    BY <1>2, <1>3, <1>4, <1>5, <1>6, <1>7, <1>8, <1>9, <1>10
    DEF Next, Pairing, Leaving

\* No socket loses a token or goes, and no session begins.
LEMMA HeldKept ==
  ASSUME SessionsAreHeld, UNCHANGED <<token, new>>, sessions' \subseteq sessions,
         \A d \in Sockets : pc'[d] = "gone" => pc[d] = "gone"
  PROVE  SessionsAreHeld'
  BY DEF SessionsAreHeld

LEMMA HeldStep ==
  ASSUME CInv, Next
  PROVE  SessionsAreHeld'
  <1>1. TypeOK /\ SessionsAreHeld /\ \A c \in Sockets : Own(c)
    BY DEF CInv
  <1>2. ASSUME NEW c \in Sockets, Accept(c)
        PROVE  SessionsAreHeld'
    <2>1. pc[c] = "new" /\ token[c] = 0 /\ new[c] = 0
      BY <1>1, <1>2 DEF Accept, Goto, Own
    <2>2. \A t \in sessions : t # 0
      BY <1>1 DEF TypeOK
    <2>3. \A d \in Sockets \ {c} : pc'[d] = pc[d]
      BY <1>1, <1>2 DEF Accept, Goto, TypeOK
    <2>4. UNCHANGED <<token, new, sessions>>
      BY <1>2 DEF Accept
    <2>5. QED
      BY <1>1, <2>1, <2>2, <2>3, <2>4 DEF SessionsAreHeld
  <1>3. ASSUME NEW c \in Sockets, Authenticate(c)
        PROVE  SessionsAreHeld'
    <2>1. ASSUME NEW t \in sessions'
          PROVE  \E d \in Sockets : pc'[d] # "gone" /\ (token'[d] = t \/ new'[d] = t)
      <3>1. CASE t = issued + 1
        BY <1>1, <1>3, <3>1 DEF Authenticate, Goto, TypeOK
      <3>2. CASE t # issued + 1
        <4>1. t \in sessions /\ t # 0
          BY <1>1, <1>3, <2>1, <3>2 DEF Authenticate, TypeOK
        <4>2. PICK d \in Sockets : pc[d] # "gone" /\ (token[d] = t \/ new[d] = t)
          BY <1>1, <4>1 DEF SessionsAreHeld
        <4>3. new[c] = 0
          BY <1>1, <1>3 DEF Authenticate, Goto, Own
        <4>4. pc'[d] # "gone" /\ token' = token
          BY <1>1, <1>3, <4>2 DEF Authenticate, Goto, TypeOK
        <4>5. d # c => new'[d] = new[d]
          BY <1>1, <1>3 DEF Authenticate, TypeOK
        <4>6. QED
          BY <4>1, <4>2, <4>3, <4>4, <4>5
      <3>3. QED
        BY <3>1, <3>2
    <2>2. QED
      BY <2>1 DEF SessionsAreHeld
  <1>4. ASSUME NEW c \in Sockets, Mark(c)
        PROVE  SessionsAreHeld'
    <2>1. token[c] \notin sessions /\ sessions' = sessions
      BY <1>1, <1>4 DEF Mark, Goto, Own
    <2>2. /\ \A d \in Sockets \ {c} : /\ token'[d] = token[d]
                                      /\ new'[d] = new[d]
                                      /\ pc'[d] = pc[d]
          /\ token'[c] = new[c] /\ pc'[c] # "gone"
      BY <1>1, <1>4 DEF Mark, Goto, TypeOK
    <2>3. QED
      BY <1>1, <2>1, <2>2 DEF SessionsAreHeld
  <1>5. ASSUME NEW c \in Sockets, Seal(c)
        PROVE  SessionsAreHeld'
    <2>1. \A d \in Sockets \ {c} : token'[d] = token[d] /\ pc'[d] = pc[d]
      BY <1>1, <1>5 DEF Seal, Goto, TypeOK
    <2>2. /\ new' = new /\ pc'[c] # "gone"
          /\ \/ sessions' = sessions /\ token' = token
             \/ sessions' = sessions \ {token[c]}
      BY <1>1, <1>5 DEF Seal, Goto, TypeOK
    <2>3. QED
      BY <1>1, <2>1, <2>2 DEF SessionsAreHeld
  <1>6. ASSUME NEW c \in Sockets, Remove(c)
        PROVE  SessionsAreHeld'
    <2>1. new[c] = 0 /\ \A t \in sessions : t # 0
      BY <1>1, <1>6 DEF Remove, Goto, Own, TypeOK
    <2>2. /\ sessions' = sessions \ {token[c]} /\ token' = token /\ new' = new
          /\ \A d \in Sockets \ {c} : pc'[d] = pc[d]
      BY <1>1, <1>6 DEF Remove, RemoveClient, Goto, TypeOK
    <2>3. QED
      BY <1>1, <2>1, <2>2 DEF SessionsAreHeld
  <1>7. ASSUME NEW c \in Sockets,
               \/ GiveBack(c) \/ Release(c) \/ Enter(c) \/ Refuse(c) \/ Expel(c)
               \/ PeerLeaves(c) \/ Deadline(c) \/ ReadFails(c) \/ Leave(c)
        PROVE  SessionsAreHeld'
    <2>1. UNCHANGED <<token, new>> /\ sessions' \subseteq sessions
      BY <1>7 DEF GiveBack, Release, Enter, Refuse, Expel, RemoveClient,
                  PeerLeaves, Deadline, ReadFails, Leave, own
    <2>2. \A d \in Sockets : pc'[d] = "gone" => pc[d] = "gone"
      BY <1>1, <1>7 DEF GiveBack, Release, Enter, Refuse, Expel, PeerLeaves,
                        Deadline, ReadFails, Leave, own, Goto, TypeOK
    <2>3. QED
      BY <1>1, <2>1, <2>2, HeldKept
  <1>8. ASSUME Heartbeat \/ Rotate \/ Toggle \/ (\E t \in Tokens : Expire(t))
               \/ (\E r \in Reports : FollowUp(r))
        PROVE  SessionsAreHeld'
    <2>1. UNCHANGED <<token, new, pc>> /\ sessions' \subseteq sessions
      BY <1>8 DEF Heartbeat, Collect, CloseStale, RemoveStale, RemoveClient,
                  Rotate, Toggle, Expire, FollowUp, own
    <2>2. QED
      BY <1>1, <2>1, HeldKept
  <1>9. QED
    BY <1>2, <1>3, <1>4, <1>5, <1>6, <1>7, <1>8 DEF Next, Pairing, Leaving

-----------------------------------------------------------------------------
\* The inductive invariant of the connections: types, the two counts, what a
\* socket has at each place, and that every session is held.
THEOREM ConnectionsInvariant == Spec => []CInv
  <1>1. Init => CInv
    <2>1. SUFFICES ASSUME Init PROVE CInv
      OBVIOUS
    <2>2. TypeOK
      BY <2>1 DEF Init, TypeOK, Places
    <2>3. Counted
      <3>1. Holders = {} /\ \A a : HoldersAt(a) = {}
        BY <2>1 DEF Init, Holders, HoldersAt
      <3>2. QED
        BY <2>1, <3>1, FS_EmptySet DEF Init, Counted
    <2>4. (\A c \in Sockets : Own(c)) /\ SessionsAreHeld
      BY <2>1 DEF Init, Own, SessionsAreHeld
    <2>5. QED
      BY <2>2, <2>3, <2>4 DEF CInv
  <1>2. CInv /\ [Next]_vars => CInv'
    <2>1. SUFFICES ASSUME CInv, [Next]_vars PROVE CInv'
      OBVIOUS
    <2>2. TypeOK'
      BY <2>1, TypeStep DEF CInv
    <2>3. CASE Next
      BY <2>1, <2>2, <2>3, CountedStep, OwnStep, HeldStep DEF CInv
    <2>4. CASE UNCHANGED vars
      <3>1. Counted'
        BY <2>1, <2>4, CountedKept DEF CInv, vars, own
      <3>2. (\A c \in Sockets : Own(c))' /\ SessionsAreHeld'
        BY <2>1, <2>4 DEF CInv, Own, SessionsAreHeld, vars, own
      <3>3. QED
        BY <2>2, <3>1, <3>2 DEF CInv
    <2>5. QED
      BY <2>1, <2>3, <2>4
  <1>3. QED
    BY <1>1, <1>2, PTL DEF Spec

\* Every reachable state has its types, whatever the limits.
THEOREM TypeCorrect == Spec => []TypeOK
  <1>1. CInv => TypeOK
    BY DEF CInv
  <1>2. QED
    BY <1>1, ConnectionsInvariant, PTL

\* No unpaired slot is lost and none is given back twice, at any address, for
\* any number of connections.
THEOREM SlotsAreCountedHolds == Spec => []SlotsAreCounted
  <1>1. CInv => SlotsAreCounted
    BY DEF CInv, Counted, Holders, HoldersAt, Own, SlotsAreCounted
  <1>2. QED
    BY <1>1, ConnectionsInvariant, PTL

\* Every live session is in the hands of an open socket, whatever expires, is
\* rotated away or thrown out meanwhile.
THEOREM SessionsAreHeldHolds == Spec => []SessionsAreHeld
  <1>1. CInv => SessionsAreHeld
    BY DEF CInv
  <1>2. QED
    BY <1>1, ConnectionsInvariant, PTL

\* A connection that has ended is not among the clients, whoever removed it.
THEOREM GoneIsGoneHolds == Spec => []GoneIsGone
  <1>1. CInv => GoneIsGone
    BY DEF CInv, TypeOK, Own, GoneIsGone
  <1>2. QED
    BY <1>1, ConnectionsInvariant, PTL
-----------------------------------------------------------------------------
(***************************************************************************)
(* The parts of MCNet: each is a behaviour of its module, or does nothing. *)
(***************************************************************************)
LEMMA PartsOfTheNet == AllSpec => Spec /\ Pa!Spec /\ Ta!Spec
  <1>1. AllInit => Init /\ Pa!Init /\ Ta!Init
    BY DEF AllInit
  <1>2. [AllNext]_all => [Next]_vars /\ [Pa!Next]_Pa!vars /\ [Ta!Next]_Ta!vars
    BY DEF AllNext, all, pairingVars, talkingVars, Pa!vars, Ta!vars
  <1>3. QED
    BY <1>1, <1>2, PTL DEF AllSpec, Spec, Pa!Spec, Ta!Spec

\* Every reachable state of the connections and of either exchange has its types.
THEOREM TypesOKHolds == AllSpec => []TypesOK
  <1>1. Pa!ConstantsOK /\ Ta!ConstantsOK
    BY HandshakeConstants
  <1>2. /\ Pa!Spec => [](Pa!Typed /\ Pa!TypeOK)
        /\ Ta!Spec => [](Ta!Typed /\ Ta!TypeOK)
    BY <1>1, Pa!TypeCorrect, Ta!TypeCorrect
  <1>3. TypeOK /\ Pa!TypeOK /\ Ta!TypeOK => TypesOK
    BY DEF TypesOK
  <1>4. QED
    BY <1>2, <1>3, TypeCorrect, PartsOfTheNet, PTL

\* Neither end of an exchange holds a session the other did not mean on this very
\* connection, in any run of the parts.  (handshakeProof, acceptAndSeal.)
THEOREM BothMeantItHolds == AllSpec => []BothMeantIt
  <1>1. Pa!ConstantsOK /\ Ta!ConstantsOK
    BY HandshakeConstants
  <1>2. (Pa!Spec => []Pa!BothMeantIt) /\ (Ta!Spec => []Ta!BothMeantIt)
    BY <1>1, Pa!BothMeantItHolds, Ta!BothMeantItHolds
  <1>3. QED
    BY <1>2, PartsOfTheNet, PTL DEF BothMeantIt

\* The acceptance is the last frame in the clear, and over a wire that keeps its frames the
\* two ends change their keys at the same place.  (acceptAndSeal, sendLocked.)
THEOREM AcceptanceIsLastHolds == AllSpec => []AcceptanceIsLast
  <1>1. Pa!ConstantsOK /\ Ta!ConstantsOK
    BY HandshakeConstants
  <1>2. /\ Pa!Spec => [](Pa!AcceptanceIsLast /\ Pa!InStep)
        /\ Ta!Spec => [](Ta!AcceptanceIsLast /\ Ta!InStep)
    BY <1>1, Pa!AcceptanceIsLastHolds, Ta!AcceptanceIsLastHolds
  <1>3. QED
    BY <1>2, PartsOfTheNet, PTL DEF AcceptanceIsLast

\* Either exchange implements the sealed channel: what an end takes is what the other said,
\* in that order and once.  (session.go.)
THEOREM ConversationIsSealed == AllSpec => SealedConversation
  <1>1. Pa!ConstantsOK /\ Ta!ConstantsOK
    BY HandshakeConstants
  <1>2. /\ Pa!Spec => Pa!SealedConversation
        /\ Ta!Spec => Ta!SealedConversation
    BY <1>1, Pa!ConversationIsSealed, Ta!ConversationIsSealed
  <1>3. QED
    BY <1>2, PartsOfTheNet, PTL DEF SealedConversation
=============================================================================
