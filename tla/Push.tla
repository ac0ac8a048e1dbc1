---------------------------------- MODULE Push ----------------------------------
(***************************************************************************)
(* Telling a phone that is not connected: the signing key and the           *)
(* subscriptions the laptop keeps on disk, what a phone offers when it       *)
(* pairs, and the round of messages an alarm sends.                         *)
(*                                                                         *)
(* internal/push, the hub's PushAlert and handlePushSubscribe, and          *)
(* web/src/lib/pushalerts.ts.  A subscription belongs to a phone, has a      *)
(* number (its endpoint is the two together) and is bound to the signing key *)
(* it was made under.  What is encrypted stays so: a message is the alarm it *)
(* is about.  The key file is written in place, the subscriptions are        *)
(* replaced by renaming, and the program may be killed between any two       *)
(* steps.                                                                   *)
(***************************************************************************)
EXTENDS Integers, FiniteSets

CONSTANTS
  Phones,
  Budget,      \* how many sends that hang use up the time of a round: 30 s over 10 s
  MaxNumber, MaxKeys, MaxRounds, MaxFaults

VARIABLES
  disk,        \* the key file and the subscriptions file
  laptop,      \* up or not, the signing key, the subscriptions in memory
  browser,     \* per phone, the subscription it has and the last number used
  offered,     \* push_subscribe messages on their way
  rounds,      \* per alarm: snapshot, left to do, the one being sent, what became of each
  history      \* alarms, keys and faults so far; subscriptions the laptop said it would keep

vars == <<disk, laptop, browser, offered, rounds, history>>

\* What the theorems about this module ask of its constants.
ConstantsOK ==
  /\ Budget \in Nat /\ MaxNumber \in Nat
  /\ MaxKeys \in Nat /\ MaxRounds \in Nat /\ MaxFaults \in Nat

NoKey == 0
Nobody == [phone |-> "none", number |-> 0, under |-> NoKey]
Off == [at |-> "down", key |-> NoKey, subs |-> {}]
Idle == [at |-> "unused", all |-> {}, todo |-> {}, now |-> Nobody, answer |-> "none",
         hung |-> 0, told |-> {}, tried |-> {}, excused |-> {}]
Rounds == 1 .. MaxRounds

Init ==
  /\ disk = [key |-> NoKey, subs |-> {}]
  /\ laptop = Off
  /\ browser = [p \in Phones |-> [sub |-> Nobody, number |-> 0]]
  /\ offered = {}
  /\ rounds = [r \in Rounds |-> Idle]
  /\ history = [rounds |-> 0, keys |-> 0, faults |-> 0, kept |-> {}]

\* What the push services still know: a browser that drops its subscription tells them.
service == {browser[p].sub : p \in Phones} \ {Nobody}

Fault == history.faults < MaxFaults /\ history' = [history EXCEPT !.faults = @ + 1]

-----------------------------------------------------------------------------
(***************************************************************************)
(* Opening what is on disk, and the end of the program.                    *)
(***************************************************************************)
\* A key that is missing or does not decode is replaced; one that cannot be read at
\* all leaves the program without push.
LoadOrCreateIdentity ==
  /\ laptop.at = "down"
  /\ \/ /\ disk.key # NoKey
        /\ laptop' = [laptop EXCEPT !.at = "store", !.key = disk.key]
        /\ UNCHANGED <<disk, history>>
     \/ /\ disk.key = NoKey /\ history.keys < MaxKeys
        /\ laptop' = [laptop EXCEPT !.at = "writing"]
        /\ UNCHANGED <<disk, history>>
     \/ /\ Fault
        /\ laptop' = [laptop EXCEPT !.at = "without"]
        /\ UNCHANGED disk
  /\ UNCHANGED <<browser, offered, rounds>>

\* os.WriteFile has emptied the file by now; the key follows.
NewIdentity ==
  /\ laptop.at = "writing"
  /\ history' = [history EXCEPT !.keys = @ + 1]
  /\ disk' = [disk EXCEPT !.key = history.keys + 1]
  /\ laptop' = [laptop EXCEPT !.at = "store", !.key = history.keys + 1]
  /\ UNCHANGED <<browser, offered, rounds>>

\* A file that cannot be read starts an empty store.
OpenStore ==
  /\ laptop.at = "store"
  /\ \/ /\ laptop' = [laptop EXCEPT !.at = "up", !.subs = disk.subs]
        /\ UNCHANGED history
     \/ /\ history.faults < MaxFaults
        /\ laptop' = [laptop EXCEPT !.at = "up", !.subs = {}]
        /\ history' = [history EXCEPT !.faults = @ + 1, !.kept = {}]
  /\ UNCHANGED <<disk, browser, offered, rounds>>

\* Whoever restores a backup, or a disk, may leave a key file that does not decode.
SpoilKey ==
  /\ laptop.at = "down" /\ disk.key # NoKey /\ Fault
  /\ disk' = [disk EXCEPT !.key = NoKey]
  /\ UNCHANGED <<laptop, browser, offered, rounds>>

Crash ==
  /\ laptop.at # "down"
  /\ laptop' = Off
  /\ offered' = {}
  /\ rounds' = [r \in Rounds |-> IF rounds[r].at = "unused" THEN Idle
                                 ELSE [Idle EXCEPT !.at = "cut off"]]
  /\ UNCHANGED <<disk, browser, history>>

-----------------------------------------------------------------------------
(***************************************************************************)
(* The store.                                                              *)
(***************************************************************************)
Endpoint(s) == <<s.phone, s.number>>

\* saveLocked: the whole file or the one before; memory keeps what it was told.
Save(subs, kept) ==
  /\ laptop' = [laptop EXCEPT !.subs = subs]
  /\ \/ /\ disk' = [disk EXCEPT !.subs = subs]
        /\ history' = [history EXCEPT !.kept = kept]
     \/ /\ Fault
        /\ UNCHANGED disk

Without(e) == {s \in laptop.subs : Endpoint(s) # e}

Add(s) == Save(Without(Endpoint(s)) \cup {s}, history.kept \cup {s})

\* Mutant: what could not be reached is forgotten as what has gone.
RemoveAll(e) == Save({}, history.kept)

Remove(e) ==
  IF Without(e) = laptop.subs THEN UNCHANGED <<laptop, disk, history>>
  ELSE Save(Without(e), history.kept)

-----------------------------------------------------------------------------
(***************************************************************************)
(* A phone that has just paired.                                           *)
(***************************************************************************)
PublicKey == laptop.key

\* Asked for only when there is none; the browser may refuse, and then none is offered.
Subscribed(p) ==
  IF browser[p].sub # Nobody THEN browser[p]
  ELSE [sub |-> [phone |-> p, number |-> browser[p].number + 1, under |-> PublicKey],
        number |-> browser[p].number + 1]

\* offerPushSubscription: the one the browser has, or a new one.  (Bound: one offer is on
\* its way at a time.)
OfferPushSubscription(p) ==
  /\ laptop.at = "up" /\ offered = {}
  /\ browser[p].sub # Nobody \/ browser[p].number < MaxNumber
  /\ LET b == Subscribed(p) IN
       /\ browser' = [browser EXCEPT ![p] = b]
       /\ offered' = offered \cup {b.sub}
  /\ UNCHANGED <<disk, laptop, rounds, history>>

\* handlePushSubscribe; the connection may also end before it.
PushSubscribe ==
  \E s \in offered :
    /\ offered' = offered \ {s}
    /\ \/ laptop.at = "up" /\ Add(s)
       \/ UNCHANGED <<laptop, disk, history>>
    /\ UNCHANGED <<browser, rounds>>

\* The application is removed, or its data cleared.
Unsubscribe(p) ==
  /\ browser[p].sub # Nobody
  /\ browser' = [browser EXCEPT ![p].sub = Nobody]
  /\ UNCHANGED <<disk, laptop, offered, rounds, history>>

-----------------------------------------------------------------------------
(***************************************************************************)
(* A round.                                                                *)
(***************************************************************************)
\* PushAlert hands the alarm to a goroutine, and Notify starts from a snapshot.
Notify ==
  /\ laptop.at = "up" /\ history.rounds < MaxRounds /\ laptop.subs # {}
  /\ history' = [history EXCEPT !.rounds = @ + 1]
  /\ rounds' = [rounds EXCEPT ![history.rounds + 1] =
                  [Idle EXCEPT !.at = "next", !.all = laptop.subs, !.todo = laptop.subs]]
  /\ UNCHANGED <<disk, laptop, browser, offered>>

Expired(r) == rounds[r].hung >= Budget

\* What the service answers: it knows the endpoint or not, and refuses a token that is
\* not signed by the key the subscription was made under.
StatusError(s) ==
  IF s \notin service THEN "gone" ELSE IF s.under = laptop.key THEN "ok" ELSE "refused"

\* The request is made with what is left of the round's time; without any, it is not.
Send(r) ==
  /\ rounds[r].at = "next" /\ ~Expired(r)
  /\ \E s \in rounds[r].todo :
       LET sent == [rounds[r] EXCEPT !.at = "sent", !.todo = @ \ {s}, !.now = s,
                                     !.tried = @ \cup {s}]
           answered == [sent EXCEPT !.answer = StatusError(s)]
           hangs == [sent EXCEPT !.answer = "hangs", !.excused = @ \cup {s}, !.hung = @ + 1] IN
       rounds' = [rounds EXCEPT ![r] = answered] \/ rounds' = [rounds EXCEPT ![r] = hangs]
  /\ UNCHANGED <<disk, laptop, browser, offered, history>>

SendTooLate(r) ==
  /\ rounds[r].at = "next" /\ Expired(r)
  /\ \E s \in rounds[r].todo :
       rounds' = [rounds EXCEPT ![r].todo = @ \ {s}, ![r].excused = @ \cup {s}]
  /\ UNCHANGED <<disk, laptop, browser, offered, history>>

\* Mutant: the first phone that is not reached ends the round.
AnsweredReturns(r) ==
  /\ rounds[r].at = "sent"
  /\ LET s == rounds[r].now  ok == rounds[r].answer = "ok"
         back == [rounds[r] EXCEPT !.at = "next", !.now = Nobody, !.answer = "none",
                                   !.todo = IF ok THEN @ ELSE {},
                                   !.told = IF ok THEN @ \cup {s} ELSE @] IN
       /\ rounds' = [rounds EXCEPT ![r] = back]
       /\ UNCHANGED <<laptop, disk, history>>
  /\ UNCHANGED <<browser, offered>>

\* The answer is read: told, gone and forgotten, or not reached and kept.
Answered(r) ==
  /\ rounds[r].at = "sent"
  /\ LET s == rounds[r].now  a == rounds[r].answer
         back == [rounds[r] EXCEPT
                    !.at = "next", !.now = Nobody, !.answer = "none",
                    !.told = IF a = "ok" THEN @ \cup {s} ELSE @,
                    !.excused = IF a \in {"gone", "refused"} THEN @ \cup {s} ELSE @] IN
       /\ rounds' = [rounds EXCEPT ![r] = back]
       /\ IF a = "gone" THEN Remove(Endpoint(s)) ELSE UNCHANGED <<laptop, disk, history>>
  /\ UNCHANGED <<browser, offered>>

Done(r) == rounds[r].at = "next" /\ rounds[r].todo = {}

Next ==
  \/ LoadOrCreateIdentity \/ NewIdentity \/ OpenStore \/ SpoilKey \/ Crash
  \/ \E p \in Phones : OfferPushSubscription(p) \/ Unsubscribe(p)
  \/ PushSubscribe \/ Notify
  \/ \E r \in Rounds : Send(r) \/ SendTooLate(r) \/ Answered(r)

Spec == Init /\ [][Next]_vars

-----------------------------------------------------------------------------
Subs == [phone : Phones, number : 1 .. MaxNumber, under : 1 .. MaxKeys]

TypeOK ==
  /\ disk.key \in 0 .. MaxKeys /\ disk.subs \subseteq Subs
  /\ laptop.at \in {"down", "writing", "store", "up", "without"}
  /\ laptop.key \in 0 .. MaxKeys /\ laptop.subs \subseteq Subs
  /\ offered \subseteq Subs
  /\ \A r \in Rounds : rounds[r].all \subseteq Subs /\ rounds[r].hung \in 0 .. Budget

\* A subscription the laptop once wrote down and the push service still knows is there
\* for the day it is needed: no answer to another phone, no older answer, no failed
\* write and no crash has taken it.  (Store, Notify.)
LiveIsKept ==
  \A s \in history.kept \cap service :
    s \in disk.subs /\ (laptop.at = "up" => s \in laptop.subs)

\* A phone that could be told was told, whatever the phones before it did, unless its
\* own service hung or the round had no time left.  (Notify.)
OneFailureIsNotAll ==
  \A r \in Rounds : Done(r) => rounds[r].all \subseteq rounds[r].told \cup rounds[r].excused

\* Together: a phone that can be told of an alarm is.
PhonesAreTold == LiveIsKept /\ OneFailureIsNotAll

\* What notifier.go says: every phone is attempted whatever the ones before it did.
EveryPhoneIsAttempted ==
  \A r \in Rounds : Done(r) => rounds[r].all \subseteq rounds[r].tried

\* What vapid.go says of a key that was lost: a phone subscribes again, under the new
\* one, the next time it is on this network.
SubscribesAgain ==
  [][\A s \in laptop'.subs \ laptop.subs :
       laptop.at = "up" /\ laptop'.at = "up" => s.under = laptop.key]_vars
=============================================================================
