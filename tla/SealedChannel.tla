---------------------------- MODULE SealedChannel ----------------------------
(***************************************************************************)
(* What a sealed connection promises, without keys, nonces or counters: in *)
(* each conversation, what one end hears is what the other end said, at    *)
(* the place it said it, in the order it said it, and nothing twice.       *)
(* Messages may be missed.                                                 *)
(***************************************************************************)
EXTENDS Naturals, FiniteSets, Sequences, SequencesExt

CONSTANT Ends   \* the two ends

VARIABLES
  said,   \* every message: its conversation (of), who said it (by), its place (at)
          \* and what it says
  heard   \* at each end, the other's messages it took, in the order it took them

SaidBy(c, e) == {u \in said : u.of = c /\ u.by = e}

Init == said = {} /\ heard = [e \in Ends |-> <<>>]

Fresh(u) == u.at = Cardinality(SaidBy(u.of, u.by))

Says == \E u \in said' : Fresh(u) /\ said' = said \cup {u}

Hears(e) ==
  \E u \in said :
    /\ u.by # e
    /\ \A v \in ToSet(heard[e]) : v.of = u.of => v.at < u.at
    /\ heard' = [heard EXCEPT ![e] = Append(@, u)]

\* One step may hear one thing and say another: an order is taken and answered.
Next ==
  \/ Says /\ UNCHANGED heard
  \/ \E e \in DOMAIN heard : Hears(e) /\ (Says \/ UNCHANGED said)

Spec == Init /\ [][Next]_<<said, heard>>
=============================================================================
