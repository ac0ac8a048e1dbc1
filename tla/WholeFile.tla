----------------------------- MODULE WholeFile ------------------------------
(***************************************************************************)
(* What the files of the config directory promise their readers: the file  *)
(* is always something that was to be saved, whole, and it changes only    *)
(* while that save is under way, at most once for each.  A save may come   *)
(* to nothing, and a program that stops drops the ones it had begun; with  *)
(* the power, it may lose the last one that was done.                      *)
(***************************************************************************)
CONSTANTS Savers, Values, None

VARIABLES
  file,    \* what is in it
  before,  \* what was in it before
  pending  \* what each saver is about to put there, or None

Init == file \in Values /\ before = file /\ pending = [s \in Savers |-> None]

Ask(s, v) == pending[s] = None /\ pending' = [pending EXCEPT ![s] = v] /\ UNCHANGED <<file, before>>

Replace(s) ==
  /\ pending[s] # None /\ file' = pending[s] /\ before' = file
  /\ pending' = [pending EXCEPT ![s] = None]

Fail(s) == pending' = [pending EXCEPT ![s] = None] /\ UNCHANGED <<file, before>>

Stop ==
  /\ pending' = [s \in Savers |-> None]
  /\ file' \in {file, before} /\ before' = file'

Next ==
  \/ \E s \in Savers : Replace(s) \/ Fail(s) \/ \E v \in Values : Ask(s, v)
  \/ Stop

Spec == Init /\ [][Next]_<<file, before, pending>>
=============================================================================
