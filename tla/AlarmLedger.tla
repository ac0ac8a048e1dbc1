----------------------------- MODULE AlarmLedger -----------------------------
(***************************************************************************)
(* What the hub promises about an alarm, with every mechanism left out: an *)
(* alarm is one event.  It is raised by one sensor while no other is       *)
(* sounding, it is called off by one process, and whoever calls it off     *)
(* learns which sensor raised it -- once.  That knowledge is what "pause   *)
(* this sensor" and "stop using this sensor" spend, so no alarm can switch *)
(* off more than the one sensor that raised it, however many phones answer *)
(* it at the same moment.                                                  *)
(*                                                                         *)
(* Watch.tla implements this; see Ledger there.                            *)
(***************************************************************************)
CONSTANTS
  Process,    \* whoever may call an alarm off
  Sensors,    \* the sensors that may raise one
  None        \* "no sensor"

VARIABLES
  alarm,      \* the sensor whose alarm is sounding, or None
  permit      \* permit[p]: the sensor p learnt by calling its alarm off

lvars == <<alarm, permit>>

LedgerInit ==
  /\ alarm = None
  /\ permit = [p \in Process |-> None]

Raise(s) ==
  /\ alarm = None
  /\ alarm' = s
  /\ UNCHANGED permit

\* Calling off hands the alarm's sensor over and leaves nothing behind for
\* the next process that calls off.
CallOff(p) ==
  /\ permit[p] = None
  /\ permit' = [permit EXCEPT ![p] = alarm]
  /\ alarm' = None

\* A disarm calls the alarm off as well and has no use for the sensor.
Discard == alarm' = None /\ UNCHANGED permit

Spend(p) ==
  /\ permit[p] # None
  /\ permit' = [permit EXCEPT ![p] = None]
  /\ UNCHANGED alarm

LedgerNext ==
  \/ \E s \in Sensors : Raise(s)
  \/ \E p \in Process : CallOff(p) \/ Spend(p)
  \/ Discard

LedgerSpec == LedgerInit /\ [][LedgerNext]_lvars
=============================================================================
