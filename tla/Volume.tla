--------------------------------- MODULE Volume ---------------------------------
(***************************************************************************)
(* What the three volume backends do to the machine's audio devices while an *)
(* alarm raises the volume and gives it back.                               *)
(*                                                                         *)
(* alarm/volume_linux.go, volume_windows.go and volume_darwin.go, called by   *)
(* alarm.go as Siren has it.  Every call looks the default device up again,    *)
(* and any of them may find none, be unable to read it or be unable to set it. *)
(* A level is a whole number of the device's steps; what is remembered of it  *)
(* is a fraction.                                                          *)
(***************************************************************************)
EXTENDS Integers, Sequences, FiniteSets

CONSTANTS
  Devices,    \* audio outputs
  Steps,      \* of each one's volume, from silence to full
  Medium,     \* volume_percent of the medium level
  MaxOwner,   \* things the owner does to the volume
  MaxFaults,  \* readings that fail
  None

\* What the proofs ask of them: "None" is neither a reading nor a chain of steps.
ConstantsOK ==
  /\ \A d \in Devices : Steps[d] \in Nat \ {0}
  /\ Medium \in 0 .. 100
  /\ \A d \in Devices : \A l \in 0 .. Steps[d] : None # [at |-> l, of |-> Steps[d]]
  /\ None # [at |-> 0, of |-> 1]
  /\ None # <<>> /\ None # <<"full">> /\ None # <<"medium", "full">>

VARIABLES
  os,       \* whose backend it is
  default,  \* the default output device
  level,    \* of each device
  muted,    \* each device
  todo,     \* what the alarm has yet to raise the volume to; None when it is quiet
  saved,    \* Alarm.savedVolume while volumeSaved, else None
  owner,    \* history: where the owner left each device
  clean,    \* history: this alarm read what it remembers, and the owner kept away
  touched,  \* history: the devices this alarm has set
  acts,     \* things the owner has done
  faults    \* readings that have failed

vars == <<os, default, level, muted, todo, saved, owner, clean, touched, acts, faults>>

Init ==
  /\ os \in {"linux", "windows", "darwin"}
  /\ default \in Devices
  /\ level \in [Devices -> {1}] /\ muted \in [Devices -> BOOLEAN]
  /\ todo = None /\ saved = None
  /\ owner = level /\ clean = TRUE /\ touched = {}
  /\ acts = 0 /\ faults = 0

Fraction(d) == [at |-> level[d], of |-> Steps[d]]
Silence == [at |-> 0, of |-> 1]
Full == [at |-> 1, of |-> 1]

\* Where a fraction lands on a device.  On Linux the product is cut off rather than
\* rounded, so a fraction the processor cannot hold exactly may land one step short.
Target(x, d) ==
  LET exact == (x.at * Steps[d]) \div x.of IN
    IF os = "linux" /\ x.at \notin {0, x.of} /\ (x.at * Steps[d]) % x.of = 0
    THEN {exact, exact - 1} ELSE {exact}

\* Mutant: every step through records what it found.
RememberLast(x) == saved' = x

\* rememberVolume: only the first step through records what it found.
Remember(x) == saved' = IF saved = None THEN x ELSE saved

\* maxVolume and setVolume: the device is read, a failure to read it being level 0, and
\* then set; on Linux nothing looks at the answers.  Which of them unmutes differs.
Raise(x, unmutes) ==
  /\ \/ /\ Remember(Fraction(default))
        /\ UNCHANGED <<clean, faults>>
     \/ /\ faults < MaxFaults /\ faults' = faults + 1
        /\ Remember(Silence)
        /\ clean' = (clean /\ saved # None)
  /\ \E l \in Target(x, default) \cup (IF os = "linux" THEN {level[default]} ELSE {}) :
       level' = [level EXCEPT ![default] = l]
  /\ touched' = touched \cup {default}
  /\ muted' = IF os \in unmutes THEN [muted EXCEPT ![default] = FALSE] ELSE muted

MaxVolume ==
  /\ todo \notin {None, <<>>} /\ Head(todo) = "full"
  /\ todo' = Tail(todo)
  /\ Raise(Full, {"linux", "windows"})
  /\ UNCHANGED <<os, default, owner, acts>>

SetVolume ==
  /\ todo \notin {None, <<>>} /\ Head(todo) = "medium"
  /\ todo' = Tail(todo)
  /\ Raise([at |-> Medium, of |-> 100], {"linux"})
  /\ UNCHANGED <<os, default, owner, acts>>

\* There is no device, or it would not be set: nothing is remembered of this step.
RaiseFails ==
  /\ todo \notin {None, <<>>} /\ faults < MaxFaults
  /\ todo' = Tail(todo)
  /\ faults' = faults + 1
  /\ UNCHANGED <<os, default, level, muted, saved, owner, clean, touched, acts>>

\* Alarm.Start: full volume at once, or the escalation chain.
Start ==
  /\ todo = None
  /\ todo' \in {<<"full">>, <<"medium", "full">>}
  /\ clean' = TRUE /\ touched' = {}
  /\ owner' = level
  /\ UNCHANGED <<os, default, level, muted, saved, acts, faults>>

\* Alarm.Stop: restoreVolume sets the level on what is the default device by now, and
\* leaves the mute as it is.
RestoreVolume ==
  /\ todo # None
  /\ todo' = None /\ saved' = None
  /\ \/ /\ saved # None
        /\ \E l \in Target(saved, default) : level' = [level EXCEPT ![default] = l]
        /\ touched' = touched \cup {default}
        /\ UNCHANGED <<clean, faults>>
     \/ saved = None /\ UNCHANGED <<level, clean, touched, faults>>
     \/ /\ saved # None /\ faults < MaxFaults /\ faults' = faults + 1
        /\ clean' = FALSE
        /\ UNCHANGED <<level, touched>>
  /\ UNCHANGED <<os, default, muted, owner, acts>>

\* The owner, or whoever is at the machine, moves the volume or plugs something in.
Meddle ==
  /\ acts < MaxOwner /\ acts' = acts + 1
  /\ \/ /\ \E l \in 0 .. Steps[default] : level' = [level EXCEPT ![default] = l]
        /\ clean' = FALSE
        /\ UNCHANGED <<default, muted>>
     \/ /\ muted' = [muted EXCEPT ![default] = ~@]
        /\ UNCHANGED <<default, level, clean>>
     \/ /\ default' \in Devices \ {default}
        /\ UNCHANGED <<level, muted, clean>>
  /\ UNCHANGED <<os, todo, saved, owner, touched, faults>>

Next == MaxVolume \/ SetVolume \/ RaiseFails \/ Start \/ RestoreVolume \/ Meddle

Spec == Init /\ [][Next]_vars

-----------------------------------------------------------------------------
TypeOK ==
  /\ default \in Devices
  /\ \A d \in Devices : level[d] \in 0 .. Steps[d] /\ muted[d] \in BOOLEAN
  /\ saved # None => saved.at \in 0 .. saved.of

\* An alarm that could read the volume, and whose every call found the same device,
\* leaves that device where the owner had it, or on Linux a step below, however far
\* through its chain it got.  (maxVolume, setVolume, restoreVolume, rememberVolume.)
OwnersLevelBack ==
  todo = None /\ clean /\ Cardinality(touched) = 1 =>
    \A d \in touched :
      level[d] \in {owner[d]} \cup (IF os = "linux" THEN {owner[d] - 1} ELSE {})

\* What the owner had the volume at is what it goes back to, on whatever device the
\* alarm was heard.  (Stop: "restores the previous volume level".)
EveryDeviceIsGivenBack ==
  todo = None /\ clean => \A d \in Devices : level[d] >= owner[d] - 1 /\ level[d] <= owner[d]

\* An alarm at full volume is not muted, the owner having muted nothing since.  (Slot 14
\* really is SetMute: "a wrong slot leaves the endpoint muted and a maximum volume
\* inaudible", volume_windows_test.go.)
FullIsHeard == [][MaxVolume => ~muted'[default]]_vars
=============================================================================
