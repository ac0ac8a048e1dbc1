----------------------------- MODULE MCSettings -----------------------------
\* Settings, bounded for TLC: two phones and two PINs.
EXTENDS Settings, TLC

CONSTANTS p1, p2, pinA, pinB

TwoPhones == {p1, p2}
TwoPins == {pinA, pinB}
Interchangeable == Permutations(TwoPhones) \cup Permutations(TwoPins)

\* The sensor is on when the program is first started, with the hash of an older
\* version if there is one, and is switched on again by configure and reset_config
\* alone.  An update does one thing: it switches the PIN on or off, brings a new
\* one, or switches the sensor off.
SensorOn == {c \in Config : c.sensor /\ (c.hash = NoHash \/ c.hash.old)}
SensorOff ==
  {w \in Wish : /\ w.sensor # TRUE
                /\ w.pin = None \/ w.sensor = None
                /\ w.on \/ (w.pin = None /\ w.sensor = None)}
=============================================================================
