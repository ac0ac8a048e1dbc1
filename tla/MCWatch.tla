------------------------------- MODULE MCWatch -------------------------------
\* Watch, bounded for TLC: two sensors, so that one alarm can follow another
\* from a different sensor, and a channel with room for one alert.
EXTENDS Watch, TLC

CONSTANTS u1, u2, t1, input, screen

TwoUsers == {u1, u2}
OneUser == {u1}
OneTimer == {t1}
BothSensors == {input, screen}
OneSensor == {input}

\* What the users of each instance do.
Answering == {"arm", "disable"}
Guarding == {"arm", "disarm", "dismiss", "pause", "test", "configure"}
Pausing == {"arm", "disarm", "pause"}
Toggling == {"arm", "disarm"}
Disabling == {"pause", "disable", "test", "arm"}
Configuring == {"arm", "configure"}
Switching == {"arm", "disarm", "dismiss"}

\* The two users are interchangeable: no property names one of them.
UserSymmetry == Permutations(TwoUsers)
=============================================================================
