----------------------------- MODULE MCEncoders -----------------------------
EXTENDS Encoders
TwoDisplays == <<[x |-> 0, w |-> 3], [x |-> 3, w |-> 1]>>
OneDisplay == <<[x |-> 0, w |-> 2]>>
TheComposites == {TwoDisplays, OneDisplay}
TheDamages == {{0, 1}, {2, 3}}
=============================================================================
