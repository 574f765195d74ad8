------------------------- MODULE MCMultibandSearch -------------------------
(* An instance of MultibandSearch for TLC: two bands that drive one PA.    *)
EXTENDS MultibandSearch

CONSTANTS b1, b2

MCStart == [b \in Bands |-> IF b = b1 THEN 3 ELSE 1]
MCFloor == [b \in Bands |-> IF b = b1 THEN 1 ELSE 0]
MCGain == [b \in Bands |-> GainMax]
MCLevels == [b \in Bands |-> IF b = b1 THEN -1 ELSE 0]

(* Less attenuation, more compression: twice as much on the band's own as  *)
(* on the other's.                                                         *)
Other(b) == IF b = b1 THEN b2 ELSE b1
MCErrors(b, at) == {2 * (at[b] - 1) + at[Other(b)] - 2}
MCJointErrors(at) == {at[b1] + at[b2] - 3}

(* The PA clips at full drive; at the start the slope may misread.         *)
Clipping(at) ==
  IF at[b1] + at[b2] <= 1 THEN {TRUE}
  ELSE IF at[b1] + at[b2] \in {2, 4} THEN BOOLEAN ELSE {FALSE}
MCSlopes(b, at) == Clipping(at)
MCJointSlopes(at) == Clipping(at)
=============================================================================
