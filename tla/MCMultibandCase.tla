-------------------------- MODULE MCMultibandCase --------------------------
(* An instance of MultibandCase for TLC: two bands, locks at the start     *)
(* attenuations, below them and apart, backoffs that reach the attenuator's*)
(* maximum, and the case run up to three times.                            *)
EXTENDS MultibandCase

CONSTANTS b1, b2

MCBandOrder == <<b1, b2>>
MCStart == [b \in Bands |-> 2]
MCLocks == {[b \in Bands |-> 2], [b \in Bands |-> 1],
            [b \in Bands |-> IF b = b1 THEN 1 ELSE 2]}
MCBackoffs == <<1, 0, 2>>
=============================================================================
