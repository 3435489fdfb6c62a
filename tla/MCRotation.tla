----------------------------- MODULE MCRotation ------------------------------
(* Rotation over a few hours; only the first ones see more than a line.    *)
EXTENDS Rotation

CONSTANT Busy   \* hours with two lines

MCVolume == [h \in 1 .. MaxHours |-> IF h \in Busy THEN 2 ELSE 1]
=============================================================================
