------------------------------ MODULE MCRestart ------------------------------
(* Restart on a file of a few lines, no two of them alike, as lines that   *)
(* carry their time are.                                                   *)
EXTENDS Restart

AllDifferent == [i \in Ids |-> i]
=============================================================================
