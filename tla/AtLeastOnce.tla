----------------------------- MODULE AtLeastOnce -----------------------------
(***************************************************************************)
(* What rdstail promises about one log file: lines reach the sink from the *)
(* origin on, none ahead of an earlier one, and the durable position never *)
(* passes a line the sink has not acknowledged and never moves back.       *)
(***************************************************************************)
EXTENDS Integers

CONSTANT MaxLines   \* the file never has more lines than this

VARIABLES
    written,    \* lines in the file
    origin,     \* delivery is promised for the lines after this one
    delivered,  \* lines the sink has acknowledged at least once
    committed   \* lines before this durable position are never read again

avars == <<written, origin, delivered, committed>>

AInit ==
    /\ written = 0
    /\ origin = 0
    /\ delivered = {}
    /\ committed = 0

Grow ==
    /\ written' \in (written + 1) .. MaxLines
    /\ UNCHANGED <<origin, delivered, committed>>

(* A new file under start_from = end: nothing before its tail is wanted.   *)
SkipTo ==
    /\ delivered = {}
    /\ committed = 0
    /\ origin' \in 0 .. written
    /\ committed' = origin'
    /\ UNCHANGED <<written, delivered>>

(* Lines lo+1 .. hi reach the sink, perhaps again, perhaps without the     *)
(* worker learning of it.                                                  *)
DeliverTo ==
    /\ \E lo, hi \in origin .. written :
         /\ (origin + 1) .. lo \subseteq delivered
         /\ delivered' = delivered \union ((lo + 1) .. hi)
    /\ UNCHANGED <<written, origin, committed>>

Commit ==
    /\ committed' \in committed .. written
    /\ (origin + 1) .. committed' \subseteq delivered
    /\ UNCHANGED <<written, origin, delivered>>

ANext == Grow \/ SkipTo \/ DeliverTo \/ Commit

ASpec == AInit /\ [][ANext]_avars
=============================================================================
