----------------------------- MODULE MCErrorLogs -----------------------------
(* ErrorLogs with a few lines, some of them older than the first poll.     *)
EXTENDS ErrorLogs

MCFiles == {Realtime, Running}

MCCheckpoints == [marker : Positions, size : Positions, lastWritten : Periods]
=============================================================================
