----------------------------- MODULE MCSinkChain -----------------------------
(* SinkChain with an unfiltered archive sink, then an alert sink whose     *)
(* min_severity filter passes a single batch.                              *)
EXTENDS SinkChain, TLC

CONSTANTS f1, f2, archive, alert

MCSinks  == <<archive, alert>>
MCWanted == archive :> Batches @@ alert :> {<<f1, 1>>}
MCNames  == {archive, alert}
=============================================================================
