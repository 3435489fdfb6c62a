------------------------------- MODULE MCDrain -------------------------------
(* Drain on a file of a few lines, under several configurations at once;   *)
(* waves only where batches span chunks.  ParallelRead is checked on every *)
(* file of FileBytes bytes, listed at every size, with every read seeing   *)
(* what was listed or more.                                                *)
EXTENDS Drain, ParallelRead

CONSTANTS Batches, Multiline, From, Parallel, FileBytes

MCConfigs ==
    {c \in [batch : Batches, multiline : Multiline, from : From, parallel : Parallel] :
        c.parallel => c.batch # 0}

ASSUME WavesAreExact ==
    \A nl \in SUBSET (0 .. (FileBytes - 1)), off \in 0 .. 1, listed \in 2 .. FileBytes :
        \A vis \in [Segments(off, listed) -> listed .. FileBytes] :
            LET answers == Answers(nl, vis, off, listed)
            IN  /\ JoinIsExact(nl, answers, off)
                /\ LastWaveReachesEnd(nl, answers, off, listed)
                /\ WavesTile(nl, vis, answers, off, listed)
=============================================================================
