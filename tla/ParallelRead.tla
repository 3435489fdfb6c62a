----------------------------- MODULE ParallelRead ----------------------------
(***************************************************************************)
(* One wave of parallelDrain: Reads concurrent reads of adjacent byte      *)
(* ranges of one log file, and what their answers are joined to.           *)
(*                                                                         *)
(* A file is the set nl of the offsets of its newline bytes; it only       *)
(* grows, and each read sees the bytes below an offset of its own.  A text *)
(* is the record of the offsets [from, to) it was cut from.                *)
(***************************************************************************)
EXTENDS Integers

CONSTANTS
    Segment,    \* parallelSegment
    Reads       \* parallel_reads

ASSUME ParallelReadAssumption ==
    /\ Segment \in Nat \ {0}
    /\ Reads \in Nat \ {0, 1}

Larger(a, b) == IF a < b THEN b ELSE a
First(S) == CHOOSE x \in S : \A y \in S : x <= y
Last(S)  == CHOOSE x \in S : \A y \in S : y <= x

\* The newlines a read that sees vis bytes finds from offset p on.
Newlines(nl, vis, p) == {x \in nl : p <= x /\ x < vis}

\* Where a read that owns [start, end) may stop; end < 0 is the end of the file.
Closing(nl, vis, bufStart, end) ==
    IF end < 0 THEN {} ELSE Newlines(nl, vis, Larger(end - 1, bufStart))

(* ReadRange and cutRange: the lines that start in [start, end).  A range  *)
(* whose start need not be that of a line is read from one byte before it, *)
(* through the first newline.                                              *)
ReadRange(nl, vis, start, end, lineStart) ==
    LET bufStart == IF lineStart THEN start ELSE start - 1
        seen     == Newlines(nl, vis, bufStart)
        closing  == Closing(nl, vis, bufStart, end)
        to       == IF closing # {} THEN First(closing) + 1
                    ELSE IF seen # {} THEN Last(seen) + 1 ELSE bufStart
        from     == IF lineStart THEN start
                    ELSE IF seen # {} THEN First(seen) + 1 ELSE to
    IN  [from |-> from, to |-> Larger(from, to)]

-----------------------------------------------------------------------------
(* A wave from the line start off of a file listed with size bytes.        *)

Start(off, i) == off + i * Segment

Segments(off, size) == {i \in 0 .. (Reads - 1) : Start(off, i) < size}

End(off, size, i) == IF Start(off, i + 1) >= size THEN -1 ELSE Start(off, i + 1)

IsLastWave(off, size) == Start(off, Reads) >= size

\* The answers, read i of which sees vis[i] bytes.
Answers(nl, vis, off, size) ==
    [i \in Segments(off, size) |->
        ReadRange(nl, vis[i], Start(off, i), End(off, size, i), i = 0)]

\* Each text starts exactly where the one before it ended.
Tile(answers, off) ==
    \A i \in DOMAIN answers :
        answers[i].from = IF i = 0 THEN off ELSE answers[i - 1].to

WaveEnd(answers) == answers[Last(DOMAIN answers)].to
-----------------------------------------------------------------------------
(* What WaveRead of Drain takes from a wave.                               *)

LineStarts(nl, off) == {off} \union {x + 1 : x \in {y \in nl : off <= y}}

\* What is joined is the file's bytes from off to the start of a line, each once.
JoinIsExact(nl, answers, off) ==
    Tile(answers, off) =>
        /\ WaveEnd(answers) \in LineStarts(nl, off)
        /\ \A b \in off .. (WaveEnd(answers) - 1) :
              \E i \in DOMAIN answers : b \in answers[i].from .. (answers[i].to - 1)
        /\ \A i, j \in DOMAIN answers :
              i < j => answers[i].to <= answers[j].from

\* The last wave leaves no line behind that was complete when it was listed.
LastWaveReachesEnd(nl, answers, off, size) ==
    Tile(answers, off) /\ IsLastWave(off, size) =>
        \A x \in nl : off <= x /\ x < size => x < WaveEnd(answers)

\* A wave tiles when each read saw the line end that closes its range, and the
\* one to the end of the file a line end from its start on.
WavesTile(nl, vis, answers, off, size) ==
    (\A i \in DOMAIN answers :
        LET p == IF End(off, size, i) >= 0 THEN End(off, size, i) ELSE Start(off, i)
        IN  Newlines(nl, vis[i], p - 1) # {})
        => Tile(answers, off)
=============================================================================
