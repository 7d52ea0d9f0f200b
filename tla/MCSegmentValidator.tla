------------------------- MODULE MCSegmentValidator -------------------------
(* Headers with at most one thing wrong, and records with at most one thing *)
(* wrong, numbered by a two-bit seq.                                        *)
EXTENDS SegmentValidator

CONSTANT EndIcount

SoundHeader(n) ==
  [readable |-> TRUE, sealed |-> TRUE, endHashSet |-> TRUE, bodyHashOk |-> TRUE,
   endIcount |-> EndIcount, recordCount |-> n]

MCHeaders ==
  {SoundHeader(n) : n \in 1..(SeqMax + 2)} \cup
  {[SoundHeader(2) EXCEPT !.readable = FALSE, !.sealed = FALSE],
   [SoundHeader(2) EXCEPT !.sealed = FALSE],
   [SoundHeader(2) EXCEPT !.endHashSet = FALSE],
   [SoundHeader(2) EXCEPT !.bodyHashOk = FALSE]}

Record(kind, aux, len, seq, icount) ==
  [torn |-> FALSE, kind |-> kind, aux |-> aux, undefined |-> FALSE, padZero |-> TRUE,
   len |-> len, seq |-> seq, icount |-> icount, hashOk |-> TRUE]

\* Records a reader accepts in their place, and records it accepts in none.
SoundAt(seq, icount) ==
  {Record("PAD_SET", FALSE, 12, seq, icount), Record("NET_RX", FALSE, 2048, seq, icount),
   Record("unknown", TRUE, 4096, seq, icount), Record("END", TRUE, 40, seq, icount)}
DamagedAt(seq, icount) ==
  {[Record("PAD_SET", FALSE, 12, seq, icount) EXCEPT !.torn = TRUE],
   [Record("PAD_SET", FALSE, 12, seq, icount) EXCEPT !.undefined = TRUE],
   [Record("PAD_SET", FALSE, 12, seq, icount) EXCEPT !.padZero = FALSE],
   [Record("END", TRUE, 40, seq, icount) EXCEPT !.hashOk = FALSE],
   Record("END", TRUE, 39, seq, icount), Record("END", FALSE, 40, seq, icount),
   Record("NET_RX", FALSE, 2049, seq, icount), Record("NET_RX", TRUE, 4097, seq, icount)}

MCRecords ==
  UNION {SoundAt(s, i) \cup DamagedAt(s, i) : s \in 0..SeqMax, i \in 0..(EndIcount + 1)}
=============================================================================
