--------------------------- MODULE MCStreamFramer ---------------------------
(***************************************************************************)
(* Model values for StreamFramer: short streams that mix half, sticky,     *)
(* minimal, foreign and malformed frames, and long ones whose length field *)
(* sits on either side of MAX_LENGTH_FIELD.                                *)
(***************************************************************************)
EXTENDS StreamFramer

\* A header whose length field need not agree with what follows it.
Header(tid, pid, length, unit) ==
  PackWord(tid) \o PackWord(pid) \o PackWord(length) \o <<unit>>
Bytes(n) == [i \in 1..n |-> 2]

Read     == BuildAdu(258, 1, <<3, 0, 0, 0, 4>>)
Minimal  == BuildAdu(1, 9, <<43>>)
Foreign  == Header(7, 7, 6, 1) \o <<3, 0, 0, 0, 1>>
Empty    == Header(1, 0, 1, 1)
Full(length) == Header(3, 0, length, 1) \o Bytes(length - 1)

MCStreams ==
  { Read \o Minimal \o Foreign,               \* three sticky frames
    Minimal \o SubSeq(Read, 1, 9),            \* peer closes mid-frame
    Foreign \o SubSeq(Read, 1, 5),            \* peer closes mid-header
    Minimal \o Empty \o Read,                 \* bad length behind a good frame
    Header(1, 0, 0, 1) \o Minimal,
    Full(MAX_LENGTH_FIELD) \o Minimal,
    Minimal \o Full(MAX_LENGTH_FIELD + 1) \o Read }
=============================================================================
