---------------------------- MODULE StreamFramer ----------------------------
(***************************************************************************)
(* modbus_sim.server.StreamFramer: reassembly of a TCP byte stream into    *)
(* Modbus ADUs.  The peer's byte stream is fixed in advance; how TCP cuts  *)
(* it into the chunks that reader.read returns is not.  Each Feed hands    *)
(* one chunk to the framer, and the while loop of feed() then runs         *)
(* _next_frame until it returns None or raises ProtocolError.              *)
(***************************************************************************)
EXTENDS Frame

CONSTANTS
  Streams,     \* the byte streams a peer may send on one connection
  READ_CHUNK  \* the most bytes one reader.read returns

ASSUME StreamsAssumption == Streams \subseteq Seq(Byte)
ASSUME ChunkAssumption   == READ_CHUNK \in Nat \ {0}

VARIABLES
  stream,   \* what the peer sends, in full
  arrived,  \* how many of its bytes feed() has been given
  buffer,   \* self._buffer
  frames,   \* every ADU yielded so far, with the offset it was cut from
  status    \* where the consumer of feed() stands

vars == <<stream, arrived, buffer, frames, status>>

(* "reading": feed() is exhausted, the handler awaits the next chunk.      *)
(* "framing": inside the while loop of feed().                             *)
(* "failed":  _next_frame raised ProtocolError, the connection is closed.  *)
Status == {"reading", "framing", "failed"}

Consumed == arrived - Len(buffer)   \* offset in the stream of buffer's start

Init ==
  /\ stream \in Streams
  /\ arrived = 0
  /\ buffer = <<>>
  /\ frames = <<>>
  /\ status = "reading"

-----------------------------------------------------------------------------
(* Mutants of Extended: the new chunk goes in front of what was buffered;  *)
(* it is added twice; a half packet is dropped when the next chunk comes.  *)
Prepended(chunk)         == chunk \o buffer
ExtendedTwice(chunk)     == buffer \o chunk \o chunk
HalfPacketDropped(chunk) == chunk

(* self._buffer.extend(data). *)
Extended(chunk) == buffer \o chunk

(* feed(), called with a chunk of n bytes. *)
Feed(n) ==
  /\ status = "reading"
  /\ arrived + n <= Len(stream)
  /\ buffer' = Extended(SubSeq(stream, arrived + 1, arrived + n))
  /\ arrived' = arrived + n
  /\ status' = "framing"
  /\ UNCHANGED <<stream, frames>>

(* Mutant of Incomplete: the length is looked at once the frame is whole. *)
IncompleteUnchecked(data) == HasHeader(data) => Len(data) < Total(data)

(* _next_frame returns None: a partial header, or a partial frame. *)
Incomplete(data) ==
  HasHeader(data) => LengthInRange(data) /\ Len(data) < Total(data)

AwaitMore ==
  /\ status = "framing"
  /\ Incomplete(buffer)
  /\ status' = "reading"
  /\ UNCHANGED <<stream, arrived, buffer, frames>>

(* _next_frame raises ProtocolError. *)
RejectLength ==
  /\ status = "framing"
  /\ HasHeader(buffer)
  /\ ~LengthInRange(buffer)
  /\ status' = "failed"
  /\ UNCHANGED <<stream, arrived, buffer, frames>>

FirstAdu(data) == SubSeq(data, 1, Total(data))

(* Mutant of AfterFrame: "if" in place of "while", one frame per chunk. *)
AfterOnlyFrame == "reading"

AfterFrame == "framing"

(* _next_frame cuts one complete ADU off the buffer and feed() yields it. *)
YieldFrame ==
  /\ status = "framing"
  /\ HasHeader(buffer)
  /\ LengthInRange(buffer)
  /\ Len(buffer) >= Total(buffer)
  /\ frames' = Append(frames, [start |-> Consumed, adu |-> FirstAdu(buffer)])
  /\ buffer' = SubSeq(buffer, Total(buffer) + 1, Len(buffer))
  /\ status' = AfterFrame
  /\ UNCHANGED <<stream, arrived>>

Next ==
  \/ \E n \in 1..READ_CHUNK : Feed(n)
  \/ AwaitMore
  \/ RejectLength
  \/ YieldFrame

Spec == Init /\ [][Next]_vars

-----------------------------------------------------------------------------
FrameRecord == [start : Nat, adu : Seq(Byte)]

(* The variables stay in their types, and the buffer never holds more than *)
(* has arrived.                                                            *)
TypeOK ==
  /\ stream \in Streams
  /\ arrived \in 0..Len(stream)
  /\ buffer \in Seq(Byte)
  /\ Len(buffer) <= arrived
  /\ frames \in Seq(FrameRecord)
  /\ status \in Status

(* The buffer is exactly the part of the stream that has arrived and has   *)
(* not been yielded: extend and del lose, duplicate and reorder nothing.   *)
BufferIsWindow == buffer = SubSeq(stream, Consumed + 1, arrived)

EndOf(f) == f.start + Len(f.adu)

(* The yielded frames tile the consumed prefix of the stream: the first    *)
(* starts at byte 0, each starts where the one before it ended, the last   *)
(* ends where the buffer starts, and each holds the stream's own bytes.    *)
FramesTileStream ==
  /\ \A i \in 1..Len(frames) :
       /\ frames[i].adu = SubSeq(stream, frames[i].start + 1, EndOf(frames[i]))
       /\ frames[i].start = IF i = 1 THEN 0 ELSE EndOf(frames[i - 1])
  /\ Consumed = IF frames = <<>> THEN 0 ELSE EndOf(frames[Len(frames)])

(* What bytes five and six declare, without the framer's own operators.    *)
Declared(data) == 256 * data[5] + data[6]

(* Every yielded ADU has a header and at least a function code behind it,  *)
(* and is as long as bytes five and six say, plus the six bytes they do    *)
(* not count.                                                              *)
FramesMatchHeader ==
  \A i \in 1..Len(frames) :
    LET adu == frames[i].adu
    IN  Len(adu) >= 8 /\ Len(adu) = 6 + Declared(adu)

(* No frame handed on is longer than MAX_ADU_LEN, which is what the        *)
(* comment on the length field's range promises ("at most a full ADU minus *)
(* the 6 bytes preceding the length field").                               *)
FramesFitAdu == \A i \in 1..Len(frames) : Len(frames[i].adu) <= MAX_ADU_LEN

(* When feed() has returned, what is left is only ever the beginning of a  *)
(* legal frame, so a connection's buffer never reaches                     *)
(* LENGTH_PREFIX + MAX_LENGTH_FIELD bytes between reads and never exceeds  *)
(* that plus one chunk while the loop runs.                                *)
BufferBounded ==
  /\ status = "reading" => Len(buffer) < LENGTH_PREFIX + MAX_LENGTH_FIELD
  /\ Len(buffer) < LENGTH_PREFIX + MAX_LENGTH_FIELD + READ_CHUNK

(* A length field that is out of range is refused as soon as its header    *)
(* has arrived: the handler never goes back to reading behind one, and it  *)
(* only gives up on a stream that really has one at a frame boundary.  The *)
(* values refused are those around which the tests draw the line: 0, 1,    *)
(* 261 and 65535 (tests/test_server.py:79).                                *)
BadLengthRefused ==
  LET legal == 2 <= Declared(buffer) /\ Declared(buffer) <= 260
  IN  /\ status = "reading" /\ Len(buffer) >= 7 => legal
      /\ status = "failed" => Len(buffer) >= 7 /\ ~legal

(* Reference definition: the complete frames at the head of data, found    *)
(* on the whole byte string at once.                                       *)
FramesIn(data) ==
  LET from[o \in 0..Len(data)] ==
        LET rest == SubSeq(data, o + 1, Len(data))
        IN  IF HasHeader(rest) /\ LengthInRange(rest) /\ Len(rest) >= Total(rest)
            THEN <<SubSeq(rest, 1, Total(rest))>> \o from[o + Total(rest)]
            ELSE <<>>
  IN  from[0]

(* Half packets, sticky packets and single bytes are all the same: once    *)
(* feed() has returned, the frames yielded so far are those of the bytes   *)
(* that have arrived, however TCP cut them into chunks.                    *)
ChunkingIsIrrelevant ==
  status # "framing" =>
    [i \in 1..Len(frames) |-> frames[i].adu] = FramesIn(SubSeq(stream, 1, arrived))
=============================================================================
