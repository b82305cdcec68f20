------------------------- MODULE StreamFramerProofs -------------------------
(***************************************************************************)
(* Proofs about StreamFramer, for every set of streams and chunk size.     *)
(* The inductive invariant is the conjunction of the six safety            *)
(* invariants, two of them in the framer's own terms: FramesTileStream and *)
(* FramesAreLegal describe a yielded frame by the stream, so they need     *)
(* BufferIsWindow, which says that the buffer it was cut from still was    *)
(* the stream.                                                             *)
(***************************************************************************)
EXTENDS StreamFramer, DataLemmas

(* A byte is a natural number.                                             *)
LEMMA ByteIsNat ==
  ASSUME NEW b \in Byte
  PROVE  b \in Nat
BY DEF Byte

(* DecodeMbap of at least a full header yields a natural length field.     *)
LEMMA LengthFieldIsNat ==
  ASSUME NEW data \in Seq(Byte), HasHeader(data)
  PROVE  LengthField(data) \in Nat
<1>1. data[5] \in Byte /\ data[6] \in Byte
  BY ElementOfSeq DEF HasHeader, MBAP_HEADER_LEN
<1>2. data[5] \in Nat /\ data[6] \in Nat
  BY <1>1, ByteIsNat
<1>3. LengthField(data) = UnpackWord(data[5], data[6])
  BY DEF LengthField, DecodeMbap
<1> QED
  BY <1>2, <1>3 DEF UnpackWord

(* A legal declared length makes the ADU 8 to 266 bytes long.              *)
LEMMA TotalBounds ==
  ASSUME NEW data \in Seq(Byte), HasHeader(data), LengthInRange(data)
  PROVE  /\ Total(data) \in Nat
         /\ Total(data) > MBAP_HEADER_LEN
         /\ Total(data) <= LENGTH_PREFIX + MAX_LENGTH_FIELD
<1> DEFINE len == LengthField(data)
<1>1. len \in Nat
  BY LengthFieldIsNat
<1>2. 2 <= len /\ len <= 260 /\ Total(data) = 6 + len
  BY DEF LengthInRange, Total, LENGTH_PREFIX, MIN_LENGTH_FIELD, MAX_LENGTH_FIELD
<1> HIDE DEF len
<1> QED
  BY <1>1, <1>2 DEF LENGTH_PREFIX, MBAP_HEADER_LEN, MAX_LENGTH_FIELD

(* The header of data is read from its first seven bytes alone.            *)
LEMMA HeaderOfPrefix ==
  ASSUME NEW data \in Seq(Byte), NEW n \in 0..Len(data), n >= MBAP_HEADER_LEN
  PROVE  /\ SubSeq(data, 1, n) \in Seq(Byte)
         /\ Len(SubSeq(data, 1, n)) = n
         /\ HasHeader(SubSeq(data, 1, n))
         /\ LengthField(SubSeq(data, 1, n)) = LengthField(data)
<1> DEFINE head == SubSeq(data, 1, n)
<1>1. /\ head \in Seq(Byte)
      /\ Len(head) = n
      /\ \A i \in 1..n : head[i] = data[i]
  <2>1. \A i \in 1..n : data[i] \in Byte
    BY ElementOfSeq
  <2> QED
    BY <2>1, SubSeqProperties
<1>2. head[5] = data[5] /\ head[6] = data[6]
  BY <1>1 DEF MBAP_HEADER_LEN
<1>3. HasHeader(head)
  BY <1>1 DEF HasHeader
<1>4. /\ LengthField(head) = UnpackWord(head[5], head[6])
      /\ LengthField(data) = UnpackWord(data[5], data[6])
  BY DEF LengthField, DecodeMbap
<1> HIDE DEF head
<1>5. LengthField(head) = LengthField(data)
  BY <1>2, <1>4
<1> QED
  BY <1>1, <1>3, <1>5 DEF head

(* A window of a window is a window.                                       *)
LEMMA WindowOfWindow ==
  ASSUME NEW s \in Seq(Byte), NEW i \in 1..Len(s), NEW j \in 1..Len(s),
         NEW m \in 1 .. j-i+1, NEW n \in 1 .. j-i+1
  PROVE  SubSeq(SubSeq(s, i, j), m, n) = SubSeq(s, i+m-1, i+n-1)
<1> DEFINE outer == SubSeq(s, i, j)
           inner == SubSeq(outer, m, n)
           direct == SubSeq(s, i+m-1, i+n-1)
<1>1. /\ Len(s) \in Nat /\ i \in Int /\ j \in Int /\ m \in Int /\ n \in Int
      /\ i+m-1 \in Int /\ i+n-1 \in Int
  BY LenProperties
<1>2. /\ Len(outer) = IF i <= j THEN j-i+1 ELSE 0
      /\ \A k \in 1 .. j-i+1 : outer[k] = s[i+k-1]
      /\ \A k \in 1 .. j-i+1 : outer[k] \in Byte
  <2>1. \A k \in i..j : s[k] \in Byte
    BY <1>1, ElementOfSeq
  <2>2. /\ outer \in Seq(Byte)
        /\ Len(outer) = IF i <= j THEN j-i+1 ELSE 0
        /\ \A k \in 1 .. j-i+1 : outer[k] = s[i+k-1]
    BY <1>1, <2>1, SubSeqProperties
  <2>3. \A k \in 1 .. j-i+1 : i+k-1 \in i..j
    BY <1>1
  <2> QED
    BY <2>1, <2>2, <2>3
<1> HIDE DEF outer
<1>3. /\ inner \in Seq(Byte)
      /\ Len(inner) = IF m <= n THEN n-m+1 ELSE 0
      /\ \A k \in 1 .. n-m+1 : inner[k] = outer[m+k-1]
  <2>1. \A k \in m..n : outer[k] \in Byte
    BY <1>1, <1>2
  <2> QED
    BY <1>1, <2>1, SubSeqProperties
<1>4. /\ direct \in Seq(Byte)
      /\ Len(direct) = IF m <= n THEN n-m+1 ELSE 0
      /\ \A k \in 1 .. n-m+1 : direct[k] = s[i+(m+k-1)-1]
  <2> DEFINE lo == i+m-1
             hi == i+n-1
  <2>1. \A k \in lo..hi : s[k] \in Byte
    BY <1>1, ElementOfSeq
  <2>2. lo \in Int /\ hi \in Int
    BY <1>1
  <2>3. /\ hi-lo+1 = n-m+1 /\ (lo <= hi <=> m <= n)
        /\ \A k \in 1 .. n-m+1 : lo+k-1 = i+(m+k-1)-1
    BY <1>1
  <2>4. direct = SubSeq(s, lo, hi)
    OBVIOUS
  <2> HIDE DEF lo, hi, direct
  <2>5. /\ SubSeq(s, lo, hi) \in Seq(Byte)
        /\ Len(SubSeq(s, lo, hi)) = IF lo <= hi THEN hi-lo+1 ELSE 0
        /\ \A k \in 1 .. hi-lo+1 : SubSeq(s, lo, hi)[k] = s[lo+k-1]
    BY <2>1, <2>2, SubSeqProperties
  <2> QED
    BY <2>3, <2>4, <2>5
<1>5. \A k \in 1 .. n-m+1 : inner[k] = direct[k]
  <2>1. \A k \in 1 .. n-m+1 : m+k-1 \in 1 .. j-i+1
    BY <1>1
  <2> HIDE DEF inner, direct
  <2> QED
    BY <1>2, <1>3, <1>4, <2>1
<1>6. \A k \in 1..Len(inner) : inner[k] = direct[k]
  <2> HIDE DEF inner, direct
  <2> QED
    BY <1>1, <1>3, <1>5
<1>7. Len(inner) = Len(direct)
  BY <1>3, <1>4
<1>8. inner = direct
  <2> HIDE DEF inner, direct
  <2> QED
    BY <1>3, <1>4, <1>6, <1>7, SeqEqual
<1> QED
  BY <1>8 DEF inner, direct, outer

(* What bytes five and six declare is what the framer takes for the length *)
(* field, and 2 to 260 is what it takes for legal.                         *)
LEMMA DeclaredIsLength ==
  ASSUME NEW data \in Seq(Byte), HasHeader(data)
  PROVE  /\ LengthInRange(data) <=> 2 <= Declared(data) /\ Declared(data) <= 260
         /\ Declared(data) \in Nat /\ Total(data) = 6 + Declared(data)
<1>1. Declared(data) = LengthField(data)
  BY DEF Declared, LengthField, DecodeMbap, UnpackWord
<1>2. LengthInRange(data) <=> 2 <= LengthField(data) /\ LengthField(data) <= 260
  BY DEF LengthInRange, MIN_LENGTH_FIELD, MAX_LENGTH_FIELD
<1>3. Total(data) = 6 + LengthField(data)
  BY DEF Total, LENGTH_PREFIX
<1> QED
  BY Zenon, <1>1, <1>2, <1>3, LengthFieldIsNat

-----------------------------------------------------------------------------
(* FramesMatchHeader and BadLengthRefused, in the framer's own terms.      *)
FramesAreLegal ==
  \A i \in 1..Len(frames) :
    LET adu == frames[i].adu
    IN  HasHeader(adu) /\ LengthInRange(adu) /\ Len(adu) = Total(adu)

RefusedByRange ==
  /\ status = "reading" /\ HasHeader(buffer) => LengthInRange(buffer)
  /\ status = "failed" => HasHeader(buffer) /\ ~LengthInRange(buffer)

IInv ==
  /\ TypeOK
  /\ BufferIsWindow
  /\ FramesTileStream
  /\ FramesAreLegal
  /\ BufferBounded
  /\ RefusedByRange

LEMMA InitEstablishesIInv == Init => IInv
<1> SUFFICES ASSUME Init PROVE IInv
  OBVIOUS
<1>1. stream \in Seq(Byte) /\ Len(stream) \in Nat
  BY StreamsAssumption DEF Init
<1>2. TypeOK
  BY <1>1 DEF Init, TypeOK, Status, FrameRecord
<1>3. BufferIsWindow
  BY <1>1, SubSeqEmpty DEF Init, BufferIsWindow, Consumed
<1>4. FramesTileStream /\ FramesAreLegal
  <2>1. frames = <<>> /\ arrived = 0 /\ Len(<<>>) = 0
    BY EmptySeq DEF Init
  <2>2. Len(frames) = 0
    BY <2>1
  <2>3. Len(buffer) = 0
    BY <2>1 DEF Init
  <2>4. Consumed = 0
    BY <2>1, <2>3 DEF Consumed
  <2> QED
    BY <2>1, <2>2, <2>4 DEF FramesTileStream, FramesAreLegal
<1>5. BufferBounded
  BY ChunkAssumption DEF Init, BufferBounded, LENGTH_PREFIX, MAX_LENGTH_FIELD
<1>6. RefusedByRange
  BY DEF Init, RefusedByRange, HasHeader, MBAP_HEADER_LEN
<1> QED
  BY <1>2, <1>3, <1>4, <1>5, <1>6 DEF IInv

(* feed() extends the buffer by the chunk: the window grows at its end.    *)
LEMMA FeedKeepsIInv ==
  ASSUME IInv, NEW n \in 1..READ_CHUNK, Feed(n)
  PROVE  IInv'
<1> DEFINE chunk == SubSeq(stream, arrived + 1, arrived + n)
<1>1. /\ stream \in Seq(Byte) /\ Len(stream) \in Nat
      /\ arrived \in Nat /\ n \in Nat
      /\ arrived + n <= Len(stream)
      /\ buffer \in Seq(Byte) /\ Len(buffer) \in Nat /\ Len(buffer) <= arrived
  BY StreamsAssumption, ChunkAssumption, LenProperties DEF IInv, TypeOK, Feed
<1>2. chunk \in Seq(Byte) /\ Len(chunk) = n
  <2>1. \A i \in arrived + 1 .. arrived + n : stream[i] \in Byte
    BY <1>1, ElementOfSeq
  <2> QED
    BY <1>1, <2>1, SubSeqProperties
<1>3. buffer' \in Seq(Byte) /\ Len(buffer') = Len(buffer) + n
  BY <1>1, <1>2, ConcatProperties DEF Feed, Extended
<1>4. Consumed' = Consumed
  BY SMTT(30), <1>1, <1>3 DEF Consumed, Feed
<1>5. TypeOK'
  BY <1>1, <1>3 DEF IInv, TypeOK, Feed, Status
<1>6. BufferIsWindow'
  <2>1. buffer = SubSeq(stream, Consumed + 1, arrived)
    BY DEF IInv, BufferIsWindow
  <2>2. Consumed + 1 \in 1..Len(stream) + 1
    BY <1>1 DEF Consumed
  <2>3. buffer \o chunk = SubSeq(stream, Consumed + 1, arrived + n)
    <3>1. arrived \in (Consumed + 1) - 1 .. Len(stream)
      BY <1>1 DEF Consumed
    <3>2. arrived + n \in arrived .. Len(stream)
      BY <1>1
    <3> QED
      BY <1>1, <2>1, <2>2, <3>1, <3>2, ConcatAdjacentSubSeq
  <2> QED
    BY <1>4, <2>3 DEF BufferIsWindow, Feed, Extended
<1>7. FramesTileStream' /\ FramesAreLegal'
  BY <1>4 DEF IInv, FramesTileStream, FramesAreLegal, EndOf, Feed
<1>8. BufferBounded'
  BY <1>1, <1>3, ChunkAssumption
     DEF IInv, BufferBounded, Feed, LENGTH_PREFIX, MAX_LENGTH_FIELD
<1>9. RefusedByRange'
  BY DEF RefusedByRange, Feed
<1> QED
  BY <1>5, <1>6, <1>7, <1>8, <1>9 DEF IInv

(* _next_frame returns None: the buffer holds less than a legal frame.     *)
LEMMA AwaitMoreKeepsIInv ==
  ASSUME IInv, AwaitMore
  PROVE  IInv'
<1>1. buffer \in Seq(Byte) /\ Len(buffer) \in Nat
  BY LenProperties DEF IInv, TypeOK
<1>2. TypeOK'
  BY DEF IInv, TypeOK, AwaitMore, Status
<1>3. BufferIsWindow' /\ FramesTileStream' /\ FramesAreLegal'
  BY DEF IInv, BufferIsWindow, FramesTileStream, FramesAreLegal, Consumed, AwaitMore
<1>4. BufferBounded'
  <2>1. Len(buffer) < LENGTH_PREFIX + MAX_LENGTH_FIELD
    <3>1. CASE ~HasHeader(buffer)
      BY <1>1, <3>1 DEF HasHeader, MBAP_HEADER_LEN, LENGTH_PREFIX, MAX_LENGTH_FIELD
    <3>2. CASE HasHeader(buffer) /\ LengthInRange(buffer) /\ Len(buffer) < Total(buffer)
      <4>1. /\ Total(buffer) \in Nat
            /\ Total(buffer) <= LENGTH_PREFIX + MAX_LENGTH_FIELD
        BY <1>1, <3>2, TotalBounds
      <4> QED
        BY <1>1, <3>2, <4>1 DEF LENGTH_PREFIX, MAX_LENGTH_FIELD
    <3> QED
      BY <3>1, <3>2 DEF AwaitMore, Incomplete
  <2> QED
    BY <2>1 DEF IInv, BufferBounded, AwaitMore
<1>5. RefusedByRange'
  BY DEF RefusedByRange, AwaitMore, Incomplete
<1> QED
  BY <1>2, <1>3, <1>4, <1>5 DEF IInv

(* _next_frame raises: nothing moves but the verdict.                      *)
LEMMA RejectLengthKeepsIInv ==
  ASSUME IInv, RejectLength
  PROVE  IInv'
<1>1. TypeOK'
  BY DEF IInv, TypeOK, RejectLength, Status
<1>2. BufferIsWindow' /\ FramesTileStream' /\ FramesAreLegal'
  BY DEF IInv, BufferIsWindow, FramesTileStream, FramesAreLegal, Consumed, RejectLength
<1>3. BufferBounded' /\ RefusedByRange'
  BY DEF IInv, BufferBounded, RefusedByRange, RejectLength
<1> QED
  BY <1>1, <1>2, <1>3 DEF IInv

(* _next_frame cuts a frame off: the window's head becomes the next tile.  *)
LEMMA YieldFrameKeepsIInv ==
  ASSUME IInv, YieldFrame
  PROVE  IInv'
<1> DEFINE T == Total(buffer)
           C == Consumed
           adu == SubSeq(buffer, 1, T)
           rest == SubSeq(buffer, T + 1, Len(buffer))
           new == [start |-> C, adu |-> adu]
<1>1. /\ stream \in Seq(Byte) /\ Len(stream) \in Nat
      /\ arrived \in Nat /\ arrived <= Len(stream)
      /\ buffer \in Seq(Byte) /\ Len(buffer) \in Nat /\ Len(buffer) <= arrived
      /\ frames \in Seq(FrameRecord) /\ Len(frames) \in Nat
  BY StreamsAssumption, LenProperties DEF IInv, TypeOK
<1>2. /\ T \in Nat /\ T > MBAP_HEADER_LEN
      /\ T <= Len(buffer)
  BY <1>1, TotalBounds DEF YieldFrame
<1>3. T \in 1..Len(buffer) /\ T >= 7
  BY <1>1, <1>2 DEF MBAP_HEADER_LEN
<1>4. C \in Nat /\ C + Len(buffer) = arrived
  BY <1>1 DEF Consumed
<1>5. buffer = SubSeq(stream, C + 1, arrived)
  BY DEF IInv, BufferIsWindow
<1>6. /\ adu \in Seq(Byte) /\ Len(adu) = T
      /\ HasHeader(adu) /\ LengthField(adu) = LengthField(buffer)
  BY <1>1, <1>3, HeaderOfPrefix DEF MBAP_HEADER_LEN
<1>7. /\ buffer' = rest /\ frames' = Append(frames, new)
      /\ UNCHANGED <<stream, arrived, status>> /\ status = "framing"
  BY DEF YieldFrame, FirstAdu, AfterFrame
<1>8. LengthInRange(buffer)
  BY DEF YieldFrame
<1> HIDE DEF T, C, adu
<1>9. rest \in Seq(Byte) /\ Len(rest) = Len(buffer) - T
  <2>1. \A i \in T + 1 .. Len(buffer) : buffer[i] \in Byte
    BY <1>1, <1>3, ElementOfSeq
  <2> QED
    BY <1>1, <1>3, <2>1, SubSeqProperties
<1>10. adu = SubSeq(stream, C + 1, C + T)
  <2>1. /\ C + 1 \in 1..Len(stream) /\ arrived \in 1..Len(stream)
        /\ 1 \in 1 .. arrived - (C + 1) + 1
        /\ T \in 1 .. arrived - (C + 1) + 1
    BY <1>1, <1>3, <1>4
  <2>2. SubSeq(SubSeq(stream, C + 1, arrived), 1, T)
          = SubSeq(stream, (C + 1) + 1 - 1, (C + 1) + T - 1)
    BY <1>1, <2>1, WindowOfWindow
  <2>3. (C + 1) + 1 - 1 = C + 1 /\ (C + 1) + T - 1 = C + T
    BY <1>3, <1>4
  <2> QED
    BY <1>5, <2>2, <2>3 DEF adu
<1>11. rest = SubSeq(stream, C + T + 1, arrived)
  <2>1. CASE T = Len(buffer)
    <3>1. rest = <<>>
      BY <1>3, <2>1, SubSeqEmpty
    <3>2. SubSeq(stream, C + T + 1, arrived) = <<>>
      BY <1>1, <1>3, <1>4, <2>1, SubSeqEmpty
    <3> QED
      BY <3>1, <3>2
  <2>2. CASE T < Len(buffer)
    <3>1. /\ C + 1 \in 1..Len(stream) /\ arrived \in 1..Len(stream)
          /\ T + 1 \in 1 .. arrived - (C + 1) + 1
          /\ Len(buffer) \in 1 .. arrived - (C + 1) + 1
      BY <1>1, <1>3, <1>4, <2>2
    <3>2. SubSeq(SubSeq(stream, C + 1, arrived), T + 1, Len(buffer))
            = SubSeq(stream, (C + 1) + (T + 1) - 1, (C + 1) + Len(buffer) - 1)
      BY <1>1, <3>1, WindowOfWindow
    <3>3. /\ (C + 1) + (T + 1) - 1 = C + T + 1
          /\ (C + 1) + Len(buffer) - 1 = arrived
      BY <1>1, <1>3, <1>4
    <3> QED
      BY <1>5, <3>2, <3>3
  <2> HIDE DEF rest
  <2>3. T = Len(buffer) \/ T < Len(buffer)
    BY <1>1, <1>3
  <2> QED
    BY <2>1, <2>2, <2>3
<1> HIDE DEF rest
<1>12. Len(buffer') = Len(buffer) - T /\ Consumed' = C + T
  <2>1. Len(buffer') = Len(buffer) - T
    BY <1>7, <1>9
  <2>2. arrived' = arrived
    BY <1>7
  <2>3. Consumed' = arrived - (Len(buffer) - T)
    BY <2>1, <2>2 DEF Consumed
  <2>4. arrived - (Len(buffer) - T) = C + T
    BY <1>1, <1>3, <1>4
  <2> QED
    BY <2>1, <2>3, <2>4
<1>13. new \in FrameRecord /\ EndOf(new) = C + T
  BY <1>4, <1>6 DEF FrameRecord, EndOf
<1>14. /\ frames' \in Seq(FrameRecord)
       /\ Len(frames') = Len(frames) + 1
       /\ \A i \in 1..Len(frames) : frames'[i] = frames[i]
       /\ frames'[Len(frames) + 1] = new
  BY <1>1, <1>7, <1>13, AppendProperties
<1>15. TypeOK'
  <2>1. Len(buffer') <= arrived
    BY <1>1, <1>3, <1>12
  <2> QED
    BY <1>7, <1>9, <1>14, <2>1 DEF IInv, TypeOK
<1>16. BufferIsWindow'
  BY <1>7, <1>11, <1>12 DEF BufferIsWindow
<1>17. FramesTileStream'
  <2> SUFFICES /\ \A i \in 1..Len(frames) + 1 :
                    /\ frames'[i].adu
                         = SubSeq(stream, frames'[i].start + 1, EndOf(frames'[i]))
                    /\ frames'[i].start = IF i = 1 THEN 0 ELSE EndOf(frames'[i - 1])
               /\ C + T = IF frames' = <<>> THEN 0 ELSE EndOf(frames'[Len(frames) + 1])
    BY <1>7, <1>12, <1>14 DEF FramesTileStream
  <2>1. C + T = EndOf(frames'[Len(frames) + 1]) /\ frames' # <<>>
    BY <1>1, <1>13, <1>14, EmptySeq
  <2>2. ASSUME NEW i \in 1..Len(frames) + 1
        PROVE  /\ frames'[i].adu
                    = SubSeq(stream, frames'[i].start + 1, EndOf(frames'[i]))
               /\ frames'[i].start = IF i = 1 THEN 0 ELSE EndOf(frames'[i - 1])
    <3>1. CASE i \in 1..Len(frames)
      <4>1. frames'[i] = frames[i] /\ (i # 1 => frames'[i - 1] = frames[i - 1])
        <5>1. frames'[i] = frames[i]
          BY <1>14, <3>1
        <5>2. i # 1 => i - 1 \in 1..Len(frames)
          BY <1>1, <3>1
        <5> QED
          BY <1>14, <5>1, <5>2
      <4> QED
        BY <3>1, <4>1 DEF IInv, FramesTileStream
    <3>2. CASE i = Len(frames) + 1
      <4>1. frames'[i] = new
        BY <1>14, <3>2
      <4>2. new.adu = SubSeq(stream, new.start + 1, EndOf(new))
        BY <1>10, <1>13
      <4>3. C = IF frames = <<>> THEN 0 ELSE EndOf(frames[Len(frames)])
        BY DEF IInv, FramesTileStream, C
      <4>4. CASE frames = <<>>
        BY <1>1, <3>2, <4>1, <4>2, <4>3, <4>4, EmptySeq
      <4>5. CASE frames # <<>>
        <5>1. Len(frames) \in 1..Len(frames) /\ i - 1 = Len(frames) /\ i # 1
          BY <1>1, <3>2, <4>5, EmptySeq
        <5>2. frames'[i - 1] = frames[Len(frames)]
          BY <1>14, <5>1
        <5> QED
          BY <4>1, <4>2, <4>3, <4>5, <5>1, <5>2
      <4> QED
        BY <4>4, <4>5
    <3> QED
      BY <1>1, <3>1, <3>2
  <2> QED
    BY <2>1, <2>2
<1>18. FramesAreLegal'
  <2>1. ASSUME NEW i \in 1..Len(frames) + 1
        PROVE  /\ HasHeader(frames'[i].adu) /\ LengthInRange(frames'[i].adu)
               /\ Len(frames'[i].adu) = Total(frames'[i].adu)
    <3>1. CASE i \in 1..Len(frames)
      BY <1>14, <3>1 DEF IInv, FramesAreLegal
    <3>2. CASE i = Len(frames) + 1
      <4>1. frames'[i].adu = adu
        BY <1>14, <3>2
      <4>2. LengthInRange(adu) /\ Total(adu) = T
        BY <1>6, <1>8 DEF LengthInRange, Total, T
      <4> QED
        BY <1>6, <4>1, <4>2
    <3> QED
      BY <1>1, <3>1, <3>2
  <2> QED
    BY <1>14, <2>1 DEF FramesAreLegal
<1>19. BufferBounded'
  BY <1>1, <1>3, <1>7, <1>12, ChunkAssumption
     DEF IInv, BufferBounded, LENGTH_PREFIX, MAX_LENGTH_FIELD
<1>20. RefusedByRange'
  BY <1>7 DEF RefusedByRange
<1> QED
  BY <1>15, <1>16, <1>17, <1>18, <1>19, <1>20 DEF IInv

-----------------------------------------------------------------------------
LEMMA StepKeepsIInv == IInv /\ [Next]_vars => IInv'
<1> SUFFICES ASSUME IInv, [Next]_vars PROVE IInv'
  OBVIOUS
<1>1. CASE \E n \in 1..READ_CHUNK : Feed(n)
  BY <1>1, FeedKeepsIInv
<1>2. CASE AwaitMore
  BY <1>2, AwaitMoreKeepsIInv
<1>3. CASE RejectLength
  BY <1>3, RejectLengthKeepsIInv
<1>4. CASE YieldFrame
  BY <1>4, YieldFrameKeepsIInv
<1>5. CASE UNCHANGED vars
  BY <1>5 DEF vars, IInv, TypeOK, BufferIsWindow, FramesTileStream,
              FramesAreLegal, BufferBounded, RefusedByRange, Consumed
<1> QED
  BY <1>1, <1>2, <1>3, <1>4, <1>5 DEF Next

(* What the handler and the framer know of the buffer holds in every state. *)
THEOREM IInvHolds == Spec => []IInv
BY InitEstablishesIInv, StepKeepsIInv, PTL DEF Spec

(* The framer's variables stay in their types and the buffer never holds   *)
(* more than has arrived (StreamFramer.feed, _next_frame).                 *)
THEOREM TypeCorrect == Spec => []TypeOK
<1>1. IInv => TypeOK
  BY DEF IInv
<1> QED
  BY <1>1, IInvHolds, PTL

(* bytearray.extend and del keep the buffer equal to the part of the       *)
(* stream that arrived and was not yielded, whatever the chunks.           *)
THEOREM BufferIsAlwaysWindow == Spec => []BufferIsWindow
<1>1. IInv => BufferIsWindow
  BY DEF IInv
<1> QED
  BY <1>1, IInvHolds, PTL

(* The frames feed() yields tile the consumed prefix of the peer's stream: *)
(* no byte is lost, repeated or reordered between two frames.              *)
THEOREM FramesAlwaysTileStream == Spec => []FramesTileStream
<1>1. IInv => FramesTileStream
  BY DEF IInv
<1> QED
  BY <1>1, IInvHolds, PTL

(* Every ADU handed to _process_frame has a whole header and exactly the   *)
(* length its header declares, so adu[MBAP_HEADER_LEN:] is never empty.    *)
THEOREM FramesAlwaysMatchHeader == Spec => []FramesMatchHeader
<1>1. IInv => FramesMatchHeader
  <2> SUFFICES ASSUME IInv, NEW i \in 1..Len(frames),
                      NEW adu, adu = frames[i].adu
               PROVE  Len(adu) >= 8 /\ Len(adu) = 6 + Declared(adu)
    BY DEF FramesMatchHeader
  <2>1. adu \in Seq(Byte)
    <3>1. frames[i] \in FrameRecord
      BY ElementOfSeq DEF IInv, TypeOK
    <3> QED
      BY <3>1 DEF FrameRecord
  <2>2. HasHeader(adu) /\ LengthInRange(adu) /\ Len(adu) = Total(adu)
    BY DEF IInv, FramesAreLegal
  <2>3. /\ 2 <= Declared(adu) /\ Declared(adu) \in Nat
        /\ Len(adu) = 6 + Declared(adu)
    BY Zenon, <2>1, <2>2, DeclaredIsLength
  <2>4. \A n \in Nat : 2 <= n => 6 + n >= 8
    OBVIOUS
  <2> QED
    BY Zenon, <2>3, <2>4
<1> QED
  BY <1>1, IInvHolds, PTL

(* A connection buffers less than one maximal frame between reads, and     *)
(* less than that plus one read chunk at any time.                         *)
THEOREM BufferAlwaysBounded == Spec => []BufferBounded
<1>1. IInv => BufferBounded
  BY DEF IInv
<1> QED
  BY <1>1, IInvHolds, PTL

(* The handler never waits for more bytes behind an illegal length field,  *)
(* and only gives up on a stream that has one at a frame boundary.         *)
THEOREM BadLengthAlwaysRefused == Spec => []BadLengthRefused
<1>1. IInv => BadLengthRefused
  <2> SUFFICES ASSUME IInv PROVE BadLengthRefused
    OBVIOUS
  <2>1. HasHeader(buffer) <=> Len(buffer) >= 7
    BY DEF HasHeader, MBAP_HEADER_LEN
  <2>2. HasHeader(buffer) =>
          (LengthInRange(buffer) <=> 2 <= Declared(buffer) /\ Declared(buffer) <= 260)
    BY DeclaredIsLength DEF IInv, TypeOK
  <2> QED
    BY <2>1, <2>2 DEF IInv, RefusedByRange, BadLengthRefused
<1> QED
  BY <1>1, IInvHolds, PTL

-----------------------------------------------------------------------------
(* The frames of a byte string, and the ones that were yielded.            *)

(* The bytes from the offset o on, and whether they begin with a frame.    *)
RestFrom(data, o) == SubSeq(data, o + 1, Len(data))
Whole(data) == HasHeader(data) /\ LengthInRange(data) /\ Len(data) >= Total(data)

LEMMA RestProperties ==
  ASSUME NEW data \in Seq(Byte), NEW o \in 0..Len(data)
  PROVE  RestFrom(data, o) \in Seq(Byte) /\ Len(RestFrom(data, o)) = Len(data) - o
<1>1. Len(data) \in Nat
  BY LenProperties
<1>2. \A i \in o + 1 .. Len(data) : data[i] \in Byte
  BY <1>1, ElementOfSeq
<1> QED
  BY <1>1, <1>2, SubSeqProperties DEF RestFrom

(* FramesIn goes from frame to frame, until there is none at its offset.   *)
LEMMA FramesInRecursion ==
  ASSUME NEW data \in Seq(Byte)
  PROVE  \E from :
           /\ FramesIn(data) = from[0]
           /\ \A o \in 0..Len(data) :
                LET rest == RestFrom(data, o)
                IN  from[o] = IF Whole(rest)
                              THEN <<SubSeq(rest, 1, Total(rest))>> \o from[o + Total(rest)]
                              ELSE <<>>
<1> DEFINE N == Len(data)
           going == {o \in 0..N : Whole(RestFrom(data, o))}
           item == [o \in 0..N |-> <<SubSeq(RestFrom(data, o), 1, Total(RestFrom(data, o)))>>]
           stride == [o \in 0..N |-> Total(RestFrom(data, o))]
           Frames(f) == [o \in 0..Len(data) |->
             LET rest == SubSeq(data, o + 1, Len(data))
             IN  IF HasHeader(rest) /\ LengthInRange(rest) /\ Len(rest) >= Total(rest)
                 THEN <<SubSeq(rest, 1, Total(rest))>> \o f[o + Total(rest)]
                 ELSE <<>>]
           from == CHOOSE f : f = Frames(f)
<1>1. N \in Nat
  BY LenProperties
<1>2. \A o \in (0..N) \cap going : stride[o] \in Nat \ {0} /\ o + stride[o] <= N
  <2> SUFFICES ASSUME NEW o \in 0..N, Whole(RestFrom(data, o))
               PROVE  stride[o] \in Nat \ {0} /\ o + stride[o] <= N
    OBVIOUS
  <2>1. RestFrom(data, o) \in Seq(Byte) /\ Len(RestFrom(data, o)) = N - o
    BY RestProperties
  <2>2. Total(RestFrom(data, o)) \in Nat /\ Total(RestFrom(data, o)) > MBAP_HEADER_LEN
    BY <2>1, TotalBounds DEF Whole
  <2> QED
    BY <1>1, <2>1, <2>2 DEF Whole, MBAP_HEADER_LEN
<1>3. \E f : IsWalk(f, N, going, item, stride)
  <2> HIDE DEF N, going, item, stride
  <2> QED
    BY <1>1, <1>2, StridesExist
<1>4. \E f : f = Frames(f)
  <2>1. PICK f : IsWalk(f, N, going, item, stride)
    <3> HIDE DEF N, going, item, stride
    <3> QED
      BY <1>3
  <2>2. f = Frames(f)
    BY <2>1 DEF IsWalk, RestFrom, Whole
  <2> HIDE DEF Frames
  <2> QED
    BY <2>2
<1>5. from = Frames(from)
  <2> HIDE DEF Frames
  <2> QED
    BY <1>4
<1>6. FramesIn(data) = from[0]
  BY DEF FramesIn
<1>7. ASSUME NEW o \in 0..Len(data)
      PROVE  LET rest == RestFrom(data, o)
             IN  from[o] = IF Whole(rest)
                           THEN <<SubSeq(rest, 1, Total(rest))>> \o from[o + Total(rest)]
                           ELSE <<>>
  <2> DEFINE g == from
  <2>1. g = Frames(g)
    BY <1>5
  <2> HIDE DEF g
  <2>2. g[o] = Frames(g)[o]
    BY <2>1
  <2>3. LET rest == RestFrom(data, o)
        IN  g[o] = IF Whole(rest)
                   THEN <<SubSeq(rest, 1, Total(rest))>> \o g[o + Total(rest)]
                   ELSE <<>>
    BY <2>2 DEF RestFrom, Whole
  <2> QED
    BY <2>3 DEF g
<1> HIDE DEF from
<1> QED
  BY <1>6, <1>7

(* feed() returns only when its buffer does not begin with a frame.        *)
Drained == status = "reading" => Incomplete(buffer)

LEMMA DrainedHolds == Spec => []Drained
<1>1. Init => Drained
  BY DEF Init, Drained, Incomplete, HasHeader, MBAP_HEADER_LEN
<1>2. Drained /\ [Next]_vars => Drained'
  BY DEF Drained, Next, Feed, AwaitMore, RejectLength, YieldFrame, AfterFrame, vars
<1> QED
  BY <1>1, <1>2, PTL DEF Spec

(* A frame that was cut out of the stream is still the first one at its    *)
(* offset when more of the stream has arrived.                             *)
LEMMA CutFrameIsWhole ==
  ASSUME NEW s \in Seq(Byte), NEW n \in 0..Len(s), NEW start \in Nat,
         NEW adu \in Seq(Byte), HasHeader(adu), LengthInRange(adu), Len(adu) = Total(adu),
         start + Len(adu) <= n, adu = SubSeq(s, start + 1, start + Len(adu))
  PROVE  LET rest == RestFrom(SubSeq(s, 1, n), start)
         IN  Whole(rest) /\ Total(rest) = Len(adu) /\ SubSeq(rest, 1, Total(rest)) = adu
<1>0. PICK rest : rest = RestFrom(SubSeq(s, 1, n), start)
  OBVIOUS
<1>1. PICK T \in Nat : T = Len(adu)
  BY LenProperties
<1>2. T > 7 /\ T = Total(adu)
  BY <1>1, TotalBounds DEF MBAP_HEADER_LEN
<1>3. Len(s) \in Nat /\ n \in Nat /\ n <= Len(s) /\ start + T <= n
  BY <1>1, LenProperties
<1>4. rest = SubSeq(s, start + 1, n)
  <2>1. Len(SubSeq(s, 1, n)) = n
    <3>1. \A i \in 1..n : s[i] \in Byte
      BY <1>3, ElementOfSeq
    <3> QED
      BY <1>3, <3>1, SubSeqProperties
  <2>2. /\ 1 \in 1..Len(s) /\ n \in 1..Len(s)
        /\ start + 1 \in 1..(n - 1 + 1) /\ n \in 1..(n - 1 + 1)
        /\ 1 + (start + 1) - 1 = start + 1 /\ 1 + n - 1 = n
    BY <1>2, <1>3
  <2>3. SubSeq(SubSeq(s, 1, n), start + 1, n) = SubSeq(s, 1 + (start + 1) - 1, 1 + n - 1)
    BY <2>2, WindowOfWindow
  <2> QED
    BY <1>0, <2>1, <2>2, <2>3 DEF RestFrom
<1>5. rest \in Seq(Byte) /\ Len(rest) = n - start
  <2>1. \A i \in start + 1 .. n : s[i] \in Byte
    BY <1>3, ElementOfSeq
  <2>2. start + 1 \in Int /\ n \in Int /\ start + 1 <= n /\ n - (start + 1) + 1 = n - start
    BY <1>2, <1>3
  <2>3. /\ SubSeq(s, start + 1, n) \in Seq(Byte)
        /\ Len(SubSeq(s, start + 1, n)) = n - (start + 1) + 1
    BY <2>1, <2>2, SubSeqProperties
  <2> QED
    BY <1>4, <2>2, <2>3
<1>6. SubSeq(rest, 1, T) = adu
  <2>1. /\ start + 1 \in 1..Len(s) /\ n \in 1..Len(s)
        /\ 1 \in 1..(n - (start + 1) + 1) /\ T \in 1..(n - (start + 1) + 1)
        /\ (start + 1) + 1 - 1 = start + 1 /\ (start + 1) + T - 1 = start + T
    BY <1>2, <1>3
  <2>2. SubSeq(SubSeq(s, start + 1, n), 1, T)
          = SubSeq(s, (start + 1) + 1 - 1, (start + 1) + T - 1)
    BY <2>1, WindowOfWindow
  <2> QED
    BY <1>1, <1>4, <2>1, <2>2
<1>7. LengthField(adu) = LengthField(rest)
  <2>1. T \in 0..Len(rest) /\ T >= MBAP_HEADER_LEN
    BY <1>2, <1>3, <1>5 DEF MBAP_HEADER_LEN
  <2> QED
    BY <1>5, <1>6, <2>1, HeaderOfPrefix
<1>8. Total(rest) = T /\ LengthInRange(rest)
  BY <1>2, <1>7 DEF Total, LengthInRange
<1>9. HasHeader(rest) /\ Len(rest) >= T
  BY <1>2, <1>3, <1>5 DEF HasHeader, MBAP_HEADER_LEN
<1> QED
  BY <1>0, <1>1, <1>6, <1>8, <1>9 DEF Whole

(* Between two calls of feed() the yielded frames are the frames of what   *)
(* has arrived: going back from the last one, every offset where a frame   *)
(* was cut off begins the frames that follow it.                           *)
LEMMA FramesAreThoseOfTheStream ==
  ASSUME IInv, Drained, status # "framing"
  PROVE  [i \in 1..Len(frames) |-> frames[i].adu] = FramesIn(SubSeq(stream, 1, arrived))
<1>n. PICK n : n = Len(frames)
  OBVIOUS
<1>a. PICK adus : adus = [i \in 1..n |-> frames[i].adu]
  OBVIOUS
<1>d. PICK data : data = SubSeq(stream, 1, arrived)
  OBVIOUS
<1>s. PICK start : start = [k \in 1..n + 1 |-> IF k = n + 1 THEN Consumed ELSE frames[k].start]
  OBVIOUS
<1>1. /\ stream \in Seq(Byte) /\ Len(stream) \in Nat
      /\ arrived \in 0..Len(stream)
      /\ buffer \in Seq(Byte) /\ Len(buffer) \in Nat /\ Len(buffer) <= arrived
      /\ Consumed \in 0..arrived
  BY StreamsAssumption, LenProperties DEF IInv, TypeOK, Consumed
<1>2. frames \in Seq(FrameRecord) /\ n \in Nat
  BY <1>n, LenProperties DEF IInv, TypeOK
<1>3. \A k \in 1..n : frames[k].adu \in Seq(Byte) /\ frames[k].start \in Nat
  <2> SUFFICES ASSUME NEW k \in 1..n PROVE frames[k] \in FrameRecord
    BY DEF FrameRecord
  <2> QED
    BY <1>n, <1>2, ElementOfSeq
<1>4. adus \in Seq(Seq(Byte)) /\ Len(adus) = n
  BY <1>a, <1>2, <1>3
<1>5. data \in Seq(Byte) /\ Len(data) = arrived
  <2>1. \A i \in 1..arrived : stream[i] \in Byte
    BY <1>1, ElementOfSeq
  <2>2. 1 \in Int /\ arrived \in Int
    BY <1>1
  <2> QED
    BY <1>d, <1>1, <2>1, <2>2, SubSeqProperties
<1>6. start[1] = 0
  BY <1>n, <1>s, <1>2, EmptySeq DEF IInv, FramesTileStream
<1>7. \A k \in 1..n : start[k + 1] = start[k] + Len(adus[k])
  <2> SUFFICES ASSUME NEW k \in 1..n PROVE start[k + 1] = start[k] + Len(adus[k])
    OBVIOUS
  <2>0. EndOf(frames[k]) = start[k] + Len(adus[k])
    BY <1>a, <1>s, <1>2 DEF EndOf
  <2>1. CASE k = n
    BY <1>n, <1>s, <1>2, <2>0, <2>1, EmptySeq DEF IInv, FramesTileStream
  <2>2. CASE k < n
    <3>1. k + 1 \in 1..n /\ k + 1 # 1 /\ k + 1 # n + 1 /\ (k + 1) - 1 = k
      BY <1>2, <2>2
    <3>2. frames[k + 1].start = EndOf(frames[k])
      BY <1>n, <3>1 DEF IInv, FramesTileStream
    <3> QED
      BY <1>s, <1>2, <2>0, <3>1, <3>2
  <2> QED
    BY <1>2, <2>1, <2>2
<1>8. PICK from : /\ FramesIn(data) = from[0]
                  /\ \A o \in 0..Len(data) :
                       LET rest == RestFrom(data, o)
                       IN  from[o] = IF Whole(rest)
                                     THEN <<SubSeq(rest, 1, Total(rest))>> \o from[o + Total(rest)]
                                     ELSE <<>>
  BY <1>5, FramesInRecursion
<1>9. from[Consumed] = <<>>
  <2>1. buffer = RestFrom(data, Consumed)
    <3>0. RestFrom(data, Consumed) = SubSeq(data, Consumed + 1, arrived)
      BY <1>5 DEF RestFrom
    <3>1. CASE Len(buffer) = 0
      <4>1. buffer = <<>>
        BY <1>1, <3>1, EmptySeq
      <4>2. Consumed + 1 \in Int /\ arrived \in Int /\ arrived < Consumed + 1
        BY <1>1, <3>1 DEF Consumed
      <4> QED
        BY <3>0, <4>1, <4>2, SubSeqEmpty
    <3>2. CASE Len(buffer) > 0
      <4>1. buffer = SubSeq(stream, Consumed + 1, arrived)
        BY DEF IInv, BufferIsWindow
      <4>2. Consumed < arrived
        BY <1>1, <3>2 DEF Consumed
      <4>3. /\ 1 \in 1..Len(stream) /\ arrived \in 1..Len(stream)
            /\ Consumed + 1 \in 1..(arrived - 1 + 1) /\ arrived \in 1..(arrived - 1 + 1)
            /\ 1 + (Consumed + 1) - 1 = Consumed + 1 /\ 1 + arrived - 1 = arrived
        BY <1>1, <4>2
      <4>4. SubSeq(data, Consumed + 1, arrived)
              = SubSeq(stream, 1 + (Consumed + 1) - 1, 1 + arrived - 1)
        BY <1>d, <1>1, <4>3, WindowOfWindow
      <4> QED
        BY <3>0, <4>1, <4>3, <4>4
    <3> QED
      BY <1>1, <3>1, <3>2
  <2>2. ~Whole(buffer)
    <3>1. HasHeader(buffer) /\ LengthInRange(buffer) => Total(buffer) \in Nat
      BY <1>1, TotalBounds
    <3> QED
      BY <1>1, <3>1 DEF IInv, TypeOK, Status, Drained, Incomplete, RefusedByRange, Whole
  <2> QED
    BY <1>1, <1>5, <1>8, <2>1, <2>2
<1> DEFINE Suffix(k) == start[k] <= arrived /\ from[start[k]] = SubSeq(adus, k, n)
           S == {j \in Nat : j <= n => Suffix(n + 1 - j)}
<1>10. 0 \in S
  <2>1. SubSeq(adus, n + 1, n) = <<>>
    BY <1>2, SubSeqEmpty
  <2>2. start[n + 1] = Consumed
    BY <1>s, <1>2
  <2>3. Suffix(n + 1)
    <3>1. start[n + 1] <= arrived
      BY <1>1, <2>2
    <3>2. from[start[n + 1]] = SubSeq(adus, n + 1, n)
      BY <1>9, <2>1, <2>2
    <3> QED
      BY <3>1, <3>2
  <2>4. n + 1 - 0 = n + 1
    BY <1>2
  <2> HIDE DEF Suffix
  <2> QED
    BY <2>3, <2>4
<1>11. ASSUME NEW j \in Nat, j + 1 <= n, Suffix(n + 1 - j)
       PROVE  Suffix(n + 1 - (j + 1))
  <2>1. PICK k \in 1..n : k = n - j /\ n + 1 - j = k + 1 /\ n + 1 - (j + 1) = k
    BY <1>2, <1>11
  <2>a. PICK adu : adu = frames[k].adu
    OBVIOUS
  <2>o. PICK o : o = frames[k].start
    OBVIOUS
  <2>2. /\ start[k + 1] <= arrived
        /\ from[start[k + 1]] = SubSeq(adus, k + 1, n)
    BY <1>11, <2>1
  <2>3. /\ adu \in Seq(Byte) /\ o \in Nat /\ Len(adu) \in Nat
        /\ adus[k] = adu
        /\ start[k] = o
        /\ start[k + 1] = o + Len(adu)
    <3>1. adu \in Seq(Byte) /\ o \in Nat /\ Len(adu) \in Nat
      BY <1>3, <2>a, <2>o, LenProperties
    <3>2. adus[k] = adu /\ start[k] = o
      BY <1>a, <1>s, <1>2, <2>a, <2>o
    <3> QED
      BY <1>7, <3>1, <3>2
  <2>4. /\ HasHeader(adu) /\ LengthInRange(adu) /\ Len(adu) = Total(adu)
        /\ adu = SubSeq(stream, o + 1, o + Len(adu))
    BY <1>n, <2>a, <2>o DEF IInv, FramesAreLegal, FramesTileStream, EndOf
  <2>5. PICK rest : rest = RestFrom(data, o)
    OBVIOUS
  <2>6. o + Len(adu) <= arrived /\ o \in 0..arrived
    BY <1>1, <2>2, <2>3
  <2>7. Whole(rest) /\ Total(rest) = Len(adu) /\ SubSeq(rest, 1, Total(rest)) = adu
    <3>1. rest = RestFrom(SubSeq(stream, 1, arrived), o)
      BY <1>d, <2>5
    <3>2. /\ stream \in Seq(Byte) /\ arrived \in 0..Len(stream)
          /\ o \in Nat /\ adu \in Seq(Byte) /\ o + Len(adu) <= arrived
          /\ HasHeader(adu) /\ LengthInRange(adu) /\ Len(adu) = Total(adu)
          /\ adu = SubSeq(stream, o + 1, o + Len(adu))
      BY <1>1, <2>3, <2>4, <2>6
    <3>3. LET r == RestFrom(SubSeq(stream, 1, arrived), o)
          IN  Whole(r) /\ Total(r) = Len(adu) /\ SubSeq(r, 1, Total(r)) = adu
      BY ZenonT(40), <3>2, CutFrameIsWhole
    <3> QED
      BY <3>1, <3>3
  <2>8. from[o] = <<adu>> \o from[o + Len(adu)]
    BY <1>5, <1>8, <2>5, <2>6, <2>7
  <2>9. SubSeq(adus, k, n) = <<adus[k]>> \o SubSeq(adus, k + 1, n)
    <3>1. k \in 1..Len(adus) /\ n \in k..Len(adus)
      BY <1>2, <1>4
    <3> QED
      BY <1>4, <3>1, SubSeqRecursiveFirst
  <2>10. Suffix(k)
    <3>1. o <= arrived
      BY <1>1, <2>6
    <3> QED
      BY <2>2, <2>3, <2>8, <2>9, <3>1
  <2> HIDE DEF Suffix
  <2> QED
    BY <2>1, <2>10
<1>12. n \in S
  <2> HIDE DEF Suffix
  <2>1. \A j \in Nat : j \in S => j + 1 \in S
    BY <1>2, <1>11
  <2> HIDE DEF S
  <2> QED
    BY <1>2, <1>10, <2>1, SetInduction
<1>13. Suffix(1)
  <2> HIDE DEF Suffix
  <2>1. n + 1 - n = 1
    BY <1>2
  <2> QED
    BY <1>2, <1>12, <2>1
<1>14. SubSeq(adus, 1, n) = adus
  BY <1>4, SubSeqFull
<1> QED
  BY <1>n, <1>a, <1>d, <1>6, <1>8, <1>13, <1>14

(* Half packets, sticky packets and single bytes are all the same: between *)
(* two calls of feed() the frames yielded so far are those of the bytes    *)
(* that have arrived, however TCP cut the stream into chunks.              *)
THEOREM ChunkingIsAlwaysIrrelevant == Spec => []ChunkingIsIrrelevant
<1>1. IInv /\ Drained => ChunkingIsIrrelevant
  BY FramesAreThoseOfTheStream DEF ChunkingIsIrrelevant
<1> QED
  BY <1>1, IInvHolds, DrainedHolds, PTL
=============================================================================
