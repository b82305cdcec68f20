--------------------------- MODULE ExchangeProofs ---------------------------
(***************************************************************************)
(* That what a caller asks and what the dispatcher answers survive the     *)
(* wire: the codec of modbus_sim/frame.py in both directions, for every    *)
(* request, and from it the properties of Exchange for every device, every *)
(* plan and every choice of the limits that fits one PDU.                  *)
(***************************************************************************)
EXTENDS Exchange, DataLemmas

(* The excuses for a call that fails without an answer.                    *)
Excused(r) ==
  \/ r.address \notin Word \/ r.count \notin Word
  \/ \E i \in 1..Len(r.values) :
       RegionOf(r.fc) = HOLDING_REGISTERS /\ r.values[i] \notin Word
  \/ r.fc \in MULTI_WRITE_CODES /\ ~QuantityAccepted(r)

(* A multiple write of n values that exceeds a limit which fits one PDU.   *)
LEMMA LongWritesAreOverLimit ==
  ASSUME NEW r, NEW n \in Nat, n = Len(r.values)
  PROVE  /\ r.fc = WRITE_MULTIPLE_COILS /\ 6 + CeilDiv8(n) > MAX_PDU_LEN => Excused(r)
         /\ r.fc = WRITE_MULTIPLE_REGISTERS /\ 6 + 2 * n > MAX_PDU_LEN => Excused(r)
<1>1. ASSUME r.fc = WRITE_MULTIPLE_COILS \/ r.fc = WRITE_MULTIPLE_REGISTERS,
             n \notin 1..LimitOf(r.fc)
      PROVE  Excused(r)
  <2>1. /\ r.fc \notin READ_CODES /\ r.fc \in MULTI_WRITE_CODES
        /\ r.fc \notin SINGLE_WRITE_CODES
    BY <1>1, CodesDiffer DEF SINGLE_WRITE_CODES
  <2>2. Quantity(r) = n
    BY <2>1 DEF Quantity
  <2>3. ~QuantityAccepted(r)
    BY <1>1, <2>1, <2>2, Zenon DEF QuantityAccepted
  <2> QED
    BY <2>1, <2>3, Zenon DEF Excused
<1>2. ASSUME r.fc = WRITE_MULTIPLE_COILS, 6 + CeilDiv8(n) > MAX_PDU_LEN
      PROVE  Excused(r)
  <2>1. LimitOf(r.fc) = MAX_WRITE_COILS
    BY <1>2, RegionsOfCodes
  <2>2. PICK m \in Nat : m = MAX_WRITE_COILS /\ 6 + CeilDiv8(m) <= 253
    BY LimitsAssumption, QuantitiesFitAssumption DEF MAX_PDU_LEN
  <2>3. 6 + CeilDiv8(n) > 253
    BY <1>2 DEF MAX_PDU_LEN
  <2>4. ~(n <= m)
    BY ONLY n \in Nat, m \in Nat, <2>2, <2>3 DEF CeilDiv8
  <2> QED
    BY <1>1, <1>2, <2>1, <2>2, <2>4
<1>3. ASSUME r.fc = WRITE_MULTIPLE_REGISTERS, 6 + 2 * n > MAX_PDU_LEN
      PROVE  Excused(r)
  <2>1. LimitOf(r.fc) = MAX_WRITE_REGISTERS
    BY <1>3, RegionsOfCodes
  <2>2. PICK m \in Nat : m = MAX_WRITE_REGISTERS /\ 6 + 2 * m <= 253
    BY LimitsAssumption, QuantitiesFitAssumption DEF MAX_PDU_LEN
  <2>3. 6 + 2 * n > 253
    BY <1>3 DEF MAX_PDU_LEN
  <2>4. ~(n <= m)
    BY ONLY n \in Nat, m \in Nat, <2>2, <2>3
  <2> QED
    BY <1>1, <1>3, <2>1, <2>2, <2>4
<1> QED
  BY <1>2, <1>3

(* Why a call was not sent at all.                                         *)
LEMMA UnsentIsExcused ==
  ASSUME NEW r, IsCall(r), ~Encodable(r)
  PROVE  Excused(r)
<1> SUFFICES ASSUME ~Excused(r) PROVE FALSE
  OBVIOUS
<1>1. /\ r.address \in Word /\ r.count \in Word
      /\ ~\E i \in 1..Len(r.values) :
           RegionOf(r.fc) = HOLDING_REGISTERS /\ r.values[i] \notin Word
  BY Zenon DEF Excused
<1>2. ~(/\ Len(r.values) \in Word
        /\ \A i \in 1..Len(RegistersOf(r)) : RegistersOf(r)[i] \in Word
        /\ r.fc \in MULTI_WRITE_CODES => Len(Payload(r.fc, r.values)) \in Byte)
  BY <1>1, EncodableMeans, Zenon
<1>3. ASSUME r.fc \notin {WRITE_SINGLE_REGISTER, WRITE_MULTIPLE_REGISTERS}
      PROVE  \A i \in 1..Len(RegistersOf(r)) : RegistersOf(r)[i] \in Word
  <2>1. RegistersOf(r) = <<>>
    BY <1>3, Zenon DEF RegistersOf
  <2> QED
    BY <2>1
<1>4. ASSUME r.fc \in {WRITE_SINGLE_REGISTER, WRITE_MULTIPLE_REGISTERS}
      PROVE  /\ \A i \in 1..Len(r.values) : r.values[i] \in Word
             /\ \A i \in 1..Len(RegistersOf(r)) : RegistersOf(r)[i] \in Word
  <2>1. RegionOf(r.fc) = HOLDING_REGISTERS
    BY <1>4, RegionsOfCodes
  <2>2. RegistersOf(r) = r.values
    BY <1>4, Zenon DEF RegistersOf
  <2> QED
    BY <1>1, <2>1, <2>2, Zenon
<1>5. 0 \in Word /\ 1 \in Word /\ Len(<<>>) = 0
  BY DEF Word
<1>6. CASE r.fc \in READ_CODES /\ r.values = <<>>
  <2>1. Len(r.values) \in Word
    BY <1>5, <1>6
  <2> QED
    BY <1>2, <1>3, <1>6, <2>1, CodesDiffer
<1>7. CASE r.fc = WRITE_SINGLE_COIL /\ Len(r.values) = 1
  BY <1>2, <1>3, <1>5, <1>7, CodesDiffer
<1>8. CASE r.fc = WRITE_SINGLE_REGISTER /\ Len(r.values) = 1
  BY <1>2, <1>4, <1>5, <1>8, CodesDiffer
<1>9. CASE r.fc = WRITE_MULTIPLE_COILS /\ r.values \in Seq(BOOLEAN)
  <2>1. PICK n \in Nat : n = Len(r.values)
    BY <1>9, LenProperties
  <2>2. PICK k \in Int : k = CeilDiv8(n)
    BY DEF CeilDiv8
  <2>3. ~(6 + k > 253)
    BY <1>9, <2>1, <2>2, LongWritesAreOverLimit DEF MAX_PDU_LEN
  <2>4. 0 <= k /\ k <= 255 /\ 0 <= n /\ n <= 65535
    BY ONLY n \in Nat, k \in Int, <2>2, <2>3 DEF CeilDiv8
  <2>5. Len(r.values) \in Word /\ Len(Payload(r.fc, r.values)) \in Byte
    <3>1. Len(Payload(r.fc, r.values)) = k
      BY <1>9, <2>1, <2>2, PayloadLength
    <3> QED
      BY <2>1, <2>4, <3>1, WordRange, ByteRange
  <2> QED
    BY <1>2, <1>3, <1>9, <2>5, CodesDiffer
<1>10. CASE r.fc = WRITE_MULTIPLE_REGISTERS /\ r.values \in Seq(Int)
  <2>1. PICK n \in Nat : n = Len(r.values)
    BY <1>10, LenProperties
  <2>2. r.values \in Seq(Word)
    BY <1>4, <1>10, AllWords
  <2>3. ~(6 + 2 * n > 253)
    BY <1>10, <2>1, LongWritesAreOverLimit DEF MAX_PDU_LEN
  <2>4. 0 <= 2 * n /\ 2 * n <= 255 /\ 0 <= n /\ n <= 65535
    BY ONLY n \in Nat, <2>3
  <2>5. Len(r.values) \in Word /\ Len(Payload(r.fc, r.values)) \in Byte
    <3>1. Len(Payload(r.fc, r.values)) = 2 * n
      BY <1>10, <2>1, <2>2, PayloadLength
    <3>2. 2 * n \in Int
      OBVIOUS
    <3> QED
      BY <2>1, <2>4, <3>1, <3>2, WordRange, ByteRange
  <2> QED
    BY <1>2, <1>4, <1>10, <2>5
<1> QED
  BY <1>6, <1>7, <1>8, <1>9, <1>10, CallKinds

(* How long the PDU of a request is.                                       *)
LEMMA LengthOfRequest ==
  ASSUME NEW r, Sendable(r)
  PROVE  /\ EncodeRequest(r) \in Seq(Byte) /\ EncodeRequest(r) # <<>>
         /\ Len(EncodeRequest(r)) \in 5..261
         /\ Len(EncodeRequest(r)) > MAX_PDU_LEN => Excused(r)
<1>1. PICK e : e = EncodeRequest(r)
  OBVIOUS
<1>2. e \in Strings(Byte, IF r.fc \in FiveByteCodes THEN 5
                          ELSE 6 + Len(Payload(r.fc, r.values)))
  BY <1>1, SendableSurvives DEF SurvivesWire
<1>3. CASE r.fc \in FiveByteCodes
  <2>1. 5 \in Nat /\ 5 # 0 /\ e \in Strings(Byte, 5)
    BY <1>2, <1>3
  <2>2. e # <<>> /\ Len(e) = 5 /\ e \in Seq(Byte)
    BY ONLY <2>1, NotEmpty, Zenon
  <2>3. 5 \in 5..261 /\ ~(5 > MAX_PDU_LEN)
    BY DEF MAX_PDU_LEN
  <2> QED
    BY <1>1, <2>2, <2>3
<1>4. CASE r.fc \notin FiveByteCodes
  <2>1. \/ IsWriteCoils(r)
        \/ IsWriteRegisters(r)
    BY <1>4, CodesDiffer, Zenon DEF Sendable, IsRead, IsWriteCoil, IsWriteRegister
  <2>2. PICK n \in Nat : n = Len(r.values)
    BY <2>1, LenProperties DEF IsWriteCoils, IsWriteRegisters
  <2>3. PICK k : k = Len(Payload(r.fc, r.values))
    OBVIOUS
  <2>4. k \in Byte /\ (6 + k > MAX_PDU_LEN => Excused(r))
    <3>1. CASE IsWriteCoils(r)
      <4>1. /\ r.fc = WRITE_MULTIPLE_COILS /\ r.values \in Seq(BOOLEAN)
            /\ CeilDiv8(Len(r.values)) \in Byte
        BY <3>1 DEF IsWriteCoils
      <4>2. k = CeilDiv8(n)
        BY <2>2, <2>3, <4>1, PayloadLength
      <4> QED
        BY <2>2, <4>1, <4>2, LongWritesAreOverLimit
    <3>2. CASE IsWriteRegisters(r)
      <4>1. /\ r.fc = WRITE_MULTIPLE_REGISTERS /\ r.values \in Seq(Word)
            /\ 2 * Len(r.values) \in Byte
        BY <3>2 DEF IsWriteRegisters
      <4>2. k = 2 * n
        BY <2>2, <2>3, <4>1, PayloadLength
      <4> QED
        BY <2>2, <4>1, <4>2, LongWritesAreOverLimit
    <3> QED
      BY <2>1, <3>1, <3>2
  <2>5. k \in Nat /\ 6 + k \in Nat /\ 6 + k # 0 /\ 6 + k \in 5..261
    BY <2>4 DEF Byte
  <2>6. e \in Strings(Byte, 6 + k)
    BY <1>2, <1>4, <2>3
  <2>7. e # <<>> /\ Len(e) = 6 + k /\ e \in Seq(Byte)
    BY ONLY <2>5, <2>6, NotEmpty, Zenon
  <2> QED
    BY <1>1, <2>4, <2>5, <2>7
<1> QED
  BY <1>3, <1>4

-----------------------------------------------------------------------------
(* The invariant: what is known of the exchange under way, by its stage.   *)

AsksFor(l) ==
  /\ IsPdu(l.asked)
  /\ l.item.kind = "call" =>
       Sendable(l.item.request) /\ l.asked = EncodeRequest(l.item.request)

Untried(l) ==
  l.item.kind = "none" /\ l.asked = <<>> /\ l.answered = <<>> /\ l.outcome = <<>>

Unsent(l) ==
  /\ l.asked = <<>> /\ l.answered = <<>> /\ l.outcome = Raises("struct.error")
  /\ IsCall(l.item.request) /\ ~Encodable(l.item.request)

Open(l) == AsksFor(l) /\ l.answered = <<>> /\ l.outcome = <<>>

Refused(l) ==
  /\ AsksFor(l) /\ l.answered = <<>> /\ l.outcome = Raises("IncompleteReadError")
  /\ 1 + Len(l.asked) \notin MIN_LENGTH_FIELD..MAX_LENGTH_FIELD

Answered(l, dev) ==
  LET request == DecodeRequest(l.asked)
  IN  /\ AsksFor(l)
      /\ l.answered = EncodeResponse(Response(l.before, request))
      /\ dev = Effect(l.before, request)

Done(l, dev) ==
  Answered(l, dev) /\ l.outcome = DecodeResponse(l.answered, BitCount(l.item))

Fields == {"item", "before", "asked", "answered", "outcome"}

Basics ==
  /\ plan \in Seq(Items)
  /\ tid \in 0..LAST_TID
  /\ wire \in Seq(Byte)
  /\ Holds(device)
  /\ DOMAIN last = Fields /\ Holds(last.before)

Stage ==
  \/ phase = "idle" /\ (Untried(last) \/ Unsent(last) \/ Refused(last) \/ Done(last, device))
  \/ /\ phase = "asked" /\ Open(last) /\ device = last.before
     /\ tid \in Word /\ wire = BuildAdu(tid, UNIT, last.asked)
  \/ /\ phase = "answered" /\ Answered(last, device) /\ last.outcome = <<>>
     /\ tid \in Word /\ wire = BuildAdu(tid, UNIT, last.answered)
  \/ phase = "refused" /\ Refused(last)

IInv == Basics /\ Stage

(* What _next_frame, process_pdu and _transact read in an ADU.             *)
ReadsBack(adu, t, pdu) ==
  /\ adu \in Seq(Byte)
  /\ DecodeMbap(adu).transaction_id = t /\ DecodeMbap(adu).unit_id = UNIT
  /\ LengthInRange(adu) <=> 1 + Len(pdu) \in MIN_LENGTH_FIELD..MAX_LENGTH_FIELD
  /\ Rest(adu, MBAP_HEADER_LEN + 1) = pdu
  /\ SubSeq(adu, MBAP_HEADER_LEN + 1, LENGTH_PREFIX + DecodeMbap(adu).length) = pdu

LEMMA AduReadsBack ==
  ASSUME NEW t \in Word, NEW pdu, IsPdu(pdu)
  PROVE  ReadsBack(BuildAdu(t, UNIT, pdu), t, pdu)
<1>1. PICK n \in Nat : n = Len(pdu)
  BY LenProperties DEF IsPdu
<1>2. pdu \in Strings(Byte, n) /\ 1 + n \in Word
  BY <1>1 DEF IsPdu, Strings
<1>3. PICK adu, h : adu = BuildAdu(t, UNIT, pdu) /\ h = DecodeMbap(adu)
  OBVIOUS
<1>4. /\ adu \in Strings(Byte, 7 + n)
      /\ h = [transaction_id |-> t, protocol_id |-> 0, length |-> 1 + n, unit_id |-> UNIT]
      /\ Rest(adu, 8) = pdu
      /\ SubSeq(adu, 8, 7 + n) = pdu
  BY <1>2, <1>3, AduIsHeaderAndPdu, UnitAssumption
<1>5. h.transaction_id = t /\ h.unit_id = UNIT /\ h.length = 1 + n
  BY <1>4
<1>6. LENGTH_PREFIX + h.length = 7 + n /\ MBAP_HEADER_LEN + 1 = 8
  BY <1>5 DEF LENGTH_PREFIX, MBAP_HEADER_LEN
<1>7. LengthInRange(adu) <=> 1 + n \in MIN_LENGTH_FIELD..MAX_LENGTH_FIELD
  <2>1. LengthField(adu) = 1 + n
    BY <1>3, <1>5 DEF LengthField
  <2> QED
    BY <2>1 DEF LengthInRange, MIN_LENGTH_FIELD, MAX_LENGTH_FIELD
<1>8. adu \in Seq(Byte)
  BY <1>4 DEF Strings
<1> QED
  BY <1>1, <1>3, <1>4, <1>5, <1>6, <1>7, <1>8, Zenon DEF ReadsBack

LEMMA ReplyIsPdu ==
  ASSUME NEW e, NEW fc, ReplyFits(e, fc)
  PROVE  IsPdu(e)
<1>1. PICK n \in Nat : n = Len(e)
  BY LenProperties DEF ReplyFits
<1>2. e \in Seq(Byte) /\ n <= 253
  BY <1>1 DEF ReplyFits, MAX_PDU_LEN
<1>3. 1 + n \in Int /\ 0 <= 1 + n /\ 1 + n <= 65535
  BY ONLY n \in Nat, <1>2
<1>4. 1 + n \in Word
  BY <1>3, WordRange
<1> QED
  BY <1>1, <1>2, <1>4 DEF IsPdu

LEMMA ItemsAre ==
  ASSUME NEW item \in Items
  PROVE  /\ IsRaw(item) => IsPdu(item.pdu) /\ item.kind # "call"
         /\ ~IsRaw(item) => item.kind = "call" /\ IsCall(item.request)
<1>1. \/ IsRaw(item) /\ IsPdu(item.pdu)
      \/ item.kind = "call" /\ IsCall(item.request)
  BY PlansAssumption
<1> QED
  BY <1>1 DEF IsRaw

(* The last transaction id is a positive number of 16 bits, and so are     *)
(* the ids up to it.                                                       *)
LEMMA LastTid ==
  \E top \in Nat : top = LAST_TID /\ top # 0 /\ \A n \in 0..top : n \in Word
<1>1. LAST_TID \in Word /\ LAST_TID # 0
  BY Zenon, TidAssumption
<1> QED
  BY Zenon, <1>1, WordBelow

LEMMA NextTidIsTid ==
  ASSUME tid \in 0..LAST_TID
  PROVE  NextTid \in 0..LAST_TID /\ NextTid \in Word
<1>1. PICK top \in Nat : /\ top = LAST_TID /\ top # 0
                          /\ \A n \in 0..top : n \in Word
  BY Zenon, LastTid
<1>2. PICK t : t = tid
  OBVIOUS
<1>3. t \in 0..top /\ NextTid = IF t = top THEN 1 ELSE t + 1
  BY Zenon, <1>1, <1>2 DEF NextTid
<1>4. (IF t = top THEN 1 ELSE t + 1) \in 0..top
  BY ONLY <1>1, <1>3
<1> QED
  BY Zenon, <1>1, <1>3, <1>4

LEMMA InitIInv == Init => IInv
<1> SUFFICES ASSUME Init PROVE IInv
  OBVIOUS
<1> USE DEF Init
<1>1. Holds(NewDevice)
  BY DeviceAssumption DEF Holds, Sizes
<1>2. plan \in Seq(Items)
  BY PlansAssumption
<1>3. tid \in 0..LAST_TID
  <2>1. PICK top \in Nat : top = LAST_TID
    BY Zenon, LastTid
  <2>2. 0 \in 0..top
    OBVIOUS
  <2>3. tid = 0
    OBVIOUS
  <2> QED
    BY Zenon, <2>1, <2>2, <2>3
<1>4. DOMAIN last = Fields /\ last.before = NewDevice /\ Untried(last)
  BY DEF Nothing, Untried, Fields
<1> QED
  BY <1>1, <1>2, <1>3, <1>4 DEF IInv, Basics, Stage

LEMMA AskIInv == IInv /\ Ask => IInv'
<1> SUFFICES ASSUME Basics, Ask PROVE IInv'
  BY DEF IInv
<1>1. PICK item : item = Head(plan)
  OBVIOUS
<1>2. item \in Items /\ plan' \in Seq(Items)
  BY <1>1, HeadTailProperties DEF Basics, Ask
<1>3. tid' = NextTid /\ tid' \in 0..LAST_TID /\ tid' \in Word
  BY NextTidIsTid DEF Basics, Ask
<1>4. device' = device /\ Holds(device)
  BY DEF Basics, Ask
<1>5. CASE IsRaw(item) \/ Encodable(item.request)
  <2>1. PICK pdu : pdu = IF IsRaw(item) THEN item.pdu ELSE EncodeRequest(item.request)
    OBVIOUS
  <2>2. /\ phase' = "asked" /\ wire' = BuildAdu(tid', UNIT, pdu)
        /\ last' = [Nothing EXCEPT !.item = item, !.before = device, !.asked = pdu]
    BY <1>1, <1>3, <1>5, <2>1, Zenon DEF Ask
  <2>3. /\ DOMAIN last' = Fields /\ last'.item = item /\ last'.before = device
        /\ last'.asked = pdu /\ last'.answered = <<>> /\ last'.outcome = <<>>
    BY <2>2 DEF Nothing, Fields
  <2>4. /\ IsPdu(pdu)
        /\ item.kind = "call" => Sendable(item.request) /\ pdu = EncodeRequest(item.request)
    <3>1. CASE IsRaw(item)
      BY SMTT(30), <1>2, <2>1, <3>1, ItemsAre
    <3>2. CASE ~IsRaw(item)
      <4>1. Sendable(item.request) /\ pdu = EncodeRequest(item.request)
        BY SMTT(30), <1>2, <1>5, <2>1, <3>2, ItemsAre, CallIsSendable
      <4>2. pdu \in Seq(Byte) /\ Len(pdu) \in 5..261
        BY SMTT(30), <4>1, LengthOfRequest
      <4>3. 1 + Len(pdu) \in Word
        <5>1. PICK n \in 5..261 : n = Len(pdu)
          BY <4>2
        <5>2. 1 + n \in Int /\ 0 <= 1 + n /\ 1 + n <= 65535
          OBVIOUS
        <5> QED
          BY <5>1, <5>2, WordRange
      <4> QED
        BY <4>1, <4>2, <4>3 DEF IsPdu
    <3> QED
      BY <3>1, <3>2
  <2>5. Open(last')
    BY <2>3, <2>4 DEF Open, AsksFor
  <2>6. wire' \in Seq(Byte)
    BY <1>3, <2>2, <2>4, AduReadsBack DEF ReadsBack
  <2> QED
    BY <1>2, <1>3, <1>4, <2>2, <2>3, <2>5, <2>6 DEF IInv, Basics, Stage
<1>6. CASE ~(IsRaw(item) \/ Encodable(item.request))
  <2>1. /\ phase' = phase /\ wire' = wire /\ phase = "idle"
        /\ last' = [Nothing EXCEPT !.item = item, !.before = device,
                                   !.outcome = Raises("struct.error")]
    BY <1>1, <1>6, Zenon DEF Ask
  <2>2. /\ DOMAIN last' = Fields /\ last'.item = item /\ last'.before = device
        /\ last'.asked = <<>> /\ last'.answered = <<>>
        /\ last'.outcome = Raises("struct.error")
    BY <2>1 DEF Nothing, Fields
  <2>3. IsCall(item.request) /\ ~Encodable(item.request)
    BY <1>2, <1>6, ItemsAre
  <2>4. Unsent(last')
    BY <2>2, <2>3 DEF Unsent
  <2> QED
    BY <1>2, <1>3, <1>4, <2>1, <2>2, <2>4 DEF IInv, Basics, Stage
<1> QED
  BY <1>5, <1>6

LEMMA RefuseLengthIInv == IInv /\ RefuseLength => IInv'
<1> SUFFICES ASSUME Basics, Stage, RefuseLength PROVE IInv'
  BY DEF IInv
<1>1. /\ Open(last) /\ tid \in Word /\ wire = BuildAdu(tid, UNIT, last.asked)
      /\ ~LengthInRange(wire)
  BY DEF Stage, RefuseLength
<1>2. 1 + Len(last.asked) \notin MIN_LENGTH_FIELD..MAX_LENGTH_FIELD
  BY <1>1, AduReadsBack DEF Open, AsksFor, ReadsBack
<1>3. /\ last' = [last EXCEPT !.outcome = Raises("IncompleteReadError")]
      /\ phase' = "refused" /\ UNCHANGED <<plan, device, tid, wire>>
  BY DEF RefuseLength
<1>4. /\ DOMAIN last' = Fields /\ last'.item = last.item /\ last'.before = last.before
      /\ last'.asked = last.asked /\ last'.answered = last.answered
      /\ last'.outcome = Raises("IncompleteReadError")
  BY <1>3 DEF Basics, Fields
<1>5. Refused(last')
  BY <1>1, <1>2, <1>4 DEF Refused, Open, AsksFor
<1> QED
  BY <1>3, <1>4, <1>5 DEF IInv, Basics, Stage

LEMMA ProcessIInv == IInv /\ Process => IInv'
<1> SUFFICES ASSUME Basics, Stage, Process PROVE IInv'
  BY DEF IInv
<1>1. /\ Open(last) /\ tid \in Word /\ wire = BuildAdu(tid, UNIT, last.asked)
      /\ device = last.before
  BY DEF Stage, Process
<1>2. IsPdu(last.asked) /\ last.asked \in Seq(Byte)
  BY <1>1 DEF Open, AsksFor, IsPdu
<1>3. /\ Rest(wire, MBAP_HEADER_LEN + 1) = last.asked
      /\ DecodeMbap(wire).transaction_id = tid /\ DecodeMbap(wire).unit_id = UNIT
  BY <1>1, <1>2, AduReadsBack DEF ReadsBack
<1>4. PICK request, reply : /\ request = DecodeRequest(last.asked)
                            /\ reply = EncodeResponse(Response(device, request))
  OBVIOUS
<1>5. /\ device' = Effect(device, request)
      /\ wire' = BuildAdu(tid, UNIT, reply)
      /\ last' = [last EXCEPT !.answered = reply]
      /\ phase' = "answered" /\ UNCHANGED <<plan, tid>>
  BY <1>3, <1>4, Zenon DEF Process
<1>6. IsDecoded(request) /\ IsPdu(reply)
  BY <1>2, <1>4, EveryReplyFits, ReplyIsPdu DEF Basics
<1>7. Holds(device') /\ wire' \in Seq(Byte)
  <2>1. Holds(device')
    BY <1>5, <1>6, EffectKeepsDevice DEF Basics
  <2>2. wire' \in Seq(Byte)
    BY <1>1, <1>5, <1>6, AduReadsBack DEF ReadsBack
  <2> QED
    BY <2>1, <2>2
<1>8. /\ DOMAIN last' = Fields /\ last'.item = last.item /\ last'.before = last.before
      /\ last'.asked = last.asked /\ last'.answered = reply /\ last'.outcome = last.outcome
  BY <1>5 DEF Basics, Fields
<1>9. Answered(last', device') /\ last'.outcome = <<>>
  BY <1>1, <1>4, <1>5, <1>8 DEF Answered, Open, AsksFor
<1> QED
  BY <1>1, <1>5, <1>7, <1>8, <1>9 DEF IInv, Basics, Stage

LEMMA AnsweredFits ==
  ASSUME NEW l, NEW dev, Answered(l, dev), Holds(l.before)
  PROVE  /\ ReplyFits(l.answered, IF l.asked = <<>> THEN 0 ELSE l.asked[1])
         /\ IsPdu(l.answered)
<1>1. l.asked \in Seq(Byte)
  BY DEF Answered, AsksFor, IsPdu
<1>2. ReplyFits(l.answered, IF l.asked = <<>> THEN 0 ELSE l.asked[1])
  BY <1>1, EveryReplyFits DEF Answered
<1> QED
  BY <1>2, ReplyIsPdu

LEMMA ReturnIInv == IInv /\ Return => IInv'
<1> SUFFICES ASSUME Basics, Stage, Return PROVE IInv'
  BY DEF IInv
<1>1. /\ Answered(last, device) /\ tid \in Word
      /\ wire = BuildAdu(tid, UNIT, last.answered)
  BY DEF Stage, Return
<1>2. IsPdu(last.answered)
  BY <1>1, AnsweredFits DEF Basics
<1>3. /\ DecodeMbap(wire).transaction_id = tid
      /\ SubSeq(wire, MBAP_HEADER_LEN + 1, LENGTH_PREFIX + DecodeMbap(wire).length)
           = last.answered
  BY <1>1, <1>2, AduReadsBack DEF ReadsBack
<1>4. PICK outcome : outcome = DecodeResponse(last.answered, BitCount(last.item))
  OBVIOUS
<1>5. /\ last' = [last EXCEPT !.outcome = outcome]
      /\ phase' = "idle" /\ UNCHANGED <<plan, device, tid, wire>>
  BY <1>3, <1>4, Zenon DEF Return
<1>6. /\ DOMAIN last' = Fields /\ last'.item = last.item /\ last'.before = last.before
      /\ last'.asked = last.asked /\ last'.answered = last.answered
      /\ last'.outcome = outcome
  BY <1>5 DEF Basics, Fields
<1>7. Done(last', device')
  BY <1>1, <1>4, <1>5, <1>6, Zenon DEF Done, Answered, AsksFor
<1> QED
  BY <1>5, <1>6, <1>7 DEF IInv, Basics, Stage

LEMMA OtherIInv == IInv /\ (Reconnect \/ UNCHANGED vars) => IInv'
<1>1. IInv /\ Reconnect => IInv'
  BY DEF IInv, Basics, Stage, Reconnect
<1>2. IInv /\ UNCHANGED vars => IInv'
  BY DEF IInv, Basics, Stage, vars
<1> QED
  BY <1>1, <1>2

(* What the stages say of the exchange under way holds in every state.     *)
THEOREM IInvHolds == Spec => []IInv
<1>1. IInv /\ [Next]_vars => IInv'
  BY AskIInv, RefuseLengthIInv, ProcessIInv, ReturnIInv, OtherIInv DEF Next
<1> QED
  BY InitIInv, <1>1, PTL DEF Spec

-----------------------------------------------------------------------------
(* What the wire carries and the dispatcher answers, whatever was asked.   *)

LEMMA AskedBytes ==
  ASSUME IInv, last.asked # <<>>
  PROVE  AsksFor(last) /\ last.asked \in Seq(Byte) /\ last.asked[1] \in Byte
<1>1. AsksFor(last) /\ last.asked \in Seq(Byte)
  BY DEF IInv, Stage, Untried, Unsent, Open, Refused, Answered, Done, AsksFor, IsPdu
<1>2. 1 \in 1..Len(last.asked)
  BY <1>1, LenProperties, EmptySeq
<1> QED
  BY <1>1, <1>2, ElementOfSeq

LEMMA StagesOfAnswer ==
  ASSUME IInv
  PROVE  last.answered = <<>> \/ Answered(last, device)
BY DEF IInv, Stage, Untried, Unsent, Open, Refused, Answered, Done

(* Every byte on the wire is a byte, and no response is longer than a      *)
(* Modbus PDU, for every device and every PDU that arrives.                *)
THEOREM EveryResponseFits == Spec => []ResponseFits
<1>1. IInv => ResponseFits
  <2> SUFFICES ASSUME IInv PROVE ResponseFits
    OBVIOUS
  <2>1. \A i \in 1..Len(wire) : wire[i] \in Byte
    BY ElementOfSeq DEF IInv, Basics
  <2>2. Len(last.answered) <= MAX_PDU_LEN
    <3>1. CASE last.answered = <<>>
      BY <3>1 DEF MAX_PDU_LEN
    <3>2. CASE Answered(last, device)
      BY <3>2, AnsweredFits DEF IInv, Basics, ReplyFits
    <3> QED
      BY <3>1, <3>2, StagesOfAnswer
  <2> QED
    BY <2>1, <2>2 DEF ResponseFits
<1> QED
  BY IInvHolds, <1>1, PTL

(* Every PDU that the server accepts is answered under its function code,  *)
(* and the exception codes are 01, 02 and 03 only.                         *)
THEOREM EveryPduGetsAReply == Spec => []EveryPduIsAnswered
<1>1. IInv => EveryPduIsAnswered
  <2> SUFFICES ASSUME IInv, phase = "answered", last.asked # <<>>
               PROVE  \/ /\ last.answered[1] = last.asked[1]
                         /\ last.asked[1] \in SUPPORTED_FUNCTION_CODES
                      \/ /\ Len(last.answered) = 2
                         /\ last.answered[1] = SetHighBit(last.asked[1])
                         /\ last.answered[2] \in Refusals
    BY DEF EveryPduIsAnswered, Refusals
  <2>1. Answered(last, device)
    BY DEF IInv, Stage
  <2>2. ReplyFits(last.answered, last.asked[1])
    BY <2>1, AnsweredFits DEF IInv, Basics
  <2> QED
    BY <2>2 DEF ReplyFits
<1> QED
  BY IInvHolds, <1>1, PTL

(* What the decoder accepts is, but for the unused bits of a multiple coil *)
(* write, the encoding of what it makes of it.                             *)
THEOREM DecoderIsAlwaysExact == Spec => []DecoderIsExact
<1>1. IInv => DecoderIsExact
  <2> SUFFICES ASSUME IInv, last.asked # <<>>,
                      DecodeRequest(last.asked).error = NO_EXCEPTION
               PROVE  LET again == EncodeRequest(DecodeRequest(last.asked))
                          coils == last.asked[1] = WRITE_MULTIPLE_COILS
                      IN  /\ Len(again) = Len(last.asked)
                          /\ \A i \in 1..Len(again) :
                               again[i] = last.asked[i] \/ (coils /\ i = Len(again))
    BY DEF DecoderIsExact
  <2>1. PICK p, r : p = last.asked /\ r = DecodeRequest(p)
    OBVIOUS
  <2>2. p \in Seq(Byte) /\ WellFormed(p)
    BY <2>1, AskedBytes, NoErrorMeansWellFormed
  <2>3. Sendable(r) /\ r.fc = p[1] /\ r.error = NO_EXCEPTION
    BY <2>1, <2>2, WellFormedIsSendable
  <2>4. PICK again : again = EncodeRequest(r)
    OBVIOUS
  <2>5. again \in Seq(Byte) /\ again[1] = p[1] /\ DecodeRequest(again) = r
    BY <2>3, <2>4, SendableSurvives, LengthOfRequest DEF SurvivesWire
  <2>6. WellFormed(again)
    BY <2>3, <2>5, NoErrorMeansWellFormed
  <2>7. /\ Len(again) = Len(p)
        /\ \A i \in 1..Len(again) :
             again[i] = p[i] \/ (again[1] = WRITE_MULTIPLE_COILS /\ i = Len(again))
    BY <2>1, <2>2, <2>5, <2>6, SameRequestSameBytes
  <2> QED
    BY <2>1, <2>4, <2>5, <2>7
<1> QED
  BY IInvHolds, <1>1, PTL

-----------------------------------------------------------------------------
(* What the caller gets.                                                   *)

LEMMA AskedOfCall ==
  ASSUME NEW l, AsksFor(l), l.item.kind = "call"
  PROVE  /\ Sendable(l.item.request) /\ l.asked = EncodeRequest(l.item.request)
         /\ DecodeRequest(l.asked) = l.item.request
         /\ BitCount(l.item) = BitsAsked(l.item.request)
<1>1. Sendable(l.item.request) /\ l.asked = EncodeRequest(l.item.request)
  BY DEF AsksFor
<1>2. DecodeRequest(l.asked) = l.item.request
  BY <1>1, SendableSurvives DEF SurvivesWire
<1>3. BitCount(l.item) = BitsAsked(l.item.request)
  BY DEF BitCount, BitsAsked, IsRaw
<1> QED
  BY <1>1, <1>2, <1>3

(* A call that ran to its end got what the dispatcher meant.               *)
LEMMA DoneCall ==
  ASSUME NEW l, NEW dev, Done(l, dev), Holds(l.before), l.item.kind = "call"
  PROVE  /\ l.outcome = Response(l.before, l.item.request) /\ ~Raised(l.outcome)
         /\ dev = Effect(l.before, l.item.request)
<1>1. PICK r : r = l.item.request
  OBVIOUS
<1>2. Sendable(r) /\ DecodeRequest(l.asked) = r /\ BitCount(l.item) = BitsAsked(r)
  BY <1>1, AskedOfCall DEF Done, Answered
<1>3. ComesBack(Response(l.before, r), r.fc, BitsAsked(r))
  BY <1>2, ResponseComesBack
<1> QED
  BY <1>1, <1>2, <1>3, Zenon DEF Done, Answered, ComesBack

LEMMA RaisedOrNot ==
  /\ ~Raised(<<>>) /\ ~Returned(<<>>)
  /\ \A what : Raised(Raises(what)) /\ ~Returned(Raises(what))
BY DEF Raised, Returned, Raises

(* Encoding, sending, decoding, handling and all the way back add up to    *)
(* calling the dispatcher on the device.                                   *)
THEOREM CallsMeanDispatch == Spec => []CallMeansDispatch
<1>1. IInv => CallMeansDispatch
  <2> SUFFICES ASSUME IInv, Calling, Returned(last.outcome)
               PROVE  /\ last.outcome = Response(last.before, last.item.request)
                      /\ device = Effect(last.before, last.item.request)
    BY DEF CallMeansDispatch
  <2>1. last.outcome # <<>> /\ ~Raised(last.outcome)
    BY DEF Returned
  <2>2. Done(last, device)
    BY <2>1, RaisedOrNot DEF IInv, Stage, Untried, Unsent, Refused, Open
  <2> QED
    BY <2>2, DoneCall DEF IInv, Basics, Calling
<1> QED
  BY IInvHolds, <1>1, PTL

(* A call fails without an answer only for a reason that can be read off   *)
(* its arguments.                                                          *)
THEOREM LegalCallsAlwaysAnswered == Spec => []LegalCallsAreAnswered
<1>1. IInv => LegalCallsAreAnswered
  <2> SUFFICES ASSUME IInv, Calling, Raised(last.outcome)
               PROVE  Excused(last.item.request)
    BY DEF LegalCallsAreAnswered, Excused
  <2>1. Unsent(last) \/ Refused(last)
    <3>1. ~Done(last, device)
      BY DoneCall DEF IInv, Basics, Calling
    <3> QED
      BY <3>1, RaisedOrNot DEF IInv, Stage, Untried, Open
  <2>2. CASE Unsent(last)
    BY SMTT(30), <2>2, UnsentIsExcused DEF Unsent
  <2>3. CASE Refused(last)
    <3>1. /\ Sendable(last.item.request) /\ last.asked = EncodeRequest(last.item.request)
          /\ 1 + Len(last.asked) \notin MIN_LENGTH_FIELD..MAX_LENGTH_FIELD
      BY <2>3, AskedOfCall DEF Refused, Calling
    <3>2. PICK n \in 5..261 : n = Len(last.asked)
      BY SMTT(30), <3>1, LengthOfRequest
    <3>3. n > MAX_PDU_LEN
      <4>1. 1 + n \notin 2..260
        BY <3>1, <3>2 DEF MIN_LENGTH_FIELD, MAX_LENGTH_FIELD
      <4>2. n > 253
        BY ONLY n \in 5..261, <4>1
      <4> QED
        BY <4>2 DEF MAX_PDU_LEN
    <3> QED
      BY SMTT(30), <3>1, <3>2, <3>3, LengthOfRequest
  <2> QED
    BY <2>1, <2>2, <2>3
<1> QED
  BY IInvHolds, <1>1, PTL
=============================================================================
