------------------------------- MODULE Codec --------------------------------
(***************************************************************************)
(* The PDU codec of modbus_sim/frame.py, on byte strings.  Requests and    *)
(* responses are the records of Dispatcher; a decoder that raises returns  *)
(* the exception code it raises in "error".                                *)
(***************************************************************************)
EXTENDS Frame

-----------------------------------------------------------------------------
(* Bits and registers.                                                     *)

CeilDiv8(n) == (n + 7) \div 8

(* 1 << (i & 7) for the eight bits of a byte, least significant first. *)
BitWeight == <<1, 2, 4, 8, 16, 32, 64, 128>>

ByteOf(bit) ==
  LET weight(j) == IF bit[j] THEN BitWeight[j] ELSE 0
  IN  weight(1) + weight(2) + weight(3) + weight(4)
        + weight(5) + weight(6) + weight(7) + weight(8)

BitOf(byte, j) == (byte \div BitWeight[j]) % 2 = 1

BitAt(bits, i) == i <= Len(bits) /\ bits[i]

(* Mutant of PackBits: most significant bit first. *)
PackBitsFromTop(bits) ==
  [k \in 1..CeilDiv8(Len(bits)) |-> ByteOf([j \in 1..8 |-> BitAt(bits, 8 * (k - 1) + 9 - j)])]

(* Least significant bit first; unused bits of the last byte are 0. *)
PackBits(bits) ==
  [k \in 1..CeilDiv8(Len(bits)) |-> ByteOf([j \in 1..8 |-> BitAt(bits, 8 * (k - 1) + j)])]

UnpackBits(data, count) ==
  [i \in 1..count |-> BitOf(data[(i - 1) \div 8 + 1], ((i - 1) % 8) + 1)]

PackRegisters(registers) ==
  [i \in 1..2 * Len(registers) |->
     PackWord(registers[(i + 1) \div 2])[IF i % 2 = 1 THEN 1 ELSE 2]]

UnpackRegisters(data) ==
  [i \in 1..Len(data) \div 2 |-> UnpackWord(data[2 * i - 1], data[2 * i])]

WordAt(data, i) == UnpackWord(data[i], data[i + 1])
Rest(data, i)   == SubSeq(data, i, Len(data))

-----------------------------------------------------------------------------
(* Requests.                                                               *)

Request(fc, address, count, values) ==
  [fc |-> fc, error |-> NO_EXCEPTION, address |-> address, count |-> count, values |-> values]
Refuse(fc, code) ==
  [fc |-> fc, error |-> code, address |-> 0, count |-> 0, values |-> <<>>]

FiveByteCodes == READ_CODES \cup {WRITE_SINGLE_COIL, WRITE_SINGLE_REGISTER}

(* Mutant of MultiWriteConsistent: the quantity of registers is not held   *)
(* against the byte count.                                                 *)
MultiWriteUncounted(pdu) ==
  /\ Len(pdu) >= 6
  /\ Len(pdu) - 6 = pdu[6]
  /\ pdu[1] = WRITE_MULTIPLE_COILS => pdu[6] = CeilDiv8(WordAt(pdu, 4))

(* _decode_multi_write accepts the PDU: the byte count agrees with both    *)
(* the payload and the quantity.                                           *)
MultiWriteConsistent(pdu) ==
  /\ Len(pdu) >= 6
  /\ Len(pdu) - 6 = pdu[6]
  /\ pdu[6] = IF pdu[1] = WRITE_MULTIPLE_REGISTERS THEN 2 * WordAt(pdu, 4)
                                                   ELSE CeilDiv8(WordAt(pdu, 4))

(* The structural defects that decode_request_pdu answers with 03. *)
Malformed(pdu) ==
  \/ pdu[1] \in FiveByteCodes /\ Len(pdu) # 5
  \/ pdu[1] = WRITE_SINGLE_COIL /\ WordAt(pdu, 4) \notin {COIL_ON, COIL_OFF}
  \/ pdu[1] \in MULTI_WRITE_CODES /\ ~MultiWriteConsistent(pdu)

DecodeRequest(pdu) ==
  IF pdu = <<>> THEN Refuse(0, ILLEGAL_DATA_VALUE)
  ELSE LET fc == pdu[1]
       IN  IF fc \notin SUPPORTED_FUNCTION_CODES THEN Refuse(fc, ILLEGAL_FUNCTION)
           ELSE IF Malformed(pdu) THEN Refuse(fc, ILLEGAL_DATA_VALUE)
           ELSE LET address == WordAt(pdu, 2)
                    word    == WordAt(pdu, 4)
                IN  CASE fc \in READ_CODES -> Request(fc, address, word, <<>>)
                      [] fc = WRITE_SINGLE_COIL ->
                           Request(fc, address, 0, <<word = COIL_ON>>)
                      [] fc = WRITE_SINGLE_REGISTER -> Request(fc, address, 0, <<word>>)
                      [] fc = WRITE_MULTIPLE_COILS ->
                           Request(fc, address, 0, UnpackBits(Rest(pdu, 7), word))
                      [] fc = WRITE_MULTIPLE_REGISTERS ->
                           Request(fc, address, 0, UnpackRegisters(Rest(pdu, 7)))

Payload(fc, values) ==
  IF fc \in {READ_COILS, READ_DISCRETE_INPUTS, WRITE_MULTIPLE_COILS}
  THEN PackBits(values) ELSE PackRegisters(values)

SingleWord(fc, values) ==
  IF fc = WRITE_SINGLE_COIL THEN IF values[1] THEN COIL_ON ELSE COIL_OFF
                            ELSE values[1]

(* struct.pack raises for a field that does not fit its width. *)
Encodable(request) ==
  LET registers == IF request.fc \in {WRITE_SINGLE_REGISTER, WRITE_MULTIPLE_REGISTERS}
                   THEN request.values ELSE <<>>
  IN  /\ request.address \in Word /\ request.count \in Word
      /\ Len(request.values) \in Word
      /\ \A i \in 1..Len(registers) : registers[i] \in Word
      /\ request.fc \in MULTI_WRITE_CODES =>
           Len(Payload(request.fc, request.values)) \in Byte

EncodeRequest(request) ==
  LET fc   == request.fc
      head == <<fc>> \o PackWord(request.address)
      body == Payload(fc, request.values)
  IN  CASE fc \in READ_CODES -> head \o PackWord(request.count)
        [] fc \in {WRITE_SINGLE_COIL, WRITE_SINGLE_REGISTER} ->
             head \o PackWord(SingleWord(fc, request.values))
        [] fc \in MULTI_WRITE_CODES ->
             head \o PackWord(Len(request.values)) \o <<Len(body)>> \o body

-----------------------------------------------------------------------------
(* Responses.                                                              *)

(* fc | EXCEPTION_MASK and fc & ~EXCEPTION_MASK of a byte. *)
SetHighBit(fc)   == EXCEPTION_MASK + (fc % EXCEPTION_MASK)
ClearHighBit(fc) == fc % EXCEPTION_MASK

(* A value that struct.pack would refuse becomes a number that is no byte. *)
EncodeResponse(response) ==
  LET fc   == response.fc
      head == <<fc>> \o PackWord(response.address)
      body == Payload(fc, response.values)
  IN  IF response.error # NO_EXCEPTION THEN <<SetHighBit(fc), response.error>>
      ELSE CASE fc \in READ_CODES -> <<fc, Len(body)>> \o body
             [] fc \in {WRITE_SINGLE_COIL, WRITE_SINGLE_REGISTER} ->
                  head \o PackWord(SingleWord(fc, response.values))
             [] fc \in MULTI_WRITE_CODES -> head \o PackWord(response.count)

(* Raised by decode_response_pdu in the client instead of a response. *)
Raises(what)   == [raises |-> what]
Raised(result) == DOMAIN result = {"raises"}

(* bit_count is the quantity the caller asked for, or -1 when he gave none. *)
DecodeReadResponse(pdu, bit_count) ==
  LET fc   == pdu[1]
      bits == IF bit_count = -1 THEN 8 * pdu[2] ELSE bit_count
  IN  IF Len(pdu) < 2 THEN Raises("IndexError")
      ELSE IF Len(pdu) # 2 + pdu[2] THEN Raises("IllegalDataValue")
      ELSE IF fc \in {READ_COILS, READ_DISCRETE_INPUTS}
      THEN IF bits > 8 * pdu[2] THEN Raises("IllegalDataValue")
                                ELSE Request(fc, 0, 0, UnpackBits(Rest(pdu, 3), bits))
      ELSE IF pdu[2] % 2 = 1 THEN Raises("IllegalDataValue")
                             ELSE Request(fc, 0, 0, UnpackRegisters(Rest(pdu, 3)))

DecodeResponse(pdu, bit_count) ==
  IF pdu = <<>> THEN Raises("IllegalDataValue")
  ELSE LET fc == pdu[1]
       IN  IF fc >= EXCEPTION_MASK
           THEN IF Len(pdu) # 2 THEN Raises("IllegalDataValue")
                                ELSE Refuse(ClearHighBit(fc), pdu[2])
           ELSE IF fc \notin SUPPORTED_FUNCTION_CODES THEN Raises("IllegalFunction")
           ELSE IF fc \in READ_CODES THEN DecodeReadResponse(pdu, bit_count)
           ELSE IF Len(pdu) # 5 THEN Raises("IllegalDataValue")
           ELSE LET word == WordAt(pdu, 4)
                IN  CASE fc = WRITE_SINGLE_COIL ->
                           Request(fc, WordAt(pdu, 2), 0, <<word = COIL_ON>>)
                      [] fc = WRITE_SINGLE_REGISTER ->
                           Request(fc, WordAt(pdu, 2), 0, <<word>>)
                      [] fc \in MULTI_WRITE_CODES ->
                           Request(fc, WordAt(pdu, 2), word, <<>>)
=============================================================================
