------------------------------- MODULE Frame --------------------------------
(***************************************************************************)
(* The wire constants of modbus_sim/frame.py and its MBAP header codec.    *)
(* A byte string is a sequence of numbers 0..255; Python's data[i] is      *)
(* element i+1 of the sequence.                                            *)
(***************************************************************************)
EXTENDS Integers, Sequences

Byte == 0..255
Word == 0..65535       \* an unsigned 16-bit field; REGISTER_MAX is its top

MBAP_HEADER_LEN == 7
LENGTH_PREFIX   == 6   \* bytes of an ADU that the length field does not count
PROTOCOL_ID     == 0
MAX_ADU_LEN     == 260
MAX_PDU_LEN     == 253
MIN_LENGTH_FIELD == 2
MAX_LENGTH_FIELD == 260

COIL_ON  == 65280
COIL_OFF == 0

(* Function codes. *)
READ_COILS               == 1
READ_DISCRETE_INPUTS     == 2
READ_HOLDING_REGISTERS   == 3
READ_INPUT_REGISTERS     == 4
WRITE_SINGLE_COIL        == 5
WRITE_SINGLE_REGISTER    == 6
WRITE_MULTIPLE_COILS     == 15
WRITE_MULTIPLE_REGISTERS == 16

READ_CODES  == {READ_COILS, READ_DISCRETE_INPUTS,
                READ_HOLDING_REGISTERS, READ_INPUT_REGISTERS}
MULTI_WRITE_CODES == {WRITE_MULTIPLE_COILS, WRITE_MULTIPLE_REGISTERS}
SUPPORTED_FUNCTION_CODES ==
  READ_CODES \cup {WRITE_SINGLE_COIL, WRITE_SINGLE_REGISTER} \cup MULTI_WRITE_CODES

EXCEPTION_MASK == 128

(* Exception codes; NO_EXCEPTION marks a normal outcome. *)
NO_EXCEPTION          == 0
ILLEGAL_FUNCTION      == 1
ILLEGAL_DATA_ADDRESS  == 2
ILLEGAL_DATA_VALUE    == 3
SERVER_DEVICE_FAILURE == 4

-----------------------------------------------------------------------------
(* struct's ">H": a 16-bit field, big-endian. *)
PackWord(n) == <<n \div 256, n % 256>>
UnpackWord(hi, lo) == 256 * hi + lo

(* The header of the first MBAP_HEADER_LEN bytes of data. *)
DecodeMbap(data) ==
  [transaction_id |-> UnpackWord(data[1], data[2]),
   protocol_id    |-> UnpackWord(data[3], data[4]),
   length         |-> UnpackWord(data[5], data[6]),
   unit_id        |-> data[7]]

(* What _next_frame asks of the bytes at a frame boundary. *)
HasHeader(data)   == Len(data) >= MBAP_HEADER_LEN
LengthField(data) == DecodeMbap(data).length

(* Mutant of LengthInRange: the unit id is forgotten in the upper bound. *)
LengthBelowPdu(data) ==
  /\ MIN_LENGTH_FIELD <= LengthField(data)
  /\ LengthField(data) < MAX_PDU_LEN

(* Mutants of LengthInRange: off by one at the lower and the upper bound. *)
LengthFromOne(data) ==
  /\ 1 <= LengthField(data)
  /\ LengthField(data) <= MAX_LENGTH_FIELD
LengthOneTooLong(data) ==
  /\ MIN_LENGTH_FIELD <= LengthField(data)
  /\ LengthField(data) <= MAX_LENGTH_FIELD + 1

LengthInRange(data) ==
  /\ MIN_LENGTH_FIELD <= LengthField(data)
  /\ LengthField(data) <= MAX_LENGTH_FIELD
Total(data)       == LENGTH_PREFIX + LengthField(data)

(* A PDU wrapped in a fresh header; the length field counts unit id + PDU. *)
BuildAdu(transaction_id, unit_id, pdu) ==
  PackWord(transaction_id) \o PackWord(PROTOCOL_ID)
    \o PackWord(1 + Len(pdu)) \o <<unit_id>> \o pdu
=============================================================================
