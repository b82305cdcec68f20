----------------------------- MODULE Dispatcher -----------------------------
(***************************************************************************)
(* modbus_sim/dispatcher.py: what one request does to one device, as an    *)
(* operator on the device.  A request is the outcome of decode_request_pdu *)
(* in one record:                                                          *)
(*   fc       the function code of the PDU                                 *)
(*   error    NO_EXCEPTION, or the exception code the decoder raised       *)
(*   address  the first slot                                               *)
(*   count    the quantity of a read, 0 for a write                        *)
(*   values   what a write carries, <<>> for a read                        *)
(* A response has the same shape, with the exception code in "error" and   *)
(* the quantity of a multiple write in "count".                            *)
(***************************************************************************)
EXTENDS Frame, Datastore

CONSTANTS
  MAX_READ_BITS, MAX_READ_REGISTERS, MAX_WRITE_COILS, MAX_WRITE_REGISTERS

ASSUME LimitsAssumption ==
  /\ MAX_READ_BITS \in Nat /\ MAX_READ_REGISTERS \in Nat
  /\ MAX_WRITE_COILS \in Nat /\ MAX_WRITE_REGISTERS \in Nat

SINGLE_WRITE_CODES == {WRITE_SINGLE_COIL, WRITE_SINGLE_REGISTER}
WRITE_CODES        == SINGLE_WRITE_CODES \cup MULTI_WRITE_CODES

(* The region a supported function code works on, and its quantity limit. *)
RegionOf(fc) ==
  CASE fc \in {READ_COILS, WRITE_SINGLE_COIL, WRITE_MULTIPLE_COILS} -> COILS
    [] fc = READ_DISCRETE_INPUTS -> DISCRETE_INPUTS
    [] fc \in {READ_HOLDING_REGISTERS, WRITE_SINGLE_REGISTER,
               WRITE_MULTIPLE_REGISTERS} -> HOLDING_REGISTERS
    [] fc = READ_INPUT_REGISTERS -> INPUT_REGISTERS

LimitOf(fc) ==
  CASE fc \in {READ_COILS, READ_DISCRETE_INPUTS} -> MAX_READ_BITS
    [] fc \in {READ_HOLDING_REGISTERS, READ_INPUT_REGISTERS} -> MAX_READ_REGISTERS
    [] fc = WRITE_MULTIPLE_COILS -> MAX_WRITE_COILS
    [] fc = WRITE_MULTIPLE_REGISTERS -> MAX_WRITE_REGISTERS

Quantity(request) ==
  IF request.fc \in READ_CODES THEN request.count ELSE Len(request.values)

(* Mutant of QuantityAccepted: the upper limit is not checked. *)
QuantityPositive(request) ==
  request.fc \notin SINGLE_WRITE_CODES => Quantity(request) >= 1

(* _require_quantity; a single write carries no quantity to check. *)
QuantityAccepted(request) ==
  request.fc \notin SINGLE_WRITE_CODES =>
    Quantity(request) \in 1..LimitOf(request.fc)

AddressAccepted(device, request) ==
  InBlock(device[RegionOf(request.fc)], request.address, Quantity(request))

(* Mutant of Verdict: the region is accessed before the quantity check. *)
VerdictAddressFirst(device, request) ==
  IF request.error # NO_EXCEPTION THEN request.error
  ELSE IF ~AddressAccepted(device, request) THEN ILLEGAL_DATA_ADDRESS
  ELSE IF ~QuantityAccepted(request) THEN ILLEGAL_DATA_VALUE
  ELSE NO_EXCEPTION

(* handle_request, with the decoder's verdict in front: the exception code *)
(* is the first check that fails.                                          *)
Verdict(device, request) ==
  IF request.error # NO_EXCEPTION THEN request.error
  ELSE IF ~QuantityAccepted(request) THEN ILLEGAL_DATA_VALUE
  ELSE IF ~AddressAccepted(device, request) THEN ILLEGAL_DATA_ADDRESS
  ELSE NO_EXCEPTION

(* Mutant of Exception: the function code of the request is lost. *)
ExceptionWithoutCode(fc, code) ==
  [fc |-> 0, error |-> code, address |-> 0, count |-> 0, values |-> <<>>]

Exception(fc, code) ==
  [fc |-> fc, error |-> code, address |-> 0, count |-> 0, values |-> <<>>]

(* A read returns a copy of the slots, a single write echoes the request,  *)
(* a multiple write answers with how many values it wrote.                 *)
Answer(device, request) ==
  IF request.fc \in READ_CODES
  THEN [fc |-> request.fc, error |-> NO_EXCEPTION, address |-> 0, count |-> 0,
        values |-> ReadBlock(device[RegionOf(request.fc)], request.address, request.count)]
  ELSE IF request.fc \in SINGLE_WRITE_CODES
  THEN request
  ELSE [fc |-> request.fc, error |-> NO_EXCEPTION, address |-> request.address,
        count |-> Len(request.values), values |-> <<>>]

(* process_pdu between its decoder and its encoder.  The exception response *)
(* carries the request's function code; the encoder sets the high bit.      *)
Response(device, request) ==
  LET code == Verdict(device, request)
  IN  IF code = NO_EXCEPTION THEN Answer(device, request)
                             ELSE Exception(request.fc, code)

(* Mutant of Effect: slots are written up to the end of the region, and    *)
(* the address range is checked afterwards.                                *)
EffectBeforeCheck(device, request) ==
  IF request.fc \in WRITE_CODES /\ Verdict(device, request) \in {NO_EXCEPTION, ILLEGAL_DATA_ADDRESS}
  THEN [device EXCEPT ![RegionOf(request.fc)] =
          WriteBlock(@, request.address, request.values)]
  ELSE device

Effect(device, request) ==
  IF request.fc \in WRITE_CODES /\ Verdict(device, request) = NO_EXCEPTION
  THEN [device EXCEPT ![RegionOf(request.fc)] =
          WriteBlock(@, request.address, request.values)]
  ELSE device
=============================================================================
