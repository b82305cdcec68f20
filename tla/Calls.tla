-------------------------------- MODULE Calls --------------------------------
(***************************************************************************)
(* What a caller may ask ModbusClient for, and the device that answers:    *)
(* what Exchange and Client have in common.                                *)
(***************************************************************************)
EXTENDS Dispatcher, Codec

CONSTANTS
  NewDevice,  \* the device at the start
  UNIT        \* its unit id

ASSUME UnitAssumption == UNIT \in Byte

(* The device holds bits and registers. *)
ASSUME DeviceAssumption ==
  /\ IsDevice(NewDevice, [r \in Regions |-> Len(NewDevice[r])], Word)
  /\ \A r \in Regions : Len(NewDevice[r]) \in Nat

(* Whatever the limits of frame.py admit fits one PDU. *)
ASSUME QuantitiesFitAssumption ==
  /\ 2 + CeilDiv8(MAX_READ_BITS) <= MAX_PDU_LEN
  /\ 2 + 2 * MAX_READ_REGISTERS <= MAX_PDU_LEN
  /\ 6 + CeilDiv8(MAX_WRITE_COILS) <= MAX_PDU_LEN
  /\ 6 + 2 * MAX_WRITE_REGISTERS <= MAX_PDU_LEN

(* What the methods of ModbusClient make of their arguments: any integers, *)
(* of which struct.pack will refuse those that do not fit.                 *)
IsCall(request) ==
  /\ request = Request(request.fc, request.address, request.count, request.values)
  /\ request.fc \in SUPPORTED_FUNCTION_CODES
  /\ request.address \in Int /\ request.count \in Int
  /\ request.fc \in READ_CODES => request.values = <<>>
  /\ request.fc \in WRITE_CODES =>
       /\ request.count = 0
       /\ request.values \in Seq(IF RegionOf(request.fc) = COILS THEN BOOLEAN ELSE Int)
  /\ request.fc \in SINGLE_WRITE_CODES => Len(request.values) = 1

(* The quantity that read_coils and read_discrete_inputs pass down, for    *)
(* the response to be decoded with.                                        *)
BitsAsked(request) ==
  IF request.fc \in {READ_COILS, READ_DISCRETE_INPUTS} THEN request.count ELSE -1
=============================================================================
