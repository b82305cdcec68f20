------------------------------ MODULE Exchange ------------------------------
(***************************************************************************)
(* One client and one device over the wire, byte for byte: a caller asks   *)
(* ModbusClient for something, _transact encodes it into an ADU, the       *)
(* server frames, decodes, handles and encodes, and the client decodes     *)
(* what comes back.  A foreign client may put any PDU on the wire.  The    *)
(* connection works and nobody is slow: those are matters of Server and    *)
(* Client.                                                                 *)
(***************************************************************************)
EXTENDS Calls

CONSTANTS
  Plans,    \* what the caller does: a set of sequences of items
  LAST_TID  \* the transaction id after which the client starts at 1 again

ASSUME TidAssumption == LAST_TID \in Word \ {0}

VARIABLES
  plan,    \* the caller's items that are still to be done
  device,  \* the device in the server
  tid,     \* the transaction id used last
  phase,   \* "idle", "asked", "answered" or "refused"
  wire,    \* the ADU on its way
  last     \* the exchange under way: item, PDUs, device as it was, outcome

vars == <<plan, device, tid, phase, wire, last>>

(* An item is a request for the client to encode, or a PDU put on the wire *)
(* as it is.                                                               *)
IsRaw(item) == item.kind = "raw"

(* A PDU that a header can be put in front of. *)
IsPdu(pdu) == pdu \in Seq(Byte) /\ 1 + Len(pdu) \in Word

Items == UNION {{p[i] : i \in 1..Len(p)} : p \in Plans}

ASSUME PlansAssumption ==
  /\ \A p \in Plans : p \in Seq(Items)
  /\ \A item \in Items : \/ IsRaw(item) /\ IsPdu(item.pdu)
                         \/ item.kind = "call" /\ IsCall(item.request)

Nothing == [item |-> [kind |-> "none"], before |-> NewDevice,
            asked |-> <<>>, answered |-> <<>>, outcome |-> <<>>]

Init ==
  /\ plan \in Plans
  /\ device = NewDevice
  /\ tid = 0
  /\ phase = "idle"
  /\ wire = <<>>
  /\ last = Nothing

(* next(self._tid): the cycle 1, 2, ..., LAST_TID. *)
NextTid == IF tid = LAST_TID THEN 1 ELSE tid + 1

(* _transact up to the write; struct.error leaves it before the write, but *)
(* after the transaction id was drawn.                                     *)
Ask ==
  /\ phase = "idle"
  /\ plan # <<>>
  /\ plan' = Tail(plan)
  /\ tid' = NextTid
  /\ LET item == Head(plan)
     IN  IF IsRaw(item) \/ Encodable(item.request)
         THEN LET pdu == IF IsRaw(item) THEN item.pdu ELSE EncodeRequest(item.request)
              IN  /\ phase' = "asked"
                  /\ wire' = BuildAdu(NextTid, UNIT, pdu)
                  /\ last' = [Nothing EXCEPT !.item = item, !.before = device, !.asked = pdu]
         ELSE /\ last' = [Nothing EXCEPT !.item = item, !.before = device,
                                         !.outcome = Raises("struct.error")]
              /\ UNCHANGED <<phase, wire>>
  /\ UNCHANGED device

(* _next_frame raises ProtocolError: the server closes the connection, and *)
(* the client's readexactly fails.                                         *)
RefuseLength ==
  /\ phase = "asked"
  /\ ~LengthInRange(wire)
  /\ phase' = "refused"
  /\ last' = [last EXCEPT !.outcome = Raises("IncompleteReadError")]
  /\ UNCHANGED <<plan, device, tid, wire>>

(* _process_frame: process_pdu on the device, build_adu. *)
Process ==
  /\ phase = "asked"
  /\ LengthInRange(wire)
  /\ LET pdu     == Rest(wire, MBAP_HEADER_LEN + 1)
         request == DecodeRequest(pdu)
         header  == DecodeMbap(wire)
         reply   == EncodeResponse(Response(device, request))
     IN  /\ device' = Effect(device, request)
         /\ wire' = BuildAdu(header.transaction_id, header.unit_id, reply)
         /\ last' = [last EXCEPT !.answered = reply]
  /\ phase' = "answered"
  /\ UNCHANGED <<plan, tid>>

BitCount(item) == IF IsRaw(item) THEN -1 ELSE BitsAsked(item.request)

(* _transact from the read on. *)
Return ==
  /\ phase = "answered"
  /\ LET header == DecodeMbap(wire)
         pdu    == SubSeq(wire, MBAP_HEADER_LEN + 1, LENGTH_PREFIX + header.length)
     IN  last' = [last EXCEPT !.outcome =
                    IF header.transaction_id # tid THEN Raises("OSError")
                    ELSE DecodeResponse(pdu, BitCount(last.item))]
  /\ phase' = "idle"
  /\ UNCHANGED <<plan, device, tid, wire>>

(* The caller connects again. *)
Reconnect ==
  /\ phase = "refused"
  /\ plan # <<>>
  /\ phase' = "idle"
  /\ UNCHANGED <<plan, device, tid, wire, last>>

Next == Ask \/ RefuseLength \/ Process \/ Return \/ Reconnect

Spec == Init /\ [][Next]_vars

-----------------------------------------------------------------------------
Returned(outcome) == outcome # <<>> /\ ~Raised(outcome)
Calling == last.item.kind = "call"

(* What the client decodes is what the dispatcher meant: encoding a        *)
(* request, decoding it in the server, encoding the response and decoding  *)
(* it in the client add up to calling the dispatcher directly, for the     *)
(* bits that do not fill a byte, the largest quantities and the exceptions. *)
CallMeansDispatch ==
  Calling /\ Returned(last.outcome) =>
    /\ last.outcome = Response(last.before, last.item.request)
    /\ device = Effect(last.before, last.item.request)

(* What goes over the wire are bytes, and every response fits a Modbus    *)
(* PDU, so the client and any gateway on the way accept it.                *)
ResponseFits ==
  /\ \A i \in 1..Len(wire) : wire[i] \in Byte
  /\ Len(last.answered) <= MAX_PDU_LEN

(* A request whose quantity is within the limits is always answered, and   *)
(* a call fails without an answer only for a field that does not fit or    *)
(* for a multiple write that is over its limit.                            *)
LegalCallsAreAnswered ==
  Calling /\ Raised(last.outcome) =>
    LET request == last.item.request
    IN  \/ request.address \notin Word \/ request.count \notin Word
        \/ \E i \in 1..Len(request.values) :
             RegionOf(request.fc) = HOLDING_REGISTERS /\ request.values[i] \notin Word
        \/ request.fc \in MULTI_WRITE_CODES /\ ~QuantityAccepted(request)

(* Whatever PDU arrives, the reply answers its function code: the same     *)
(* byte, or that byte with the high bit set and code 01, 02 or 03.  The    *)
(* dispatcher's safety net (04) is never needed.                           *)
EveryPduIsAnswered ==
  phase = "answered" /\ last.asked # <<>> =>
    \/ last.answered[1] = last.asked[1] /\ last.asked[1] \in SUPPORTED_FUNCTION_CODES
    \/ /\ Len(last.answered) = 2
       /\ last.answered[1] = SetHighBit(last.asked[1])
       /\ last.answered[2] \in {ILLEGAL_FUNCTION, ILLEGAL_DATA_ADDRESS, ILLEGAL_DATA_VALUE}

(* The decoder accepts nothing that the encoder would not have produced,   *)
(* except for the unused bits of the last byte of a multiple coil write.   *)
DecoderIsExact ==
  last.asked # <<>> /\ DecodeRequest(last.asked).error = NO_EXCEPTION =>
    LET again == EncodeRequest(DecodeRequest(last.asked))
        coils == last.asked[1] = WRITE_MULTIPLE_COILS
    IN  /\ Len(again) = Len(last.asked)
        /\ \A i \in 1..Len(again) :
             again[i] = last.asked[i] \/ (coils /\ i = Len(again))

(* frame.py on ExceptionResponse: function_code is the original code,      *)
(* without the high bit.                                                   *)
ExceptionCodeHasNoHighBit ==
  last.asked # <<>> =>
    LET response == Response(last.before, DecodeRequest(last.asked))
    IN  response.error # NO_EXCEPTION => response.fc < EXCEPTION_MASK
=============================================================================
