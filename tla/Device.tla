------------------------------- MODULE Device -------------------------------
(***************************************************************************)
(* One device served over time: clients' requests, each handled whole      *)
(* while its handler holds the device's lock, and generator updates in     *)
(* between.  "believed" is what an observer of the wire reconstructs from  *)
(* acknowledged writes alone; the properties compare it with the blocks.   *)
(***************************************************************************)
EXTENDS Dispatcher

CONSTANTS
  Sizes,      \* [Regions -> Nat], the sizes of the four blocks
  Registers,  \* the register values that occur
  Requests,   \* the decoder's outcomes that occur
  Generated   \* the <<region, address>> slots that have a GeneratorBinding

ASSUME SizesAssumption == Sizes \in [Regions -> Nat]
ASSUME GeneratedAssumption ==
  Generated \subseteq UNION {{r} \X (0..Sizes[r] - 1) : r \in RegisterRegions}

(* The values that fit a slot of a region. *)
ValuesOf(r) == IF r \in BitRegions THEN BOOLEAN ELSE Registers

(* What decode_request_pdu makes of a PDU that it accepts. *)
Decoded(req) ==
  /\ req.fc \in SUPPORTED_FUNCTION_CODES
  /\ req.address \in Nat /\ req.count \in Nat
  /\ req.fc \in WRITE_CODES => req.values \in Seq(ValuesOf(RegionOf(req.fc)))
  /\ req.fc \in SINGLE_WRITE_CODES => Len(req.values) = 1

ASSUME RequestsAssumption ==
  \A req \in Requests : /\ DOMAIN req = {"fc", "error", "address", "count", "values"}
                        /\ req.error = NO_EXCEPTION => Decoded(req)
ASSUME RegistersAssumption == 0 \in Registers

VARIABLES
  device,    \* the four blocks
  believed,  \* the blocks according to the acknowledged writes
  request,   \* the request handled last ...
  response   \* ... and its response

vars == <<device, believed, request, response>>

Slots(r) == {r} \X (0..Sizes[r] - 1)
AllSlots == UNION {Slots(r) : r \in Regions}
ValueAt(d, slot) == d[slot[1]][slot[2] + 1]

(* The slots a request names, whether or not they exist. *)
Named(req) == {RegionOf(req.fc)} \X (req.address .. req.address + Quantity(req) - 1)

NoRequest == [fc |-> 0, error |-> NO_EXCEPTION, address |-> 0, count |-> 0, values |-> <<>>]

(* What an acknowledged write tells an observer; he reads only the bytes   *)
(* of the request and that the response is not an exception.               *)
Learn(view, req, resp) ==
  IF resp.error = NO_EXCEPTION /\ req.fc \in WRITE_CODES
  THEN [view EXCEPT ![RegionOf(req.fc)] =
          [i \in DOMAIN @ |-> IF <<RegionOf(req.fc), i - 1>> \in Named(req)
                              THEN req.values[i - req.address] ELSE @[i]]]
  ELSE view

(* build_device: every slot is zeroed. *)
Zeroed == [r \in Regions |-> [i \in 1..Sizes[r] |-> IF r \in BitRegions THEN FALSE ELSE 0]]

Init ==
  /\ device = Zeroed
  /\ believed = Zeroed
  /\ request = NoRequest
  /\ response = NoRequest

(* process_pdu. *)
Handle(req) ==
  /\ request' = req
  /\ response' = Response(device, req)
  /\ device' = Effect(device, req)
  /\ believed' = Learn(believed, req, response')

(* GeneratorBinding.update. *)
Update(slot, value) ==
  /\ device' = [device EXCEPT ![slot[1]] = SetSlot(@, slot[2], value)]
  /\ UNCHANGED <<believed, request, response>>

Next ==
  \/ \E req \in Requests : Handle(req)
  \/ \E slot \in Generated, value \in Registers : Update(slot, value)

Spec == Init /\ [][Next]_vars

-----------------------------------------------------------------------------
(* The blocks keep their sizes and the types of their values. *)
TypeOK ==
  /\ IsDevice(device, Sizes, Registers)
  /\ IsDevice(believed, Sizes, Registers)
  /\ request \in Requests \cup {NoRequest}
  /\ DOMAIN response = DOMAIN NoRequest

(* The wire tells the truth about the device: a write was applied in full, *)
(* at the slots it names, if and only if it was acknowledged, so whoever   *)
(* replays the acknowledged writes gets the device's own contents          *)
(* everywhere but at the slots that generators write too.                  *)
AcknowledgedIsApplied ==
  \A slot \in AllSlots \ Generated : ValueAt(believed, slot) = ValueAt(device, slot)

(* A successful read returns, for each slot it names and in that order,    *)
(* what the last acknowledged write put there.                             *)
ReadsSeeAcknowledgedWrites ==
  request.fc \in READ_CODES /\ response.error = NO_EXCEPTION =>
    /\ Len(response.values) = request.count
    /\ \A slot \in Named(request) \ Generated :
         response.values[slot[2] - request.address + 1] = ValueAt(believed, slot)

(* The documented priority 01, 03, 02: what the decoder found wins, then   *)
(* an illegal quantity, and an address is only blamed (or accepted) after  *)
(* both, slot by slot.                                                     *)
ExceptionPriority ==
  request # NoRequest =>
    IF request.error # NO_EXCEPTION THEN response.error = request.error
    ELSE IF request.fc \notin SINGLE_WRITE_CODES
              /\ (Quantity(request) = 0 \/ Quantity(request) > LimitOf(request.fc))
    THEN response.error = ILLEGAL_DATA_VALUE
    ELSE response.error = IF Named(request) \subseteq AllSlots
                          THEN NO_EXCEPTION ELSE ILLEGAL_DATA_ADDRESS

(* A step changes only slots that a generator owns or that the request     *)
(* just handled names in its own region, and an exception response means   *)
(* that the request changed nothing at all.                                *)
ChangedSlots == {slot \in AllSlots : ValueAt(device, slot)' # ValueAt(device, slot)}

OnlyNamedSlotsChange ==
  [][\/ ChangedSlots \subseteq Generated /\ UNCHANGED response
     \/ /\ request'.fc \in WRITE_CODES
        /\ response'.error = NO_EXCEPTION
        /\ ChangedSlots \subseteq Named(request')
     \/ ChangedSlots = {}]_vars
=============================================================================
