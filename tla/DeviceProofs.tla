---------------------------- MODULE DeviceProofs ----------------------------
(***************************************************************************)
(* Proofs about Device, for all sizes of its blocks, sets of requests and  *)
(* generated slots.  They rest on two facts: WriteBlock keeps a block a    *)
(* block and changes the slots it names, and an observer who replays an    *)
(* acknowledged write (Learn) does to his view what Effect does to the     *)
(* device, slot by slot.                                                   *)
(***************************************************************************)
EXTENDS Device, SequenceTheorems, TLAPS

(* A function on 1..n is a sequence of length n.                           *)
LEMMA BlockIsSeq ==
  ASSUME NEW S, NEW n \in Nat, NEW block \in [1..n -> S]
  PROVE  block \in Seq(S) /\ Len(block) = n
<1>1. block \in Seq(S)
  BY SeqDef
<1>2. Len(block) \in Nat /\ 1..Len(block) = 1..n
  BY <1>1, LenProperties
<1>3. \A k \in Nat : 1..k = 1..n => k = n
  <2> SUFFICES ASSUME NEW k \in Nat, 1..k = 1..n PROVE k = n
    OBVIOUS
  <2>1. CASE k < n
    <3>1. n \in 1..n /\ n \notin 1..k
      BY <2>1
    <3> QED
      BY <3>1
  <2>2. CASE n < k
    <3>1. k \in 1..k /\ k \notin 1..n
      BY <2>2
    <3> QED
      BY <3>1
  <2> QED
    BY <2>1, <2>2
<1> QED
  BY <1>1, <1>2, <1>3

(* A slice assignment keeps the size and the type of a block.              *)
LEMMA WriteBlockIsBlock ==
  ASSUME NEW S, NEW n \in Nat, NEW block \in [1..n -> S],
         NEW address \in Nat, NEW values \in Seq(S)
  PROVE  /\ WriteBlock(block, address, values) \in [1..n -> S]
         /\ \A i \in 1..n : WriteBlock(block, address, values)[i] =
              IF i \in address + 1 .. address + Len(values) THEN values[i - address]
                                                            ELSE block[i]
<1>1. Len(block) = n /\ Len(values) \in Nat
  BY BlockIsSeq, LenProperties
<1>2. \A i \in 1..n : i \in address + 1 .. address + Len(values) =>
                        values[i - address] \in S
  <2> SUFFICES ASSUME NEW i \in 1..n, i \in address + 1 .. address + Len(values)
               PROVE  values[i - address] \in S
    OBVIOUS
  <2>1. i - address \in 1..Len(values)
    BY <1>1
  <2> QED
    BY <2>1, ElementOfSeq
<1> QED
  BY <1>1, <1>2 DEF WriteBlock

(* A supported function code works on one of the four regions.             *)
LEMMA RegionIsRegion ==
  ASSUME NEW fc \in WRITE_CODES
  PROVE  RegionOf(fc) \in Regions /\ fc \notin READ_CODES
BY DEF WRITE_CODES, SINGLE_WRITE_CODES, MULTI_WRITE_CODES, READ_CODES, RegionOf, Regions,
       COILS, DISCRETE_INPUTS, HOLDING_REGISTERS, INPUT_REGISTERS, READ_COILS,
       READ_DISCRETE_INPUTS, READ_HOLDING_REGISTERS, READ_INPUT_REGISTERS,
       WRITE_SINGLE_COIL, WRITE_SINGLE_REGISTER, WRITE_MULTIPLE_COILS,
       WRITE_MULTIPLE_REGISTERS

(* A device whose block of one region is replaced by a block is a device.  *)
LEMMA ReplaceBlock ==
  ASSUME NEW d, IsDevice(d, Sizes, Registers), NEW R \in Regions,
         NEW block \in [1..Sizes[R] -> ValuesOf(R)]
  PROVE  IsDevice([d EXCEPT ![R] = block], Sizes, Registers)
BY DEF IsDevice, ValuesOf

(* The response carries the verdict, whatever it is.                       *)
LEMMA ResponseTellsVerdict ==
  ASSUME NEW d, NEW req \in Requests
  PROVE  /\ Response(d, req).error = Verdict(d, req)
         /\ DOMAIN Response(d, req) = DOMAIN NoRequest
         /\ Verdict(d, req) = NO_EXCEPTION => req.error = NO_EXCEPTION /\ Decoded(req)
<1>1. Verdict(d, req) = NO_EXCEPTION => req.error = NO_EXCEPTION /\ Decoded(req)
  BY RequestsAssumption DEF Verdict
<1>2. DOMAIN req = DOMAIN NoRequest
  BY RequestsAssumption DEF NoRequest
<1>3. CASE Verdict(d, req) = NO_EXCEPTION
  <2>1. Response(d, req) = Answer(d, req)
    BY <1>3 DEF Response
  <2>2. Answer(d, req).error = NO_EXCEPTION /\ DOMAIN Answer(d, req) = DOMAIN NoRequest
    BY <1>1, <1>2, <1>3 DEF Answer, NoRequest
  <2> QED
    BY <1>1, <1>3, <2>1, <2>2
<1>4. CASE Verdict(d, req) # NO_EXCEPTION
  BY <1>1, <1>4 DEF Response, Exception, NoRequest
<1> QED
  BY <1>3, <1>4

(* The slots a request names are those that WriteBlock writes, so Learn    *)
(* replays what Effect did.                                                *)
LEMMA LearnReplaysEffect ==
  ASSUME NEW d, IsDevice(d, Sizes, Registers),
         NEW view, IsDevice(view, Sizes, Registers), NEW req \in Requests,
         req.fc \in WRITE_CODES, Verdict(d, req) = NO_EXCEPTION
  PROVE  LET R == RegionOf(req.fc)
         IN  /\ Effect(d, req) =
                  [d EXCEPT ![R] = WriteBlock(d[R], req.address, req.values)]
             /\ Learn(view, req, Response(d, req)) =
                  [view EXCEPT ![R] = WriteBlock(view[R], req.address, req.values)]
             /\ WriteBlock(d[R], req.address, req.values) \in [1..Sizes[R] -> ValuesOf(R)]
             /\ WriteBlock(view[R], req.address, req.values) \in [1..Sizes[R] -> ValuesOf(R)]
             /\ \A i \in 1..Sizes[R] :
                  IF <<R, i - 1>> \in Named(req)
                  THEN WriteBlock(d[R], req.address, req.values)[i] =
                         WriteBlock(view[R], req.address, req.values)[i]
                  ELSE /\ WriteBlock(d[R], req.address, req.values)[i] = d[R][i]
                       /\ WriteBlock(view[R], req.address, req.values)[i] = view[R][i]
<1> DEFINE R == RegionOf(req.fc)
           n == Sizes[R]
           S == ValuesOf(R)
<1>1. /\ R \in Regions /\ n \in Nat /\ req.fc \notin READ_CODES
      /\ req.address \in Nat /\ req.values \in Seq(S) /\ Len(req.values) \in Nat
  <2>1. R \in Regions /\ req.fc \notin READ_CODES
    BY RegionIsRegion
  <2>2. Decoded(req)
    BY ResponseTellsVerdict
  <2> QED
    BY <2>1, <2>2, SizesAssumption, LenProperties DEF Decoded
<1>2. d[R] \in [1..n -> S] /\ view[R] \in [1..n -> S]
  BY <1>1 DEF IsDevice, ValuesOf
<1>3. \A i \in 1..n : <<R, i - 1>> \in Named(req)
                        <=> i \in req.address + 1 .. req.address + Len(req.values)
  <2> SUFFICES ASSUME NEW i \in 1..n
               PROVE  <<R, i - 1>> \in Named(req)
                        <=> i \in req.address + 1 .. req.address + Len(req.values)
    OBVIOUS
  <2>1. Named(req) = {R} \X (req.address .. req.address + Len(req.values) - 1)
    BY <1>1 DEF Named, Quantity
  <2>2. <<R, i - 1>> \in Named(req)
          <=> i - 1 \in req.address .. req.address + Len(req.values) - 1
    BY <2>1
  <2> HIDE DEF R, n
  <2> QED
    BY <1>1, <2>2
<1> DEFINE Written(block) == WriteBlock(block, req.address, req.values)
<1>4. ASSUME NEW block \in [1..n -> S]
      PROVE  /\ Written(block) \in [1..n -> S]
             /\ \A i \in 1..n : Written(block)[i] =
                  IF <<R, i - 1>> \in Named(req) THEN req.values[i - req.address] ELSE block[i]
             /\ Written(block) =
                  [i \in 1..n |-> IF <<R, i - 1>> \in Named(req)
                                  THEN req.values[i - req.address] ELSE block[i]]
  <2>1. /\ Written(block) \in [1..n -> S]
        /\ \A i \in 1..n : Written(block)[i] =
             IF i \in req.address + 1 .. req.address + Len(req.values)
             THEN req.values[i - req.address] ELSE block[i]
    <3> HIDE DEF R, n, S
    <3>1. WriteBlock(block, req.address, req.values) \in [1..n -> S]
      BY <1>1, WriteBlockIsBlock
    <3>2. \A i \in 1..n : WriteBlock(block, req.address, req.values)[i] =
            IF i \in req.address + 1 .. req.address + Len(req.values)
            THEN req.values[i - req.address] ELSE block[i]
      BY <1>1, WriteBlockIsBlock
    <3> QED
      BY <3>1, <3>2
  <2> HIDE DEF Written, R, n, S
  <2>2. \A i \in 1..n : Written(block)[i] =
          IF <<R, i - 1>> \in Named(req) THEN req.values[i - req.address] ELSE block[i]
    BY <1>3, <2>1
  <2> QED
    BY <2>1, <2>2
<1>5. Effect(d, req) = [d EXCEPT ![R] = Written(d[R])]
  BY DEF Effect
<1>6. Learn(view, req, Response(d, req)) = [view EXCEPT ![R] = Written(view[R])]
  <2>1. Response(d, req).error = NO_EXCEPTION
    BY ResponseTellsVerdict
  <2>2. Learn(view, req, Response(d, req)) =
          [view EXCEPT ![R] = [i \in DOMAIN view[R] |->
             IF <<R, i - 1>> \in Named(req) THEN req.values[i - req.address] ELSE view[R][i]]]
    BY <2>1 DEF Learn
  <2>3. DOMAIN view[R] = 1..n
    BY <1>2
  <2> HIDE DEF Written, R, n, S
  <2> QED
    BY <1>2, <1>4, <2>2, <2>3
<1> HIDE DEF Written, R, n, S
<1>7. /\ Written(d[R]) \in [1..n -> S] /\ Written(view[R]) \in [1..n -> S]
      /\ \A i \in 1..n : IF <<R, i - 1>> \in Named(req)
                         THEN Written(d[R])[i] = Written(view[R])[i]
                         ELSE /\ Written(d[R])[i] = d[R][i]
                              /\ Written(view[R])[i] = view[R][i]
  BY <1>2, <1>4
<1> QED
  BY <1>5, <1>6, <1>7 DEF Written, R, n, S

-----------------------------------------------------------------------------
IInv == TypeOK /\ AcknowledgedIsApplied

(* A slot of the device, address by address.                               *)
LEMMA AgreementBySlot ==
  ASSUME NEW d, NEW view
  PROVE  (\A slot \in AllSlots \ Generated : ValueAt(view, slot) = ValueAt(d, slot))
           <=> \A r \in Regions : \A i \in 1..Sizes[r] :
                 <<r, i - 1>> \notin Generated => view[r][i] = d[r][i]
<1> DEFINE BySlot == \A slot \in AllSlots \ Generated : ValueAt(view, slot) = ValueAt(d, slot)
           ByIndex == \A r \in Regions : \A i \in 1..Sizes[r] :
                        <<r, i - 1>> \notin Generated => view[r][i] = d[r][i]
<1>1. ASSUME BySlot, NEW r \in Regions, NEW i \in 1..Sizes[r], <<r, i - 1>> \notin Generated
      PROVE  view[r][i] = d[r][i]
  <2>1. i - 1 \in 0..Sizes[r] - 1 /\ (i - 1) + 1 = i
    BY SizesAssumption
  <2>2. <<r, i - 1>> \in AllSlots
    BY <2>1 DEF AllSlots, Slots
  <2>3. ValueAt(view, <<r, i - 1>>) = ValueAt(d, <<r, i - 1>>)
    BY <1>1, <2>2
  <2> QED
    BY <2>1, <2>3 DEF ValueAt
<1>2. ASSUME ByIndex, NEW slot \in AllSlots \ Generated
      PROVE  ValueAt(view, slot) = ValueAt(d, slot)
  <2>1. PICK r \in Regions : slot \in {r} \X (0..Sizes[r] - 1)
    BY DEF AllSlots, Slots
  <2>2. slot = <<r, slot[2]>> /\ slot[1] = r /\ slot[2] \in 0..Sizes[r] - 1
    BY <2>1
  <2>3. slot[2] + 1 \in 1..Sizes[r] /\ (slot[2] + 1) - 1 = slot[2]
    BY <2>2, SizesAssumption
  <2>4. view[r][slot[2] + 1] = d[r][slot[2] + 1]
    BY <1>2, <2>2, <2>3
  <2> QED
    BY <2>2, <2>4 DEF ValueAt
<1> QED
  BY <1>1, <1>2

LEMMA InitEstablishesIInv == Init => IInv
<1> SUFFICES ASSUME Init PROVE IInv
  OBVIOUS
<1>1. IsDevice(Zeroed, Sizes, Registers)
  BY RegistersAssumption DEF IsDevice, Zeroed
<1>2. TypeOK
  BY <1>1 DEF Init, TypeOK
<1>3. AcknowledgedIsApplied
  BY DEF Init, AcknowledgedIsApplied
<1> QED
  BY <1>2, <1>3 DEF IInv

(* process_pdu: a write that is acknowledged is written and learned alike, *)
(* any other request leaves the device and the view alone.                 *)
LEMMA HandleKeepsIInv ==
  ASSUME IInv, NEW req \in Requests, Handle(req)
  PROVE  IInv'
<1>1. IsDevice(device, Sizes, Registers) /\ IsDevice(believed, Sizes, Registers)
  BY DEF IInv, TypeOK
<1>2. /\ device' = Effect(device, req)
      /\ believed' = Learn(believed, req, Response(device, req))
      /\ request' = req /\ response' = Response(device, req)
  BY DEF Handle
<1>3. request' \in Requests \cup {NoRequest} /\ DOMAIN response' = DOMAIN NoRequest
  BY <1>2, ResponseTellsVerdict
<1>4. CASE req.fc \in WRITE_CODES /\ Verdict(device, req) = NO_EXCEPTION
  <2> DEFINE R == RegionOf(req.fc)
             new == WriteBlock(device[R], req.address, req.values)
             seen == WriteBlock(believed[R], req.address, req.values)
  <2>1. R \in Regions
    BY <1>4, RegionIsRegion
  <2>2. /\ device' = [device EXCEPT ![R] = new]
        /\ believed' = [believed EXCEPT ![R] = seen]
        /\ new \in [1..Sizes[R] -> ValuesOf(R)] /\ seen \in [1..Sizes[R] -> ValuesOf(R)]
        /\ \A i \in 1..Sizes[R] : IF <<R, i - 1>> \in Named(req) THEN new[i] = seen[i]
                                  ELSE new[i] = device[R][i] /\ seen[i] = believed[R][i]
    BY <1>1, <1>2, <1>4, LearnReplaysEffect
  <2> HIDE DEF R, new, seen
  <2>3. IsDevice(device', Sizes, Registers) /\ IsDevice(believed', Sizes, Registers)
    BY <1>1, <2>1, <2>2, ReplaceBlock
  <2>4. DOMAIN device = Regions /\ DOMAIN believed = Regions
    BY <1>1 DEF IsDevice
  <2>5. \A r \in Regions : \A i \in 1..Sizes[r] :
          <<r, i - 1>> \notin Generated => believed[r][i] = device[r][i]
    BY ZenonT(40), AgreementBySlot DEF IInv, AcknowledgedIsApplied
  <2>6. \A r \in Regions : \A i \in 1..Sizes[r] :
          <<r, i - 1>> \notin Generated => believed'[r][i] = device'[r][i]
    <3> SUFFICES ASSUME NEW r \in Regions, NEW i \in 1..Sizes[r], <<r, i - 1>> \notin Generated
                 PROVE  believed'[r][i] = device'[r][i]
      OBVIOUS
    <3>1. CASE r = R
      <4>1. device'[r] = new /\ believed'[r] = seen
        BY <2>1, <2>2, <2>4, <3>1
      <4>2. believed[r][i] = device[r][i]
        BY <2>5
      <4> QED
        BY <2>2, <3>1, <4>1, <4>2
    <3>2. CASE r # R
      <4>1. device'[r] = device[r] /\ believed'[r] = believed[r]
        BY <2>2, <2>4, <3>2
      <4> QED
        BY <2>5, <4>1
    <3> QED
      BY <3>1, <3>2
  <2>7. AcknowledgedIsApplied'
    BY <2>6, AgreementBySlot DEF AcknowledgedIsApplied
  <2> QED
    BY <1>3, <2>3, <2>7 DEF IInv, TypeOK
<1>5. CASE ~(req.fc \in WRITE_CODES /\ Verdict(device, req) = NO_EXCEPTION)
  <2>1. device' = device
    BY <1>2, <1>5 DEF Effect
  <2>2. believed' = believed
    BY <1>2, <1>5, ResponseTellsVerdict DEF Learn
  <2> QED
    BY <1>3, <2>1, <2>2 DEF IInv, TypeOK, AcknowledgedIsApplied, ValueAt
<1> QED
  BY <1>4, <1>5

(* GeneratorBinding.update touches one slot, and that one is Generated.    *)
LEMMA UpdateKeepsIInv ==
  ASSUME IInv, NEW slot \in Generated, NEW value \in Registers, Update(slot, value)
  PROVE  IInv'
<1> DEFINE R == slot[1]
           a == slot[2]
           block == SetSlot(device[R], a, value)
<1>1. /\ IsDevice(device, Sizes, Registers) /\ R \in RegisterRegions
      /\ a \in 0..Sizes[R] - 1
  BY GeneratedAssumption DEF IInv, TypeOK
<1>2. R \in Regions /\ R \notin BitRegions /\ Sizes[R] \in Nat
  BY <1>1, SizesAssumption
     DEF RegisterRegions, Regions, BitRegions, COILS, DISCRETE_INPUTS, HOLDING_REGISTERS,
         INPUT_REGISTERS
<1>3. device' = [device EXCEPT ![R] = block]
  BY DEF Update
<1>4. /\ block \in [1..Sizes[R] -> ValuesOf(R)]
      /\ \A i \in 1..Sizes[R] : i # a + 1 => block[i] = device[R][i]
  BY <1>1, <1>2 DEF SetSlot, IsDevice, ValuesOf
<1> HIDE DEF block
<1>5. IsDevice(device', Sizes, Registers)
  BY <1>1, <1>2, <1>3, <1>4, ReplaceBlock
<1>6. TypeOK'
  BY <1>5 DEF IInv, TypeOK, Update
<1>7. AcknowledgedIsApplied'
  <2>1. \A r \in Regions : \A i \in 1..Sizes[r] :
          <<r, i - 1>> \notin Generated => believed[r][i] = device[r][i]
    BY AgreementBySlot DEF IInv, AcknowledgedIsApplied
  <2>2. ASSUME NEW r \in Regions, NEW i \in 1..Sizes[r], <<r, i - 1>> \notin Generated
        PROVE  device'[r][i] = device[r][i]
    <3>1. DOMAIN device = Regions
      BY <1>1 DEF IsDevice
    <3>2. CASE r = R
      <4>1. slot = <<R, a>>
        BY GeneratedAssumption
      <4>2. i # a + 1
        BY <1>1, <1>2, <2>2, <3>2, <4>1
      <4> QED
        BY <1>2, <1>3, <1>4, <3>1, <3>2, <4>2
    <3>3. CASE r # R
      BY <1>3, <3>1, <3>3
    <3> QED
      BY <3>2, <3>3
  <2>3. believed' = believed
    BY DEF Update
  <2>4. \A r \in Regions : \A i \in 1..Sizes[r] :
          <<r, i - 1>> \notin Generated => believed'[r][i] = device'[r][i]
    BY <2>1, <2>2, <2>3
  <2> QED
    BY <2>4, AgreementBySlot DEF AcknowledgedIsApplied
<1> QED
  BY <1>6, <1>7 DEF IInv

LEMMA StepKeepsIInv == IInv /\ [Next]_vars => IInv'
<1> SUFFICES ASSUME IInv, [Next]_vars PROVE IInv'
  OBVIOUS
<1>1. CASE \E req \in Requests : Handle(req)
  BY <1>1, HandleKeepsIInv
<1>2. CASE \E slot \in Generated, value \in Registers : Update(slot, value)
  BY <1>2, UpdateKeepsIInv
<1>3. CASE UNCHANGED vars
  BY <1>3 DEF vars, IInv, TypeOK, AcknowledgedIsApplied, ValueAt
<1> QED
  BY <1>1, <1>2, <1>3 DEF Next

THEOREM IInvHolds == Spec => []IInv
BY InitEstablishesIInv, StepKeepsIInv, PTL DEF Spec

(* The blocks keep their sizes and the types of their values under every   *)
(* request that decode_request_pdu can yield and every update.             *)
THEOREM TypeCorrect == Spec => []TypeOK
<1>1. IInv => TypeOK
  BY DEF IInv
<1> QED
  BY <1>1, IInvHolds, PTL

(* Whoever replays the acknowledged writes has the device's contents: what *)
(* process_pdu acknowledges it has written, in full and at the slots named *)
(* in the request, and what it refuses has left no trace.                  *)
THEOREM AcknowledgedIsAlwaysApplied == Spec => []AcknowledgedIsApplied
<1>1. IInv => AcknowledgedIsApplied
  BY DEF IInv
<1> QED
  BY <1>1, IInvHolds, PTL

-----------------------------------------------------------------------------
(* A step changes only what it may: an update a generated slot, a request  *)
(* that is acknowledged the slots it names, any other request none.        *)
LEMMA StepChangesNamedSlots ==
  ASSUME IInv, Next
  PROVE  \/ ChangedSlots \subseteq Generated /\ UNCHANGED response
         \/ /\ request'.fc \in WRITE_CODES
            /\ response'.error = NO_EXCEPTION
            /\ ChangedSlots \subseteq Named(request')
         \/ ChangedSlots = {}
<1>1. IsDevice(device, Sizes, Registers) /\ IsDevice(believed, Sizes, Registers)
      /\ DOMAIN device = Regions
  BY DEF IInv, TypeOK, IsDevice
<1>2. ASSUME NEW slot \in Generated, NEW value \in Registers, Update(slot, value)
      PROVE  ChangedSlots \subseteq Generated /\ UNCHANGED response
  <2> SUFFICES ASSUME NEW other \in AllSlots, other # slot
               PROVE  ValueAt(device, other)' = ValueAt(device, other)
    BY <1>2 DEF ChangedSlots, Update
  <2>1. /\ slot = <<slot[1], slot[2]>> /\ slot[1] \in Regions
        /\ slot[2] \in Int
    BY GeneratedAssumption, SizesAssumption DEF RegisterRegions, Regions
  <2>2. /\ other = <<other[1], other[2]>> /\ other[1] \in Regions
        /\ other[2] \in 0..Sizes[other[1]] - 1
    BY DEF AllSlots, Slots
  <2>3. device' = [device EXCEPT ![slot[1]] = [@ EXCEPT ![slot[2] + 1] = value]]
    BY <1>2 DEF Update, SetSlot
  <2>4. DOMAIN device[other[1]] = 1..Sizes[other[1]]
    BY <1>1, <2>2 DEF IsDevice
  <2>5. device'[other[1]][other[2] + 1] = device[other[1]][other[2] + 1]
    <3>1. CASE other[1] = slot[1]
      <4>1. other[2] # slot[2]
        BY <2>1, <2>2, <3>1
      <4>2. other[2] + 1 # slot[2] + 1 /\ other[2] + 1 \in 1..Sizes[other[1]]
        BY <2>1, <2>2, <4>1, SizesAssumption
      <4>3. device'[other[1]] = [device[other[1]] EXCEPT ![slot[2] + 1] = value]
        BY <1>1, <2>2, <2>3, <3>1
      <4> QED
        BY <2>4, <4>2, <4>3
    <3>2. CASE other[1] # slot[1]
      BY <1>1, <2>2, <2>3, <3>2
    <3> QED
      BY <3>1, <3>2
  <2> QED
    BY <2>5 DEF ValueAt
<1>3. ASSUME NEW req \in Requests, Handle(req),
             req.fc \in WRITE_CODES, Verdict(device, req) = NO_EXCEPTION
      PROVE  /\ request'.fc \in WRITE_CODES
             /\ response'.error = NO_EXCEPTION
             /\ ChangedSlots \subseteq Named(request')
  <2> DEFINE R == RegionOf(req.fc)
             new == WriteBlock(device[R], req.address, req.values)
  <2>1. /\ device' = [device EXCEPT ![R] = new]
        /\ \A i \in 1..Sizes[R] : <<R, i - 1>> \notin Named(req) => new[i] = device[R][i]
    BY <1>1, <1>3, LearnReplaysEffect DEF Handle
  <2>2. request' = req /\ response' = Response(device, req)
    BY <1>3 DEF Handle
  <2>3. R \in Regions
    BY <1>3, RegionIsRegion
  <2> HIDE DEF R, new
  <2>4. ASSUME NEW slot \in AllSlots, slot \notin Named(req)
        PROVE  ValueAt(device, slot)' = ValueAt(device, slot)
    <3>1. /\ slot = <<slot[1], slot[2]>> /\ slot[1] \in Regions
          /\ slot[2] \in 0..Sizes[slot[1]] - 1
      BY DEF AllSlots, Slots
    <3>2. slot[2] + 1 \in 1..Sizes[slot[1]] /\ (slot[2] + 1) - 1 = slot[2]
      BY <3>1, SizesAssumption
    <3>3. device'[slot[1]][slot[2] + 1] = device[slot[1]][slot[2] + 1]
      BY <1>1, <2>1, <2>3, <2>4, <3>1, <3>2
    <3> QED
      BY <3>3 DEF ValueAt
  <2>5. ChangedSlots \subseteq Named(req)
    BY <2>4 DEF ChangedSlots
  <2> QED
    BY <1>3, <2>2, <2>5, ResponseTellsVerdict
<1>4. ASSUME NEW req \in Requests, Handle(req),
             ~(req.fc \in WRITE_CODES /\ Verdict(device, req) = NO_EXCEPTION)
      PROVE  ChangedSlots = {}
  <2>1. device' = device
    BY <1>4 DEF Handle, Effect
  <2> QED
    BY <2>1 DEF ChangedSlots, ValueAt
<1> QED
  BY <1>2, <1>3, <1>4 DEF Next

(* No step of process_pdu or GeneratorBinding.update touches a slot beyond *)
(* those its request names or its binding owns, and a request that gets an *)
(* exception changes nothing.                                              *)
THEOREM OnlyNamedSlotsEverChange == Spec => OnlyNamedSlotsChange
<1>1. IInv /\ [Next]_vars =>
        [\/ ChangedSlots \subseteq Generated /\ UNCHANGED response
         \/ /\ request'.fc \in WRITE_CODES
            /\ response'.error = NO_EXCEPTION
            /\ ChangedSlots \subseteq Named(request')
         \/ ChangedSlots = {}]_vars
  BY StepChangesNamedSlots
<1> QED
  BY <1>1, IInvHolds, PTL DEF Spec, OnlyNamedSlotsChange

-----------------------------------------------------------------------------
(* Every supported function code works on one of the four regions.         *)
LEMMA SupportedRegion ==
  ASSUME NEW fc \in SUPPORTED_FUNCTION_CODES
  PROVE  RegionOf(fc) \in Regions
<1>1. CASE fc \in WRITE_CODES
  BY <1>1, RegionIsRegion
<1>2. CASE fc \in READ_CODES
  BY <1>2 DEF READ_CODES, RegionOf, Regions, COILS, DISCRETE_INPUTS, HOLDING_REGISTERS,
              INPUT_REGISTERS, READ_COILS, READ_DISCRETE_INPUTS, READ_HOLDING_REGISTERS,
              READ_INPUT_REGISTERS, WRITE_SINGLE_COIL, WRITE_SINGLE_REGISTER,
              WRITE_MULTIPLE_COILS, WRITE_MULTIPLE_REGISTERS
<1> QED
  BY <1>1, <1>2 DEF SUPPORTED_FUNCTION_CODES, WRITE_CODES, SINGLE_WRITE_CODES

(* MemoryBlock._check accepts a range of at least one slot exactly if all  *)
(* slots that the request names exist.                                     *)
LEMMA RangeCheckIsExact ==
  ASSUME NEW d, IsDevice(d, Sizes, Registers), NEW req \in Requests, Decoded(req),
         Quantity(req) \in Nat \ {0}
  PROVE  AddressAccepted(d, req) <=> Named(req) \subseteq AllSlots
<1> DEFINE R == RegionOf(req.fc)
           n == Sizes[R]
           a == req.address
           q == Quantity(req)
<1>1. R \in Regions /\ n \in Nat /\ a \in Nat /\ q \in Nat \ {0}
  BY SupportedRegion, SizesAssumption DEF Decoded
<1>2. Len(d[R]) = n
  <2>1. d[R] \in [1..n -> ValuesOf(R)]
    BY <1>1 DEF IsDevice, ValuesOf
  <2> HIDE DEF R, n
  <2> QED
    BY <1>1, <2>1, BlockIsSeq
<1>3. Named(req) = {R} \X (a .. a + q - 1)
  BY DEF Named
<1>4. AddressAccepted(d, req) <=> a + q <= n
  BY <1>1, <1>2 DEF AddressAccepted, InBlock
<1> HIDE DEF R, n, a, q
<1>5. ASSUME a + q <= n PROVE {R} \X (a .. a + q - 1) \subseteq Slots(R)
  BY <1>1, <1>5 DEF Slots, n
<1>6. ASSUME Named(req) \subseteq AllSlots PROVE a + q <= n
  <2>1. a + q - 1 \in a .. a + q - 1
    BY <1>1
  <2>2. <<R, a + q - 1>> \in AllSlots
    BY <1>3, <1>6, <2>1
  <2>3. PICK r \in Regions : <<R, a + q - 1>> \in {r} \X (0..Sizes[r] - 1)
    BY <2>2 DEF AllSlots, Slots
  <2>4. a + q - 1 \in 0 .. n - 1
    BY <2>3 DEF n
  <2> QED
    BY <1>1, <2>4
<1> QED
  BY <1>1, <1>3, <1>4, <1>5, <1>6 DEF AllSlots

(* What Handle answers has the documented priority.                        *)
LEMMA VerdictHasPriority ==
  ASSUME NEW d, IsDevice(d, Sizes, Registers), NEW req \in Requests
  PROVE  IF req.error # NO_EXCEPTION THEN Verdict(d, req) = req.error
         ELSE IF req.fc \notin SINGLE_WRITE_CODES
                   /\ (Quantity(req) = 0 \/ Quantity(req) > LimitOf(req.fc))
         THEN Verdict(d, req) = ILLEGAL_DATA_VALUE
         ELSE Verdict(d, req) = IF Named(req) \subseteq AllSlots
                                THEN NO_EXCEPTION ELSE ILLEGAL_DATA_ADDRESS
<1>1. CASE req.error # NO_EXCEPTION
  BY <1>1 DEF Verdict
<1>2. CASE req.error = NO_EXCEPTION
  <2>1. Decoded(req)
    BY <1>2, RequestsAssumption
  <2>2. Quantity(req) \in Nat
    <3>1. CASE req.fc \in READ_CODES
      BY <2>1, <3>1 DEF Quantity, Decoded
    <3>2. CASE req.fc \in WRITE_CODES
      <4>1. req.values \in Seq(ValuesOf(RegionOf(req.fc))) /\ req.fc \notin READ_CODES
        BY <2>1, <3>2, RegionIsRegion DEF Decoded
      <4> QED
        BY <4>1, LenProperties DEF Quantity
    <3> QED
      BY <2>1, <3>1, <3>2 DEF Decoded, SUPPORTED_FUNCTION_CODES, WRITE_CODES, SINGLE_WRITE_CODES
  <2>3. req.fc \in SINGLE_WRITE_CODES => Quantity(req) = 1
    <3>1. req.fc \in SINGLE_WRITE_CODES => req.fc \notin READ_CODES
      BY RegionIsRegion DEF WRITE_CODES
    <3> QED
      BY <2>1, <3>1 DEF Quantity, Decoded
  <2>4. LimitOf(req.fc) \in Nat \/ req.fc \in SINGLE_WRITE_CODES
    <3>1. CASE req.fc \in READ_CODES
      BY <3>1, LimitsAssumption
         DEF LimitOf, READ_CODES, READ_COILS, READ_DISCRETE_INPUTS, READ_HOLDING_REGISTERS,
             READ_INPUT_REGISTERS, WRITE_MULTIPLE_COILS, WRITE_MULTIPLE_REGISTERS
    <3>2. CASE req.fc \in MULTI_WRITE_CODES
      BY <3>2, LimitsAssumption
         DEF LimitOf, MULTI_WRITE_CODES, READ_COILS, READ_DISCRETE_INPUTS,
             READ_HOLDING_REGISTERS, READ_INPUT_REGISTERS, WRITE_MULTIPLE_COILS,
             WRITE_MULTIPLE_REGISTERS
    <3> QED
      BY <2>1, <3>1, <3>2 DEF Decoded, SUPPORTED_FUNCTION_CODES, SINGLE_WRITE_CODES
  <2>5. CASE req.fc \notin SINGLE_WRITE_CODES
               /\ (Quantity(req) = 0 \/ Quantity(req) > LimitOf(req.fc))
    BY <1>2, <2>2, <2>4, <2>5 DEF Verdict, QuantityAccepted
  <2>6. CASE ~(req.fc \notin SINGLE_WRITE_CODES
                 /\ (Quantity(req) = 0 \/ Quantity(req) > LimitOf(req.fc)))
    <3>1. QuantityAccepted(req) /\ Quantity(req) \in Nat \ {0}
      BY <2>2, <2>3, <2>4, <2>6 DEF QuantityAccepted
    <3>2. AddressAccepted(d, req) <=> Named(req) \subseteq AllSlots
      BY <2>1, <3>1, RangeCheckIsExact
    <3> QED
      BY <1>2, <2>6, <3>1, <3>2 DEF Verdict
  <2> QED
    BY <1>2, <2>5, <2>6
<1> QED
  BY <1>1, <1>2

LEMMA StepKeepsPriority == IInv /\ ExceptionPriority /\ [Next]_vars => ExceptionPriority'
<1> SUFFICES ASSUME IInv, ExceptionPriority, [Next]_vars PROVE ExceptionPriority'
  OBVIOUS
<1>1. ASSUME NEW req \in Requests, Handle(req) PROVE ExceptionPriority'
  <2>1. request' = req /\ response'.error = Verdict(device, req)
    BY <1>1, ResponseTellsVerdict DEF Handle
  <2>2. IsDevice(device, Sizes, Registers)
    BY DEF IInv, TypeOK
  <2> QED
    BY <2>1, <2>2, VerdictHasPriority DEF ExceptionPriority
<1>2. CASE UNCHANGED <<request, response>>
  BY <1>2 DEF ExceptionPriority
<1> QED
  BY <1>1, <1>2 DEF Next, Update, vars

(* The exception code is always the first in the order 01, 03, 02, and     *)
(* there is one exactly if the quantity is illegal or a slot is missing.   *)
THEOREM ExceptionPriorityHolds == Spec => []ExceptionPriority
<1>1. Init => ExceptionPriority
  BY DEF Init, ExceptionPriority
<1> QED
  BY <1>1, IInvHolds, StepKeepsPriority, PTL DEF Spec

-----------------------------------------------------------------------------
(* A read that is not refused answers with the slots it names, in order.   *)
LEMMA ReadReturnsSlots ==
  ASSUME NEW d, IsDevice(d, Sizes, Registers), NEW req \in Requests,
         req.fc \in READ_CODES, Verdict(d, req) = NO_EXCEPTION
  PROVE  /\ Len(Response(d, req).values) = req.count
         /\ Named(req) \subseteq AllSlots
         /\ \A slot \in Named(req) :
              Response(d, req).values[slot[2] - req.address + 1] = ValueAt(d, slot)
<1> DEFINE R == RegionOf(req.fc)
           n == Sizes[R]
           a == req.address
           q == req.count
<1>1. Decoded(req) /\ Quantity(req) = q
  BY ResponseTellsVerdict DEF Quantity
<1>2. R \in Regions /\ n \in Nat /\ a \in Nat /\ q \in Nat
  BY <1>1, SupportedRegion, SizesAssumption DEF Decoded
<1>3. d[R] \in [1..n -> ValuesOf(R)]
  BY <1>2 DEF IsDevice, ValuesOf
<1>4. AddressAccepted(d, req) /\ QuantityAccepted(req)
  BY DEF Verdict, ILLEGAL_DATA_VALUE, ILLEGAL_DATA_ADDRESS, NO_EXCEPTION
<1>5. Response(d, req).values = SubSeq(d[R], a + 1, a + q)
  BY DEF Response, Answer, ReadBlock
<1>6. Named(req) = {R} \X (a .. a + q - 1)
  BY <1>1 DEF Named
<1> HIDE DEF R, n, a, q
<1>7. d[R] \in Seq(ValuesOf(R)) /\ Len(d[R]) = n
  BY <1>2, <1>3, BlockIsSeq
<1>8. a + q <= n
  BY <1>1, <1>2, <1>4, <1>7 DEF AddressAccepted, InBlock, R, a
<1>9. /\ Len(SubSeq(d[R], a + 1, a + q)) = q
      /\ \A k \in 1..q : SubSeq(d[R], a + 1, a + q)[k] = d[R][a + k]
  <2>1. \A k \in a + 1 .. a + q : d[R][k] \in ValuesOf(R)
    BY <1>2, <1>3, <1>8
  <2>2. /\ Len(SubSeq(d[R], a + 1, a + q))
             = IF a + 1 <= a + q THEN a + q - (a + 1) + 1 ELSE 0
        /\ \A k \in 1 .. a + q - (a + 1) + 1 :
             SubSeq(d[R], a + 1, a + q)[k] = d[R][(a + 1) + k - 1]
    BY <1>2, <2>1, SubSeqProperties
  <2>3. a + q - (a + 1) + 1 = q /\ \A k \in 1..q : (a + 1) + k - 1 = a + k
    BY <1>2
  <2> QED
    BY <1>2, <2>2, <2>3
<1>10. ASSUME NEW slot \in Named(req)
       PROVE  /\ slot \in AllSlots
              /\ Response(d, req).values[slot[2] - a + 1] = ValueAt(d, slot)
  <2>1. slot = <<R, slot[2]>> /\ slot[1] = R /\ slot[2] \in a .. a + q - 1
    BY <1>6, <1>10
  <2>2. slot[2] - a + 1 \in 1..q /\ a + (slot[2] - a + 1) = slot[2] + 1
        /\ slot[2] \in 0 .. n - 1
    BY <1>2, <1>8, <2>1
  <2>3. slot \in AllSlots
    BY <1>2, <2>1, <2>2 DEF AllSlots, Slots, n
  <2>4. Response(d, req).values[slot[2] - a + 1] = d[R][slot[2] + 1]
    <3> DEFINE k == slot[2] - a + 1
               block == SubSeq(d[R], a + 1, a + q)
    <3>1. k \in 1..q /\ a + k = slot[2] + 1
      BY <2>2
    <3>2. \A j \in 1..q : block[j] = d[R][a + j]
      BY <1>9
    <3>3. Response(d, req).values = block
      BY <1>5
    <3> HIDE DEF k, block
    <3>4. block[k] = d[R][slot[2] + 1]
      BY <3>1, <3>2
    <3>5. Response(d, req).values[k] = d[R][slot[2] + 1]
      BY <3>3, <3>4
    <3> QED
      BY <3>5 DEF k
  <2> QED
    BY <2>1, <2>3, <2>4 DEF ValueAt
<1>11. Named(req) \subseteq AllSlots
  BY <1>10
<1> QED
  BY <1>5, <1>9, <1>10, <1>11 DEF a, q

LEMMA StepKeepsReads ==
  IInv /\ ReadsSeeAcknowledgedWrites /\ [Next]_vars => ReadsSeeAcknowledgedWrites'
<1> SUFFICES ASSUME IInv, ReadsSeeAcknowledgedWrites, [Next]_vars
             PROVE  ReadsSeeAcknowledgedWrites'
  OBVIOUS
<1>1. ASSUME NEW req \in Requests, Handle(req) PROVE ReadsSeeAcknowledgedWrites'
  <2>1. /\ request' = req /\ response' = Response(device, req)
        /\ believed' = Learn(believed, req, Response(device, req))
    BY <1>1 DEF Handle
  <2>2. CASE req.fc \in READ_CODES /\ Verdict(device, req) = NO_EXCEPTION
    <3>1. believed' = believed
      BY <2>1, <2>2, RegionIsRegion DEF Learn
    <3>2. IsDevice(device, Sizes, Registers)
      BY DEF IInv, TypeOK
    <3>3. /\ Len(response'.values) = req.count
          /\ Named(req) \subseteq AllSlots
          /\ \A slot \in Named(req) :
               response'.values[slot[2] - req.address + 1] = ValueAt(device, slot)
      BY <2>1, <2>2, <3>2, ReadReturnsSlots
    <3>4. \A slot \in Named(req) \ Generated :
            response'.values[slot[2] - req.address + 1] = ValueAt(believed, slot)
      BY <3>3 DEF IInv, AcknowledgedIsApplied
    <3> QED
      BY <2>1, <3>1, <3>3, <3>4 DEF ReadsSeeAcknowledgedWrites, ValueAt
  <2>3. CASE ~(req.fc \in READ_CODES /\ Verdict(device, req) = NO_EXCEPTION)
    BY <2>1, <2>3, ResponseTellsVerdict DEF ReadsSeeAcknowledgedWrites
  <2> QED
    BY <2>2, <2>3
<1>2. CASE UNCHANGED <<believed, request, response>>
  BY <1>2 DEF ReadsSeeAcknowledgedWrites, ValueAt
<1> QED
  BY <1>1, <1>2 DEF Next, Update, vars

(* A read that is answered returns what the acknowledged writes put into   *)
(* the slots it names, none more and none fewer, in their order.           *)
THEOREM ReadsAlwaysSeeWrites == Spec => []ReadsSeeAcknowledgedWrites
<1>1. Init => ReadsSeeAcknowledgedWrites
  BY DEF Init, ReadsSeeAcknowledgedWrites, NoRequest, READ_CODES, READ_COILS,
         READ_DISCRETE_INPUTS, READ_HOLDING_REGISTERS, READ_INPUT_REGISTERS
<1> QED
  BY <1>1, IInvHolds, StepKeepsReads, PTL DEF Spec
=============================================================================
