----------------------------- MODULE MCExchange -----------------------------
(***************************************************************************)
(* Calls on both sides of every limit of the protocol, at its real size:   *)
(* quantities around a byte, around the limits of the dispatcher and       *)
(* around what one ADU can hold; addresses at both ends of the regions and *)
(* of 16 bits; and raw PDUs that are well formed, cut short, padded or     *)
(* inconsistent.                                                           *)
(***************************************************************************)
EXTENDS Exchange

MCDevice ==
  [r \in Regions |->
     CASE r = COILS             -> [i \in 1..2005 |-> i % 3 = 0]
       [] r = DISCRETE_INPUTS   -> [i \in 1..10 |-> i % 2 = 0]
       [] r = HOLDING_REGISTERS -> [i \in 1..130 |-> (i * 509) % 65536]
       [] r = INPUT_REGISTERS   -> <<0, 256, 65535>>]

Call(fc, address, count, values) ==
  [kind |-> "call", request |-> Request(fc, address, count, values)]
Raw(pdu) == [kind |-> "raw", pdu |-> pdu]

ReadCalls ==
       {Call(READ_COILS, a, n, <<>>) :
          a \in {0, 3, 5, 65535, 65536}, n \in {0, 1, 7, 8, 9, 17, 2000, 2001, 65536}}
  \cup {Call(READ_DISCRETE_INPUTS, a, n, <<>>) : a \in {0, 1, 10}, n \in {1, 8, 9, 10}}
  \cup {Call(READ_HOLDING_REGISTERS, a, n, <<>>) :
          a \in {0, 5, 6, 129, 130}, n \in {0, 1, 2, 125, 126}}
  \cup {Call(READ_INPUT_REGISTERS, a, n, <<>>) : a \in {0, 2}, n \in {1, 3, 126}}

SingleWrites ==
       {Call(WRITE_SINGLE_COIL, a, 0, <<b>>) : a \in {0, 2004, 2005}, b \in BOOLEAN}
  \cup {Call(WRITE_SINGLE_REGISTER, a, 0, <<v>>) :
          a \in {0, 129, 130}, v \in {0, 255, 256, 65535, 65536}}

Stripes(n)   == [i \in 1..n |-> i % 3 # 1]
Staircase(n) == [i \in 1..n |-> (65535 + i) % 65536]

MultiWrites ==
       {Call(WRITE_MULTIPLE_COILS, a, 0, Stripes(n)) :
          a \in {0, 37}, n \in {0, 1, 8, 9, 1968, 1969, 2024, 2025, 2040, 2041}}
  \cup {Call(WRITE_MULTIPLE_REGISTERS, a, 0, Staircase(n)) :
          a \in {0, 8}, n \in {0, 1, 2, 122, 123, 124, 126, 127, 128}}

CodesOnWire == {0, READ_COILS, READ_INPUT_REGISTERS, WRITE_SINGLE_COIL,
                WRITE_SINGLE_REGISTER, 43, EXCEPTION_MASK + READ_COILS, 255}
Tails == UNION {[1..n -> {0, 1, 255}] : n \in 0..3}
           \cup {<<0, a, b, c>> : a \in {0, 9}, b \in {0, 1, 255}, c \in {0, 1, 255}}
           \cup {<<0, 0, 0, 1, 0>>}
RawPdus == {<<fc>> \o tail : fc \in CodesOnWire, tail \in Tails}

RawMultiWrites ==
  {<<fc, 0, 0, 0, n, bytes>> \o payload :
     fc \in MULTI_WRITE_CODES, n \in {0, 1, 2, 9}, bytes \in {0, 1, 2, 4},
     payload \in UNION {[1..k -> {0, 255}] : k \in {0, 1, 2, 4}}}

(* A write is followed by a read of what it wrote, everything else is done *)
(* alone.                                                                  *)
ReadBack(call) ==
  LET request == call.request
  IN  Call(IF RegionOf(request.fc) = COILS THEN READ_COILS ELSE READ_HOLDING_REGISTERS,
           request.address, Len(request.values), <<>>)

MCPlans ==
       {<<call>> : call \in ReadCalls}
  \cup {<<call, ReadBack(call)>> : call \in SingleWrites \cup MultiWrites}
  \cup {<<Raw(pdu)>> : pdu \in RawPdus \cup RawMultiWrites \cup {<<>>}}
=============================================================================
