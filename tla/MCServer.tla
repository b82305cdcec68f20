------------------------------ MODULE MCServer ------------------------------
(***************************************************************************)
(* Two peers that share the register of unit 1 with a generator, and talk  *)
(* to unit 2, to a unit that does not exist, in a foreign protocol and in  *)
(* malformed frames.                                                       *)
(***************************************************************************)
EXTENDS Server

CONSTANTS c1, c2

MCConns == {c1, c2}

Blocks(coils, registers) ==
  [r \in Regions |-> CASE r = COILS -> coils [] r = HOLDING_REGISTERS -> registers
                       [] OTHER -> <<>>]
MCDevices == <<Blocks(<<>>, <<0>>), Blocks(<<FALSE>>, <<>>)>>

MCBindings == <<[unit |-> 1, region |-> HOLDING_REGISTERS, address |-> 0]>>
MCSamples == {0}
NoBindings == <<>>

Decoded(fc, address, count, values) ==
  [fc |-> fc, error |-> NO_EXCEPTION, address |-> address, count |-> count, values |-> values]
ReadRegister     == Decoded(READ_HOLDING_REGISTERS, 0, 1, <<>>)
WriteRegister(v) == Decoded(WRITE_SINGLE_REGISTER, 0, 0, <<v>>)
WriteCoil        == Decoded(WRITE_SINGLE_COIL, 0, 0, <<TRUE>>)
Missing          == Decoded(READ_COILS, 7, 1, <<>>)

AFrame(kind, tid, unit, request) ==
  [kind |-> kind, tid |-> tid, unit |-> unit, request |-> request]
Modbus(tid, unit, request) == AFrame("modbus", tid, unit, request)
Foreign(tid) == AFrame("foreign", tid, 1, ReadRegister)
BadLength    == AFrame("badlen", 0, 1, ReadRegister)

Pipelined == <<Modbus(1, 1, WriteRegister(1)), Foreign(2), Modbus(3, 1, ReadRegister),
               Modbus(4, 2, WriteCoil)>>
Malformed == <<Modbus(1, 2, WriteCoil), Modbus(2, 9, ReadRegister), BadLength,
               Modbus(3, 1, WriteRegister(1))>>
Competing == <<Modbus(1, 1, WriteRegister(2)), Modbus(2, 1, ReadRegister)>>
Exceptional == <<Modbus(1, 2, Missing), Modbus(1, 1, WriteRegister(2))>>

MCScripts ==
  {[c \in MCConns |-> IF c = c1 THEN a ELSE b] :
     a \in {Pipelined, Malformed}, b \in {Competing, Exceptional}}

(* c1's peer takes its responses, c2's may stop doing so.  Shorter scripts *)
(* keep the graph that the liveness properties are checked on small.       *)
MCReaders == {c1}
LiveScripts ==
  {[c \in MCConns |-> IF c = c1 THEN a ELSE <<Modbus(1, 1, WriteRegister(2))>>] :
     a \in {<<Modbus(1, 1, ReadRegister), Modbus(2, 2, WriteCoil)>>,
           <<Foreign(1), BadLength>>}}
LiveSpec == Spec /\ Fairness(MCReaders)
ReadersAreServed  == ArrivedIsServed(MCReaders)
HandlersAlwaysEnd == HandlersEnd(MCReaders)
=============================================================================
