----------------------------- MODULE Datastore ------------------------------
(***************************************************************************)
(* modbus_sim/datastore.py: MemoryBlock and Device.  A block is the        *)
(* sequence of its values, so its size is its length; the address a of     *)
(* the wire is element a+1.  A device is its four blocks.                  *)
(***************************************************************************)
EXTENDS Integers, Sequences

COILS             == "coils"
DISCRETE_INPUTS   == "discrete_inputs"
HOLDING_REGISTERS == "holding_registers"
INPUT_REGISTERS   == "input_registers"
Regions == {COILS, DISCRETE_INPUTS, HOLDING_REGISTERS, INPUT_REGISTERS}

BitRegions      == {COILS, DISCRETE_INPUTS}
RegisterRegions == {HOLDING_REGISTERS, INPUT_REGISTERS}

(* The devices with blocks of these sizes and registers from this set. *)
IsDevice(device, sizes, registers) ==
  /\ DOMAIN device = Regions
  /\ \A r \in Regions : device[r] \in [1..sizes[r] -> IF r \in BitRegions THEN BOOLEAN
                                                                      ELSE registers]

(* MemoryBlock._check: no IllegalDataAddress is raised. *)
InBlock(block, address, count) ==
  /\ address >= 0
  /\ count >= 0
  /\ address + count <= Len(block)

(* Mutant of ReadBlock: the end of the slice is off by one. *)
ReadBlockShort(block, address, count) == SubSeq(block, address + 1, address + count - 1)

(* Mutant of WriteBlock: the slice is open-ended, _values[address:] = values. *)
WriteBlockOpen(block, address, values) == SubSeq(block, 1, address) \o values

(* MemoryBlock.read and .write of a range that passed the check. *)
ReadBlock(block, address, count) == SubSeq(block, address + 1, address + count)

WriteBlock(block, address, values) ==
  [i \in 1..Len(block) |->
     IF i \in address + 1 .. address + Len(values) THEN values[i - address]
                                                   ELSE block[i]]

(* MemoryBlock.set, the generators' way in. *)
SetSlot(block, address, value) == [block EXCEPT ![address + 1] = value]
=============================================================================
