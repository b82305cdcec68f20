------------------------------ MODULE MCClient ------------------------------
(***************************************************************************)
(* Callers that poll four registers, as bench.py does, write one of them   *)
(* and ask for one that is not there.                                      *)
(***************************************************************************)
EXTENDS Client

CONSTANTS a, b

(* A poll of these registers is answered with a PDU whose bytes, read from *)
(* its beginning as a header, have id 776 and length 3, followed by a read *)
(* response without registers.                                             *)
MCDevice == [r \in Regions |-> IF r = HOLDING_REGISTERS THEN <<0, 3, 3, 0>> ELSE <<>>]

Poll    == Request(READ_HOLDING_REGISTERS, 0, 4, <<>>)
Write   == Request(WRITE_SINGLE_REGISTER, 0, 0, <<0>>)
Missing == Request(READ_HOLDING_REGISTERS, 4, 1, <<>>)

(* Lengths that leave no room for a PDU, a PDU of one byte, a byte count   *)
(* that is wrong, and coils in answer to a read of registers.              *)
MCOddities == { [length |-> 0, pdu |-> <<>>], [length |-> 1, pdu |-> <<>>],
                [length |-> 2, pdu |-> <<3>>], [length |-> 4, pdu |-> <<3, 2, 0>>],
                [length |-> 4, pdu |-> <<1, 1, 255>>] }

(* A length field that declares bytes which never come.                    *)
TooLong == [length |-> 20, pdu |-> <<3>>]

MCCallers == {a, b}

OneShot == [callers |-> {a}, wanted |-> {Poll, Write, Missing}, max_calls |-> 3,
            goes_on |-> FALSE, oddities |-> {}]
Poller  == [callers |-> {a}, wanted |-> {Poll}, max_calls |-> 3,
            goes_on |-> TRUE, oddities |-> {}]
Odd     == [callers |-> {a}, wanted |-> {Poll, Missing}, max_calls |-> 2,
            goes_on |-> TRUE, oddities |-> MCOddities]
Wary    == [callers |-> {a}, wanted |-> {Poll}, max_calls |-> 2,
            goes_on |-> FALSE, oddities |-> MCOddities \cup {TooLong}]
Shared  == [callers |-> {a, b}, wanted |-> {Poll, Missing}, max_calls |-> 2,
            goes_on |-> TRUE, oddities |-> {}]
AllUses == {OneShot, Poller, Odd, Wary, Shared}
Polling == {Poller}

LiveSpec == Spec /\ Fairness
=============================================================================
