------------------------------ MODULE MCDevice ------------------------------
(***************************************************************************)
(* A device of three coils, one discrete input, three holding registers    *)
(* and one input register, under limits that one request can exceed while  *)
(* its address range still fits, and requests on every side of each check. *)
(***************************************************************************)
EXTENDS Device

MCSizes == [r \in Regions |-> IF r \in {COILS, HOLDING_REGISTERS} THEN 3 ELSE 1]
MCRegisters == {0, 1}
MCGenerated == {<<HOLDING_REGISTERS, 2>>, <<INPUT_REGISTERS, 0>>}

Known(fc, address, count, values) ==
  [fc |-> fc, error |-> NO_EXCEPTION, address |-> address, count |-> count, values |-> values]

Addresses == 0..3
Reads == {Known(fc, a, n, <<>>) : fc \in READ_CODES, a \in Addresses, n \in 0..3}
Payloads(fc) == LET of == IF RegionOf(fc) = COILS THEN BOOLEAN ELSE MCRegisters
                IN  IF fc \in SINGLE_WRITE_CODES THEN [1..1 -> of]
                    ELSE UNION {[1..n -> of] : n \in 0..2}
                         \cup {[i \in 1..3 |-> b] : b \in {CHOOSE v \in of : TRUE}}
Writes == UNION {{Known(fc, a, 0, vs) : a \in Addresses, vs \in Payloads(fc)} :
                   fc \in WRITE_CODES}
Undecodable == {Exception(43, ILLEGAL_FUNCTION),
                Exception(WRITE_SINGLE_COIL, ILLEGAL_DATA_VALUE)}

MCRequests == Reads \cup Writes \cup Undecodable
=============================================================================
