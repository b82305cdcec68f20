--------------------------- MODULE ModbusService ----------------------------
(***************************************************************************)
(* What the server promises its clients, without tasks, buffers or locks:  *)
(* every connection's frames are dealt with one at a time in the order the *)
(* peer sent them; a Modbus request to a known unit is carried out on the  *)
(* device and answered in one step, every other frame is ignored, and      *)
(* nothing behind a malformed frame is looked at.  In between, generators  *)
(* refresh the slots they are bound to.  A connection may stop being       *)
(* served at any time (its peer went away), so nothing is promised here    *)
(* about progress: Server states that as properties of its own.            *)
(***************************************************************************)
EXTENDS Dispatcher

CONSTANTS Conns, Scripts, NewDevices, Bindings, Samples

VARIABLES script, dealt, replies, store

vars == <<script, dealt, replies, store>>

Init ==
  /\ script \in Scripts
  /\ dealt = [c \in Conns |-> 0]
  /\ replies = [c \in Conns |-> <<>>]
  /\ store = NewDevices

(* The oldest frame of c that has not been dealt with. *)
Oldest(c) == script[c][dealt[c] + 1]
Serving(c) ==
  /\ dealt[c] < Len(script[c])
  /\ Oldest(c).kind # "badlen"
  /\ dealt' = [dealt EXCEPT ![c] = @ + 1]

ForUs(f) == f.kind = "modbus" /\ f.unit \in DOMAIN store

Ignore(c) ==
  /\ Serving(c)
  /\ ~ForUs(Oldest(c))
  /\ UNCHANGED <<script, replies, store>>

Serve(c) ==
  /\ Serving(c)
  /\ ForUs(Oldest(c))
  /\ LET f == Oldest(c)
         before == store[f.unit]
     IN  /\ replies' = [replies EXCEPT ![c] =
                          Append(@, [tid |-> f.tid, unit |-> f.unit,
                                     body |-> Response(before, f.request)])]
         /\ store' = [store EXCEPT ![f.unit] = Effect(before, f.request)]
  /\ UNCHANGED script

Refresh(b, sample) ==
  /\ store' = [store EXCEPT ![b.unit][b.region][b.address + 1] = sample]
  /\ UNCHANGED <<script, dealt, replies>>

Next ==
  \/ \E c \in Conns : Ignore(c) \/ Serve(c)
  \/ \E i \in DOMAIN Bindings, sample \in Samples : Refresh(Bindings[i], sample)

Spec == Init /\ [][Next]_vars
=============================================================================
