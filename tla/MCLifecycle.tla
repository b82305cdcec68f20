----------------------------- MODULE MCLifecycle ----------------------------
(***************************************************************************)
(* Two connections whose peers read, and leave if need be, or owe nothing. *)
(***************************************************************************)
EXTENDS Lifecycle

CONSTANTS a, b
MCConns == {a, b}

ReadersSpec == Spec /\ Fairness /\ TheyRead(Conns) /\ TheyLeave(Conns)
SilentSpec  == Spec /\ Fairness
=============================================================================
