------------------------------- MODULE MCPeering -------------------------------
(* A small instance of Peering: two operators of different or of the same  *)
(* priority.                                                               *)
EXTENDS Peering

MCPriorities == {[o \in Operators |-> 0], [o \in Operators |-> IF o = "dev" THEN 666 ELSE 0]}
=============================================================================
