---------------------------- MODULE MCOperator ----------------------------
(* The daemon killer and one of the observers stand for the root tasks.    *)
EXTENDS Operator

MCRoots == {"killer", "observer"}
MCClients == {"observer"}
=============================================================================
