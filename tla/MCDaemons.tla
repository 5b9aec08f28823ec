----------------------------- MODULE MCDaemons -----------------------------
(* The daemons for model checking: the configurations give all constants. *)
EXTENDS Daemons
=============================================================================
