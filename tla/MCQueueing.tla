----------------------------- MODULE MCQueueing -----------------------------
(* Instances of Queueing for TLC. *)
EXTENDS Queueing, TLC

(* The names of the tasks are interchangeable.                             *)
WorkerSymmetry == Permutations(Workers)
=============================================================================
