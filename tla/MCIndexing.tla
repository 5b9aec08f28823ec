----------------------------- MODULE MCIndexing -----------------------------
(* One indexing function with limited retries, one with the defaults.      *)
EXTENDS Indexing, TLC

MCIds == {"strict", "lenient"}
MCHandler ==
    "strict" :> [errors |-> "temporary", timeout |-> {2}, retries |-> {2}, backoff |-> 1]
    @@ "lenient" :> [errors |-> "ignored", timeout |-> {}, retries |-> {}, backoff |-> 60]
MCMappings == {"x" :> 1, "x" :> 2 @@ "y" :> 1}
MCDelays == {1}
MCSymmetry == Permutations(Objects)
=============================================================================
