\* Two changes of the cluster at any moment: a resource or a namespace comes
\* and goes while the orchestrator adjusts to it, or nobody watches.
CONSTANTS
  Kinds = {"Kex", "Cron", "Peering"}
  Traits <- MCTraits
  Namespaces = {"prod"}
  Patterns <- MCPatterns
  Indexed <- MCIndexed
  Handled <- MCHandled
  Peerings <- MCPeerings
  Mandatory = TRUE
  Accesses = {"watched", "forbidden"}
  MaxChanges = 2
SPECIFICATION Spec
INVARIANTS EnsembleMatchesInsights PausesAreOwned HandlersSeeFullIndices InsightsMatchCluster
\* The operator rests when nothing changes, or has exited.
CHECK_DEADLOCK FALSE
