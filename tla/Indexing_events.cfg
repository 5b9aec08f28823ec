SPECIFICATION Spec
CONSTANTS
    Ids <- MCIds
    Handler <- MCHandler
    Objects = {o1, o2}
    Mappings <- MCMappings
    Delays <- MCDelays
    MaxTime = 3
INVARIANTS
    IndicesAreExact
    ExclusionIsRespected
\* The operator rests when the time is over and nothing changes.
CHECK_DEADLOCK FALSE
SYMMETRY MCSymmetry
