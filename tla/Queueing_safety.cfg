\* Two objects, room for two tasks: pending workers, an object whose old
\* worker is still to be cleaned up, idle timeouts racing new events, failures and every way of shutting down.
CONSTANTS
  Keys = {k1, k2}
  Workers = {w1, w2, w3}
  NoWorker = NoWorker
  Limit = 2
  MaxEvents = 2
SYMMETRY WorkerSymmetry
SPECIFICATION Spec
INVARIANTS Serialized NothingLost PressureIsHonest GracefulDepletion
PROPERTY ImplementsStreams
