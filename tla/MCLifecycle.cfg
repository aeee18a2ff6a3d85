CONSTANTS
  LayerCount = 2
  Callers = {"main", "callback"}
  NoCaller = NoCaller
  MaxTransitions = 3
SPECIFICATION Spec
INVARIANTS
  TypeOK
  CalloutsTracked
  DestroyIsQuiet
  ResidentStays
