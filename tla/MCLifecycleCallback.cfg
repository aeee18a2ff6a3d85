CONSTANTS
  LayerCount = 1
  Callers = {"main", "callback"}
  NoCaller = NoCaller
  MaxTransitions = 3
SPECIFICATION Spec
INVARIANTS
  CallbacksAwaited
