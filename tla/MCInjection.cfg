CONSTANTS
  Threads = {t1, t2, t3}
  Rogues = {}
  Ceiling = 2
  Retries = 2
  BusyRetries = 1
SPECIFICATION InjectFairSpec
INVARIANTS
  CountConserved
  InjectionSafe
PROPERTIES
  LateAcquireFails
  NoLostWakeup
  ImplementsGate
