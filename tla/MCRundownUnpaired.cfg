CONSTANTS
  Threads = {t1, t2, t3}
  Rogues = {t2, t3}
  Ceiling = 2
  Retries = 1
SPECIFICATION Spec
INVARIANTS
  UnpairedIsReported
