CONSTANTS
  Readers = {r1, r2}
  Writers = {w1, w2}
  Controller = ctl
  Snaps = {s1, s2, s3, s4}
  RuleIds = {1}
  Tags = {"limit"}
  RateTags = {"limit"}
  SK_RULE_MAX = 1
  RateSlots = 1
  MaxVersion = 3
  NULL = NULL
  NoThread = NoThread
SPECIFICATION Spec
SYMMETRY Symmetry
INVARIANTS
  TypeOK
  NoUseAfterFree
  EverySnapshotTracked
  ShutdownIsComplete
PROPERTIES
  GateShutsBehindSectionW
  PublishAppliesRequest
  ImplementsAtomic
