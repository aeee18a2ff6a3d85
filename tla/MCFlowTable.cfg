SPECIFICATION Spec
CONSTANTS
  Threads = {p1, p2}
  Flows <- MCFlows
  Callouts = {1, 2}
  CalloutOf <- MCCalloutOf
  Ctxs = {c1, c2, c3}
  BusyRetries = 2
  CountMod = 8
  NoCtx = NoCtx
  NoCallout = NoCallout
SYMMETRY Symmetry
CHECK_DEADLOCK FALSE
INVARIANTS
  TypeOK
  RefsExact
  EngineSeesLive
  CountExact
  DestroyFreesAll
PROPERTY OnlyStripOrphans
