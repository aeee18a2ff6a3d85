SPECIFICATION Spec
CONSTANTS
  Threads = {p1}
  Flows <- OneFlow
  Callouts = {1}
  CalloutOf <- OneCalloutOf
  Ctxs = {c1, c2}
  BusyRetries = 1
  CountMod = 8
  NoCtx = NoCtx
  NoCallout = NoCallout
CHECK_DEADLOCK FALSE
INVARIANT StrippedIsLive
