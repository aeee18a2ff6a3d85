CONSTANTS
  Recorders = {"main", "callback"}
  HistoryCap = 2
  None = None
  Requests = {q1, q2}
  Modifying = {q1}
  Files = {f1}
  NoRequest = NoRequest
SPECIFICATION FairSpec
INVARIANTS
  HistoryComplete
  FencedThread
  AnsweredOnce
  QuiescedIsQuiet
PROPERTIES
  QueuedIsAnswered
