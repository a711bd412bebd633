SPECIFICATION Spec
CONSTANTS
  Worker = {w}
  Main = {m}
  NoThread = NoThread
  Handler = {h1}
  Dispose = Dispose
  Delays = {0, 1}
  Backlog = {h1}
  Numbers = 2
  NestedLoops = FALSE
  MaxDepth = 3
  MaxOps = 3
  MaxTime = 1
PROPERTY PendingDelivered
CHECK_DEADLOCK FALSE
