SPECIFICATION Spec
CONSTANTS
  Size = 3
  Producers = {p1, p2}
  Consumers = {c1}
  Payload = {"x"}
INVARIANTS IndicesAgree NoSharedItem
PROPERTY ImplementsFifo
CHECK_DEADLOCK FALSE
