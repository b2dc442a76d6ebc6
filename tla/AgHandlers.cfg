SPECIFICATION Spec

CONSTANTS
  v1 = v1
  v2 = v2
  None = None
  VmIds = {v1, v2}
  TapName <- MCTapName
  Handlers = {h1, h2, h3}
  MaxCalls = 5

SYMMETRY Symmetry

INVARIANTS
  TypeOK
  CountersAgree
  EventsBalance
  LastEventTells

CHECK_DEADLOCK FALSE
