SPECIFICATION Spec

CONSTANTS
  v1 = v1
  v2 = v2
  None = None
  VmIds = {v1}
  TapName <- MCTapName
  Handlers = {h1}
  MaxCalls = 4

SYMMETRY Symmetry

INVARIANTS
  GaugeZeroWhenEmpty

CHECK_DEADLOCK FALSE
