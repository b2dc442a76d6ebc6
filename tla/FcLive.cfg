SPECIFICATION FairSpec

CONSTANTS
  v1 = v1
  v2 = v2
  firecracker = firecracker
  dot = dot
  slash = slash
  dotdot = dotdot
  nested = nested
  t12 = t12
  t3 = t3
  None = None
  VmIds = {v1, v2}
  TapNames = {t12, t3}
  TapName <- MCTapName
  Incs = {i1}
  Calls = {c1, c2}
  UseJailer = TRUE
  VmsDir <- MCVmsDir
  Paths <- MCPaths
  VmPath <- MCVmPath
  JailPath <- MCJailPath
  JailCleanupPath <- MCJailCleanupPath
  Under <- MCUnder
  MaxRestarts = 0

INVARIANTS
  SocketReachable

PROPERTIES
  CallsReturn
  StoppedIsReaped
