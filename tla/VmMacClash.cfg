SPECIFICATION Spec

CONSTANTS
  VmIds <- MCVmIds

INVARIANTS
  MacsDistinct
