SPECIFICATION FairSpec

CONSTANTS
  Unset = Unset
  ConfigFiles <- MCConfigFiles
  Clients = {c1, c2}
  MaxStarts = 3

INVARIANTS
  TypeOK
  HostReady

PROPERTIES
  CutOnlyAfterTimeout
  ShutdownEnds
  StartSucceeds

CHECK_DEADLOCK FALSE
