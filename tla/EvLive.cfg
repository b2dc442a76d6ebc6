SPECIFICATION DistinctSpec

CONSTANTS
  None = None
  AllVms = AllVms
  Watchers = {w1, w2}
  Publishers = {p1, p2}
  VmIds = {v1}
  Stamps = {s1, s2}
  Cap = 1

PROPERTIES
  BroadcastReturns
  GoneIsUnsubscribed
