SPECIFICATION Spec

CONSTANTS
  None = None
  AllVms = AllVms
  Watchers = {w1, w2}
  Publishers = {p1, p2}
  VmIds = {v1, v2}
  Stamps = {s1, s2}
  Cap = 1

SYMMETRY Symmetry

INVARIANTS
  PanicsOnlyAfterCollision
  SubscriptionKept
  ChannelsOpen

PROPERTIES
  EveryoneTried
