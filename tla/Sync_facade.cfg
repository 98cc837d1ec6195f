SPECIFICATION Spec
CONSTANTS
  b1 = b1  b2 = b2
  Portals = {1, 2}
  Threads = {t1, t2}
  Tasks = {k1, k2, k3}
  Buses = {b1, b2}
  Observers = {o1, o2}
  Kinds = {"read", "broadcast"}
  Retries = 1
  Scopes <- MCScopes
  Nobody = Nobody
  NoBus = NoBus
CHECK_DEADLOCK FALSE
INVARIANTS TypeOK PortalServesOpenBuses OrphanOnlyFromLoop StreamClosedOnRelease
INVARIANTS NothingSentAfterClose ReportsInOrder ObserversTold
PROPERTIES ReportsNotMixed EveryCallReturns
