\* Two updates for one node are enough for the counterexample.
CONSTANTS
  Peers = {p1}
  NoPeer = NoPeer
  MaxUpdates = 2
  MaxStops = 0
SPECIFICATION Spec
INVARIANT PendingHasClient
CHECK_DEADLOCK FALSE
