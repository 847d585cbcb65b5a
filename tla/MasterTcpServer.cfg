\* Four updates for two nodes or for none, with one Stop at any time.  No
\* more updates are posted after the bound, so the system may stop.
CONSTANTS
  Peers = {p1, p2}
  NoPeer = NoPeer
  MaxUpdates = 4
  MaxStops = 1
SPECIFICATION FairSpec
INVARIANT NoLeakedConnection
PROPERTIES ImplementsOutbox UpSendsOwnUpdate ClientsReleased
CHECK_DEADLOCK FALSE
