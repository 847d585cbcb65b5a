\* Two nodes that may change address, one topic under two message types.
CONSTANTS
  Names = {n1, n2}
  Addrs = {a1, a2}
  Topics = {t1}
  Types = {m1, m2}
SPECIFICATION Spec
INVARIANTS IndexesAgree EdgesExact NothingLeftBehind
PROPERTY ImplementsRegistry
