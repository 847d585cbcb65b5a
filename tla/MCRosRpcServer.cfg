\* Two nodes, each of which may publish and subscribe and change its
\* address, served by two threads; one message type for the topic.
CONSTANTS
  Names = {n1, n2}
  Addrs = {a1, a2}
  Topics = {t1}
  Types = {m1}
  Threads = {g1, g2}
SPECIFICATION Spec
INVARIANTS EveryPairFound NoStaleTarget  TakesEffect
SYMMETRY Symmetry
