\* One query at a time, two nodes that register and withdraw one topic
\* under two message types, twice while the query runs.
CONSTANTS
  Names = {n1, n2}
  Addrs = {a1}
  Topics = {t1}
  Types = {m1, m2}
  Threads = {g1}
  NoThread = NoThread
  MaxChurn = 2
SPECIFICATION Spec
INVARIANTS TypeOK NothingInvented NothingMissed TopicInfoComplete
SYMMETRY Symmetry
