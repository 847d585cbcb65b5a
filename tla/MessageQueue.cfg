\* Two Subscribers, each of any of two topics; three messages for each topic
\* and sizes 1 and 2, so that queues overflow.
CONSTANTS
  Topics = {t1, t2}
  Subscribers = {s1, s2}
  Sizes = {1, 2}
  DefaultSize = 2
  MaxPushes = 3
SPECIFICATION Spec
INVARIANTS QueueHoldsNewest ReceivedInOrder CallsOnlyTheLiving UndisturbedIsServed
PROPERTY ImplementsFeed
