\* Four timers of the loop: one may be running, one about to be cancelled
\* and one about to be added while another is lost sight of.
CONSTANT MaxTimers = 4
SPECIFICATION Spec
INVARIANTS RunningIsArmed NothingStray
PROPERTY FiresOnlyItsOwn
