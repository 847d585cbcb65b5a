\* One init, a thread that spins, and a shutdown by the main thread.
CONSTANTS
  Waits = TRUE
  MaxInits = 1
SPECIFICATION Spec
INVARIANT SpinKeepsQueue
CHECK_DEADLOCK FALSE
