\* The application waits for the loop; init may be called again after a
\* shutdown.  The process ends, so the system may stop.
CONSTANTS
  Waits = TRUE
  MaxInits = 2
SPECIFICATION FairSpec
INVARIANTS LoopOutlivesUse JoinIsAnswered ReleasedAfterShutdown
PROPERTIES LoopLasts ShutdownReturns SpinEnds
CHECK_DEADLOCK FALSE
