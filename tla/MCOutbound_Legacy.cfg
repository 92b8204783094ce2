\* Two tasks, two calls each; the transport pauses above one buffered frame
\* and resumes when empty, so both tasks can be parked in drain() at once.
\* Python 3.7 to 3.9: a single drain waiter.
CONSTANTS
  Callers <- MCCallers
  MaxCalls = 2
  HighWater = 1
  LowWater = 0
  LegacyDrain = TRUE
SPECIFICATION Spec
INVARIANT OnlyTransportErrors
\* Every task has made its calls and the transport is idle or failed.
CHECK_DEADLOCK FALSE
