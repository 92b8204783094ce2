\* Three tasks, two calls each; the transport pauses above one buffered frame
\* and resumes when empty, so both tasks can be parked in drain() at once.
\* Python 3.10 or later: any number of drain waiters.
CONSTANTS
  Callers <- MCCallers
  MaxCalls = 2
  HighWater = 1
  LowWater = 0
  LegacyDrain = FALSE
SPECIFICATION Spec
INVARIANT TypeOK ErrorsReported OnlyTransportErrors
PROPERTY CallsComplete
\* Every task has made its calls and the transport is idle or failed.
CHECK_DEADLOCK FALSE
