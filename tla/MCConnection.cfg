\* Two data frames and two tasks with one call each: the socket can fail
\* while the read task is parked, running or done, and while a call is
\* parked on a paused transport (HighWater 1: both frames buffered).
CONSTANTS
  NFrames = 2
  Kinds = {"data"}
  Main = Main
  Tok = Tok
  App = App
  Callers <- MCCallers
  MaxCalls = 1
  HighWater = 1
  LowWater = 0
  LegacyDrain = FALSE
SPECIFICATION Spec
PROPERTY FailureSurfaces
\* The loop ends and the calls complete; the event loop then goes idle.
CHECK_DEADLOCK FALSE
