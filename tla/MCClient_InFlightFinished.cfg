\* Spec 5 claim: a frame in flight when stop() is called is finished and queued.
\* Data frames only: the frames a stopped loop should still deliver.
CONSTANTS
  NFrames = 2
  Kinds = {"data"}
  Main = Main
  Tok = Tok
  App = App
SPECIFICATION Spec
INVARIANT InFlightFinished
CHECK_DEADLOCK FALSE
