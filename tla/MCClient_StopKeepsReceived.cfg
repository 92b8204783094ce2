\* Spec 8 claim: frames fully received when stop() is called are still queued.
\* Data frames only: the frames a stopped loop should still deliver.
CONSTANTS
  NFrames = 2
  Kinds = {"data"}
  Main = Main
  Tok = Tok
  App = App
SPECIFICATION Spec
INVARIANT StopKeepsReceived
CHECK_DEADLOCK FALSE
