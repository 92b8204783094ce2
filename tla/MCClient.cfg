\* Three frames of any kind: enough for a frame queued, one in flight and
\* one buffered behind it when stop() or an error happens.
CONSTANTS
  NFrames = 3
  Kinds <- MCKinds
  Main = Main
  Tok = Tok
  App = App
SPECIFICATION Spec
INVARIANT TypeOK Delivery
PROPERTY StopEndsLoop ArrivedFrameRead
\* The event loop goes idle once the frames are read and the loop ended.
CHECK_DEADLOCK FALSE
