\* Three frames of any kind, as in MCClient.cfg; the abstract channel is
\* checked as a temporal property of the detailed model.
CONSTANTS
  NFrames = 3
  Kinds <- MCKinds
  Main = Main
  Tok = Tok
  App = App
SPECIFICATION Spec
PROPERTY ChannelSpec
CHECK_DEADLOCK FALSE
