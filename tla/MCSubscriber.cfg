\* Both demos: two frames of any kind, and for subscriber2.py two console
\* lines of any kind, so messages are queued before and read after the
\* receive loop ends, a line and a message can be done in the same wait,
\* and a request can be awaited while a message is held.
CONSTANTS
  NFrames = 2
  Kinds <- MCKinds
  Programs = {FALSE, TRUE}
  Lines <- MCLines
  MaxLines = 2
SPECIFICATION Spec
INVARIANT MessagesAccounted
PROPERTY EveryMessagePrinted
\* EOF on stdin makes subscriber2's main_async raise and the program end.
CHECK_DEADLOCK FALSE
