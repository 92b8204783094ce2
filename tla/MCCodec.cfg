\* Two writes on one stream: every pair of primitives and values, so each
\* reader starts both at the beginning and after any other value.
CONSTANTS
  Calls <- MCCalls
  MaxWrites = 2
  Huge = Huge
  HugeData = HugeData
SPECIFICATION Spec
INVARIANT StreamLaw
\* The application stops after MaxWrites writes.
CHECK_DEADLOCK FALSE
