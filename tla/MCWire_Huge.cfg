\* Two messages; a string may exceed 65535 characters and a payload reach
\* 2^31 bytes (the caller catches the error and writes on).
CONSTANTS
  Strs <- WithHugeStrs
  Payloads <- WithHugePayloads
  MaxWrites = 2
  Huge = Huge
  HugeData = HugeData
SPECIFICATION Spec
INVARIANT RoundTrip
CHECK_DEADLOCK FALSE
