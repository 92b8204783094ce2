\* One message with a multibyte string: U+00E9, or "L" then U+20AC.
CONSTANTS
  Strs <- MultibyteStrs
  Payloads <- MCPayloads
  MaxWrites = 1
  Huge = Huge
  HugeData = HugeData
SPECIFICATION Spec
INVARIANT RoundTrip
CHECK_DEADLOCK FALSE
