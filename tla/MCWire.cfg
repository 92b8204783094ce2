\* ASCII strings, empty and non-empty payloads, two frames back to back.
CONSTANTS
  Strs <- AsciiStrs
  Payloads <- MCPayloads
  MaxWrites = 2
  Huge = Huge
  HugeData = HugeData
SPECIFICATION Spec
INVARIANT TypeOK RoundTrip NoStall
\* The writer stops after MaxWrites calls and the reader then waits.
CHECK_DEADLOCK FALSE
