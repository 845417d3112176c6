CONSTANTS
  None = None
  Bytes = {0, 9, 10, 15, 16, 159, 160, 255}
  Chars = {48, 57, 65, 70, 97, 102, 103}
  MaxLen = 3
  RowWidths = {2, 3}
  DumpBytes = {10, 65}
  MaxChunk = 3
  MaxCalls = 3
SPECIFICATION Spec
INVARIANT RoundTrip
INVARIANT BufferDecodes
INVARIANT DumpKeepsBytes
INVARIANT DumpLayout
INVARIANT AlignedLinesReadBack
CHECK_DEADLOCK FALSE
