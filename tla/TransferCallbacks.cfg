SPECIFICATION TransferSpec
CONSTANTS
  Limits = {0, 2, 3}
  MaxChunk = 2
  MaxBody = 4
  UploadLen = 3
  MaxTransfers = 2
  Kinds = {"none", "string", "io", "pipe"}
  Liberties = {"midway", "clone", "escape"}
CHECK_DEADLOCK FALSE
INVARIANT LimitIsExact
INVARIANT UploadIsData
INVARIANT HandlersAreContained
