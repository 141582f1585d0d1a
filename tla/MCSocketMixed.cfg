CONSTANTS
  Stream <- Binary
  Ends <- BinaryEnds
  Capacity = 3
  Calls = {"readLine", "extract", "extractNumber", "receive", "read", "insert", "send", "connect", "close"}
  Sizes = {1, 3}
  MaxWritten = 2
  MaxFailures = 1
SPECIFICATION Spec
INVARIANTS
  TypeOK
  NothingDoubled
  ReadIsWhole
  WireInOrder
  SentIsOnWire
  ValueOfOnePeer
