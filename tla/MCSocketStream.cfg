CONSTANTS
  Stream <- Text
  Ends <- TextEnds
  Capacity = 6
  Calls = {"readLine", "extract", "connect", "close"}
  Sizes = {1}
  MaxWritten = 0
  MaxFailures = 1
SPECIFICATION FairSpec
INVARIANTS
  NothingLost
  EndMeansEnd
PROPERTIES
  CallsReturn
