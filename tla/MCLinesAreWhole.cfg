CONSTANTS
  Stream <- Text
  Ends <- TextEnds
  Capacity = 6
  Calls = {"readLine"}
  Sizes = {1}
  MaxWritten = 0
  MaxFailures = 0
SPECIFICATION Spec
INVARIANT
  LinesAreWhole
