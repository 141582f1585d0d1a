CONSTANTS
  Addresses = 3
  Descriptors = {3, 4}
  MaxLists = 3
SPECIFICATION Spec
INVARIANTS
  TypeOK
  AssertionsHold
  NothingLeaks
  ServerAddressIsAlive
  PeerIsPrintable
CHECK_DEADLOCK FALSE
