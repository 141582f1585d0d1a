CONSTANTS
  Clients = {k1, k2}
  Workers = {w1, w2}
  Silent = {k2}
  Fds = {0, 1, 2, 3}
  Addresses = 2
  Backlog = 1
  MaxSignals = 2
  AcceptErrors = TRUE
  Free = Free
  Opened = Opened
  Listener = Listener
  Reserved = Reserved
  Nobody = Nobody
  Junk = Junk
SYMMETRY Symmetry
SPECIFICATION Spec
INVARIANTS
  TypeOK
  SocketOwnsConnection
  OwnResponse
  WorkersNeverStop
  FileLostOnlyToListener
PROPERTIES
  HangsUpAfterAnswer
  ImplementsService
CHECK_DEADLOCK FALSE
