CONSTANTS
  Clients = {k1, k2}
  Workers = {w1, w2}
  Silent = {k2}
  Fds = {0, 1, 2, 3, 4, 5}
  Addresses = 1
  Backlog = 2
  MaxSignals = 0
  AcceptErrors = TRUE
  Free = Free
  Opened = Opened
  Listener = Listener
  Reserved = Reserved
  Nobody = Nobody
  Junk = Junk
SPECIFICATION FairSpec
PROPERTIES
  EveryClientAnswered
  LeftIsReleased
CHECK_DEADLOCK FALSE
