CONSTANTS
  Clients = {k1, k2}
  Workers = {w1}
  Silent = {k1}
  Fds = {0, 1, 2}
  Addresses = 1
  Backlog = 2
  MaxSignals = 0
  AcceptErrors = FALSE
  Free = Free
  Opened = Opened
  Listener = Listener
  Reserved = Reserved
  Nobody = Nobody
  Junk = Junk
SPECIFICATION Spec
PROPERTY
  AcceptsForever
CHECK_DEADLOCK FALSE
