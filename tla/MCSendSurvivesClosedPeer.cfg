CONSTANTS
  Clients = {k1}
  Workers = {w1}
  Silent = {}
  Fds = {0, 1, 2, 3}
  Addresses = 1
  Backlog = 1
  MaxSignals = 0
  AcceptErrors = TRUE
  Free = Free
  Opened = Opened
  Listener = Listener
  Reserved = Reserved
  Nobody = Nobody
  Junk = Junk
SPECIFICATION Spec
PROPERTY
  SendSurvivesClosedPeer
CHECK_DEADLOCK FALSE
