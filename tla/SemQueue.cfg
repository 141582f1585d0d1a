CONSTANTS
  Producers = {p1, p2}
  Consumers = {c1, c2, c3}
  Items = {a, b, s, u}
  StopItems = {s, u}
  NoItem = NoItem
  NoThread = NoThread
SPECIFICATION FairSpec
INVARIANTS
  TypeOK
  MutualExclusion
  TokensMatchQueue
  FrontIsDefined
  NoStrandedItem
  OneStopPerItem
PROPERTIES
  ImplementsFifo
  QueuedIsPopped
CHECK_DEADLOCK FALSE
