SPECIFICATION FairServer
CONSTANTS
  c1 = c1
  c2 = c2
  NoSize = NoSize
  Clients = {c1, c2}
  MaxPool = 1
  Available = 2
  Size = 3

INVARIANTS ReplyAfterWholeText LeakOnlyWhenLeft
PROPERTY EveryClientServed
CHECK_DEADLOCK FALSE
