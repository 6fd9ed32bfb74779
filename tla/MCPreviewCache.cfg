SPECIFICATION FairSpec
CONSTANTS
  Loaded <- TwoLoaded
  New = {3, 4}
  None = None
  MaxClicks = 4
PROPERTY DeletedLeaves
INVARIANTS TypeOK CacheAgrees   PageInOrder
CHECK_DEADLOCK FALSE
