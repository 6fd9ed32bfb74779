SPECIFICATION FairSpec
CONSTANTS
  None = None
  Files = {1, 2, 3}
  Valid = {1, 3}
  MaxFileCount = 2
  MaxChosen = 2
  MaxClicks = 4
INVARIANTS TypeOK NothingLost UploadedWasAccepted NotSentAgain LockedWhileUploading IndexFindsFile
PROPERTIES EventuallyUnlocked EverySentFileSettles
CHECK_DEADLOCK FALSE
