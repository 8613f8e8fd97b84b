\* One list of two domains, four operations of the user, one failure.
CONSTANTS
  Ids = {1, 2}
  Words = {w}
  None = none
  MaxOps = 4
  MaxErrors = 1
SPECIFICATION FairSpec
INVARIANTS ListIsCurrent StoreIsCurrent OneQueueLoop
PROPERTY WorkEnds
\* MaxOps stops the user.
CHECK_DEADLOCK FALSE
