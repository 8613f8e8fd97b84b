\* Two rows on pages of one, four things the user does, one failure.
CONSTANTS
  Ids = {1, 2}
  Kinds = {"webapp", "dns", "port"}
  PageSize = 1
  Matching = {1}
  None = none
  MaxOps = 4
  MaxErrors = 1
SPECIFICATION Spec
INVARIANTS PageOK DrawnObeysFilter ListIsCurrent
\* MaxOps stops the user.
CHECK_DEADLOCK FALSE
