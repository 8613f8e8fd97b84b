\* The settings forms and the administration lists: two rows on pages of one,
\* four things the user does with the forms or five with a list, one failure.
CONSTANTS
  None = none
  Values = {0, 1}
  Blank = blank
  MaxOps = 4
  MaxErrors = 1
  Ids = {1, 2}
  Kinds = {"keys", "users", "backups", "logs"}
  PageSize = 1
  Matching = {1}
  MaxClicks = 5
  MaxFailures = 1
SPECIFICATION Spec
INVARIANTS TypeOK EditsAreWarned CleanIsStored ListIsCurrent BackupsAreShown
PROPERTY DeltaOnly
\* The bounds on what the user does stop each part.
CHECK_DEADLOCK FALSE
