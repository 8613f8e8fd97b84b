\* Three views, two templates, two windows, three users and a domain.
CONSTANTS
  None = none
  Views = {"dashboard", "domains", "settings"}
  AdminViews = {"settings"}
  Ttl = 1
  MaxShellOps = 2
  MaxNow = 2
  MaxLoads = 2
  MaxSessionOps = 4
  MaxFlight = 3
  Users = {u1, u2, u3}
  Self = u3
  Domains = {d1}
  MaxDialogOps = 7
  Templates = {"ssl_alert", "domain_alert"}
  Texts = {0, 1}
  Windows = {1, 2}
  Days = {0, 7}
  MaxEditorOps = 5
  MaxErrors = 1
SPECIFICATION Spec
INVARIANTS AddressShowsView CacheIsYoung ApiAnswerHeals TypedBeforeDelete UnmarkedIsStored
\* The bounds on what the user does stop each part.
CHECK_DEADLOCK FALSE
