\* Domains below the alert threshold that have not expired.
CONSTANTS
  Sched = sched
  Requests = {}
  Domains = {d1}
  None = none
  Channels = 1
  Cooldown = 1
  MaxFailures = 0
  MaxCrashes = 0
SPECIFICATION FairSpec
PROPERTY NearIsAlerted
