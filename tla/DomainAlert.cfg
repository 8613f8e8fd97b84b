\* The job and a request about one domain, two channels, a failing delivery and
\* a crash; the job about two domains.  Every expired domain is alerted about in
\* the end.
CONSTANTS
  Sched = sched
  Requests = {r1}
  Domains = {d1, d2}
  Other = d2
  None = none
  Channels = 2
  Cooldown = 2
  MaxFailures = 1
  MaxCrashes = 1
SPECIFICATION PartSpec
INVARIANT SilencedMeansHeard
PROPERTIES RateLimited ExpiredIsAlerted
