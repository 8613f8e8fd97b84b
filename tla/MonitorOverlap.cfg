\* A web app whose checks can raise, the job and a request, a failing delivery
\* and a crash; and lists with a DNS record or port and another web app.
CONSTANTS
  Checkers = {job, r1}
  Targets = {a, b, d}
  WebApps = {a, b}
  Malformed = {a}
  Shared = a
  None = none
  MaxChecks = 2
  MaxFailures = 1
  MaxCrashes = 1
SPECIFICATION OneOrSeveralSpec
SYMMETRY CheckerSymmetry
INVARIANTS RowConsistent NoOvercount ChecksRecorded MailsMatchTransitions
