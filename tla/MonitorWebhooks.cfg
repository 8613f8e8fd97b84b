\* Two web apps and a DNS record or port, the scheduled jobs one after the
\* other, no failures: every transition is posted to the webhooks twice.
CONSTANTS
  Checkers = {job}
  Targets = {a, b, d}
  WebApps = {a, b}
  Shared = a
  Malformed = {}
  None = none
  MaxChecks = 2
  MaxFailures = 0
  MaxCrashes = 0
SPECIFICATION Spec
SYMMETRY Symmetry
INVARIANT WebhooksOnce
