\* One worker process, the deployment of gunicorn.conf.py: its scheduler
\* thread and a request thread, two domains.
CONSTANTS
  Workers = {w1}
  Requests = {r1}
  Sched = sched
  Domains = {d1, d2}
  Stale = 2
  MaxRuns = 3
  MaxFaults = 2
SPECIFICATION FairSpec
INVARIANTS OneInside LockMeansChecking OneRunning OwnRowOpen
PROPERTIES ClosedIsFinal NewerResultsStay ImplementsRegister StuckRowCleared
\* MaxRuns stops the model.
CHECK_DEADLOCK FALSE
