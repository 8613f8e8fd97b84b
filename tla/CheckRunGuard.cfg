\* One worker process whose guard's query may raise: the docstring of
\* _acquire_check_run.
CONSTANTS
  Workers = {w1}
  Requests = {r1}
  Sched = sched
  Domains = {d1}
  Stale = 1
  MaxRuns = 2
  MaxFaults = 1
SPECIFICATION Spec
INVARIANT RefusesOnlyRunning
CHECK_DEADLOCK FALSE
