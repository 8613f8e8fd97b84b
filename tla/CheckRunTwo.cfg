\* Two worker processes on one database, as during a reload: the transactions
\* of start_check_run interleave.
CONSTANTS
  Workers = {w1, w2}
  Requests = {}
  Sched = sched
  Domains = {d1, d2}
  Stale = 1
  MaxRuns = 2
  MaxFaults = 1
SPECIFICATION Spec
SYMMETRY Symmetry
INVARIANT HistoryAllOrNothing
PROPERTIES CompletedIsFinal ImplementsLog
CHECK_DEADLOCK FALSE
