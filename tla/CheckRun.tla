------------------------------- MODULE CheckRun -------------------------------
(***************************************************************************)
(* A full check of all domains, from the concurrency guard to the end:     *)
(* _acquire_check_run, _run_full_check and _release_check_run of app.py,   *)
(* with the functions of models.py they call.                              *)
(*                                                                         *)
(* Two mechanisms keep checks apart.  Inside a worker process it is the    *)
(* non-blocking _check_lock.  Across processes, and across a crash and the *)
(* restart after it, it is the table check_runs: a row 'running' younger   *)
(* than STALE_RUN_SECONDS makes the guard refuse.  Every statement group   *)
(* between two commits is a step of its own, so threads, processes,        *)
(* deletions of domains, crashes and failing statements interleave.        *)
(***************************************************************************)
EXTENDS Naturals, Sequences

CONSTANTS
  Workers,    \* worker processes
  Requests,   \* request threads of a worker (POST /api/check-all)
  Sched,      \* the scheduler thread of a worker (check_all_background)
  Domains,    \* ids of the domains in the table at the start
  Stale,      \* STALE_RUN_SECONDS, in clock ticks
  MaxRuns,    \* bound: no check begins with this many rows in check_runs
  MaxFaults   \* bound: crashes, shutdowns and failing statements

ASSUME CheckRunAssumption ==
  /\ Stale \in Nat \ {0}
  /\ MaxRuns \in Nat
  /\ MaxFaults \in Nat
  /\ Sched \notin Requests

Threads == Workers \X (Requests \cup {Sched})
WorkerOf(t) == t[1]

VARIABLES
  up,        \* workers that are alive
  stopping,  \* workers whose _shutdown_event is set
  locked,    \* workers whose _check_lock is held
  leaked,    \* ghost: those whose guard raised with the lock in its hands
  pc,        \* where each thread is in _run_full_check
  run,       \* its local run_id, 0 before start_check_run returned one
  snap,      \* its local list of domains
  staged,    \* rows its open transaction has set to 'failed'
  runs,      \* the table check_runs, in order of id
  domains,   \* ids in the table domains
  saved,     \* the run whose results the row of a domain carries, 0 if none
  history,   \* rows of check_results, as pairs <<run, domain>>
  faults     \* crashes, shutdowns and failed statements so far

procVars == <<up, stopping, locked, leaked>>
vars == <<up, stopping, locked, leaked, pc, run, snap, staged, runs, domains, saved, history, faults>>

(* "removed" is not a value of the column: the row is gone, its id is not   *)
(* given to another.                                                       *)
Status == {"running", "completed", "failed", "removed"}

(* The steps of _run_full_check, named by the work that is still to come. *)
Steps == {"idle", "last", "list", "start", "insert", "probe", "history",
          "logs", "complete", "snapshot"}

(* Where a thread owns a row of check_runs it has not closed. *)
Checking == {"probe", "history", "logs", "complete"}

Row == [status : Status, age : 0..(Stale + 1)]

TypeOK ==
  /\ up \subseteq Workers
  /\ stopping \subseteq up
  /\ locked \subseteq up
  /\ leaked \subseteq Workers
  /\ pc \in [Threads -> Steps]
  /\ run \in [Threads -> Nat]
  /\ snap \in [Threads -> SUBSET Domains]
  /\ staged \in [Threads -> SUBSET Nat]
  /\ runs \in Seq(Row)
  /\ domains \subseteq Domains
  /\ saved \in [Domains -> Nat]
  /\ history \subseteq Nat \X Domains
  /\ faults \in Nat

Init ==
  /\ up = Workers
  /\ stopping = {}
  /\ locked = {}
  /\ leaked = {}
  /\ pc = [t \in Threads |-> "idle"]
  /\ run = [t \in Threads |-> 0]
  /\ snap = [t \in Threads |-> {}]
  /\ staged = [t \in Threads |-> {}]
  /\ runs = <<>>
  /\ domains = Domains
  /\ saved = [d \in Domains |-> 0]
  /\ history = {}
  /\ faults = 0

-------------------------------------------------------------------------------
(* Helpers *)

Running(i) == runs[i].status = "running"

(* Mutant: the cutoff selects old rows whatever their status. *)
StaleWhateverStatus == {i \in DOMAIN runs : runs[i].age > Stale}

(* Mutant: the cutoff is <= instead of <. *)
StaleAtThreshold == {i \in DOMAIN runs : Running(i) /\ runs[i].age >= Stale}

(* Rows the cutoff of start_check_run selects: started_at < now - STALE. *)
StaleRows == {i \in DOMAIN runs : Running(i) /\ runs[i].age > Stale}

(* Rows locked by the uncommitted UPDATE of another thread. *)
LockedRows(t) == UNION {staged[u] : u \in Threads \ {t}}

(* The table with the rows of S marked 'failed'. *)
Failed(S) == [i \in DOMAIN runs |->
                IF i \in S THEN [runs[i] EXCEPT !.status = "failed"] ELSE runs[i]]

Goto(t, from, to) ==
  /\ pc[t] = from
  /\ pc' = [pc EXCEPT ![t] = to]

(* _run_full_check returns or raises: the finally clause releases the lock *)
(* and the locals and the open transaction of the thread are gone.         *)
Leave(t) ==
  /\ pc' = [pc EXCEPT ![t] = "idle"]
  /\ run' = [run EXCEPT ![t] = 0]
  /\ snap' = [snap EXCEPT ![t] = {}]
  /\ staged' = [staged EXCEPT ![t] = {}]
  /\ locked' = locked \ {WorkerOf(t)}
  /\ UNCHANGED <<up, stopping, leaked>>

Fault == faults < MaxFaults /\ faults' = faults + 1

-------------------------------------------------------------------------------
(* The guard *)

(* Mutant: the lock is taken without looking whether it is held. *)
AcquireHeldLock(t) ==
  /\ Goto(t, "idle", "last")
  /\ WorkerOf(t) \in up \ stopping
  /\ Len(runs) < MaxRuns
  /\ locked' = locked \cup {WorkerOf(t)}
  /\ UNCHANGED <<up, stopping, leaked, run, snap, staged, runs, domains, saved, history, faults>>

(* _acquire_check_run up to the lock.  A refusal changes nothing. *)
Acquire(t) ==
  /\ Goto(t, "idle", "last")
  /\ WorkerOf(t) \in up \ (stopping \cup locked)
  /\ Len(runs) < MaxRuns
  /\ locked' = locked \cup {WorkerOf(t)}
  /\ UNCHANGED <<up, stopping, leaked, run, snap, staged, runs, domains, saved, history, faults>>

(* Mutant: a 'running' row refuses checks whatever its age. *)
LastIsRunning == runs # <<>> /\ Running(Len(runs))

(* The latest row is 'running' and young: the guard refuses. *)
LastIsFresh ==
  /\ runs # <<>>
  /\ Running(Len(runs))
  /\ runs[Len(runs)].age < Stale

(* Mutant: the refusal returns without releasing the lock. *)
RefuseKeepingLock(t) ==
  /\ Goto(t, "last", "idle")
  /\ LastIsFresh
  /\ UNCHANGED <<procVars, run, snap, staged, runs, domains, saved, history, faults>>

Refuse(t) ==
  /\ pc[t] = "last"
  /\ LastIsFresh
  /\ Leave(t)
  /\ UNCHANGED <<runs, domains, saved, history, faults>>

(* Mutant: the guard releases the lock when it returns True, too. *)
AdmitUnlocked(t) ==
  /\ Goto(t, "last", "list")
  /\ ~LastIsFresh
  /\ locked' = locked \ {WorkerOf(t)}
  /\ UNCHANGED <<up, stopping, leaked, run, snap, staged, runs, domains, saved, history, faults>>

Admit(t) ==
  /\ Goto(t, "last", "list")
  /\ ~LastIsFresh
  /\ UNCHANGED <<procVars, run, snap, staged, runs, domains, saved, history, faults>>

(* get_last_check_run raises.  The guard is called before the try, so the *)
(* exception leaves _run_full_check with the lock held.                   *)
GuardRaises(t) ==
  /\ Goto(t, "last", "idle")
  /\ Fault
  /\ leaked' = leaked \cup {WorkerOf(t)}
  /\ UNCHANGED <<up, stopping, locked, run, snap, staged, runs, domains, saved, history>>

-------------------------------------------------------------------------------
(* The run *)

(* get_domains.  Without domains there is no run. *)
ListDomains(t) ==
  /\ domains # {}
  /\ Goto(t, "list", "start")
  /\ snap' = [snap EXCEPT ![t] = domains]
  /\ UNCHANGED <<procVars, run, staged, runs, domains, saved, history, faults>>

NothingToCheck(t) ==
  /\ pc[t] = "list"
  /\ domains = {}
  /\ Leave(t)
  /\ UNCHANGED <<runs, domains, saved, history, faults>>

(* start_check_run, first half: the UPDATE of the stale rows, which waits  *)
(* for rows another transaction has locked, and the SELECT that looks for  *)
(* a row still running.  If there is one the UPDATE is committed and the   *)
(* run is not started.                                                     *)
FindRunning(t) ==
  /\ pc[t] = "start"
  /\ StaleRows \cap LockedRows(t) = {}
  /\ \E i \in DOMAIN runs \ StaleRows : Running(i)
  /\ runs' = Failed(StaleRows)
  /\ Leave(t)
  /\ UNCHANGED <<domains, saved, history, faults>>

(* Mutant: no SELECT, the INSERT follows the UPDATE. *)
FindUnchecked(t) ==
  /\ Goto(t, "start", "insert")
  /\ StaleRows \cap LockedRows(t) = {}
  /\ staged' = [staged EXCEPT ![t] = StaleRows]
  /\ UNCHANGED <<procVars, run, snap, runs, domains, saved, history, faults>>

FindNoRunning(t) ==
  /\ Goto(t, "start", "insert")
  /\ StaleRows \cap LockedRows(t) = {}
  /\ ~\E i \in DOMAIN runs \ StaleRows : Running(i)
  /\ staged' = [staged EXCEPT ![t] = StaleRows]
  /\ UNCHANGED <<procVars, run, snap, runs, domains, saved, history, faults>>

(* start_check_run, second half: INSERT and commit. *)
InsertRun(t) ==
  /\ Goto(t, "insert", "probe")
  /\ runs' = Append(Failed(staged[t]), [status |-> "running", age |-> 0])
  /\ run' = [run EXCEPT ![t] = Len(runs) + 1]
  /\ staged' = [staged EXCEPT ![t] = {}]
  /\ UNCHANGED <<procVars, snap, domains, saved, history, faults>>

(* The probes have answered; save_domain_checks_batch updates the rows     *)
(* that still exist in one transaction ...                                 *)
SaveDomains(t) ==
  /\ Goto(t, "probe", "history")
  /\ saved' = [d \in Domains |-> IF d \in snap[t] \cap domains THEN run[t] ELSE saved[d]]
  /\ UNCHANGED <<procVars, run, snap, staged, runs, domains, history, faults>>

(* ... or rolls back and returns False, and the run goes on. *)
SaveDomainsFails(t) ==
  /\ Goto(t, "probe", "history")
  /\ Fault
  /\ UNCHANGED <<procVars, run, snap, staged, runs, domains, saved, history>>

(* save_check_results_batch: one INSERT for each domain of the list, in a  *)
(* transaction.  The foreign key rejects a domain deleted since; like any  *)
(* error this rolls the whole batch back, and the run goes on.             *)
(* Mutant: every INSERT commits, so the ones before the error remain. *)
SaveHistoryOneByOne(t) ==
  /\ Goto(t, "history", "logs")
  /\ \E done \in SUBSET (snap[t] \cap domains) :
       history' = history \cup ({run[t]} \X done)
  /\ UNCHANGED <<procVars, run, snap, staged, runs, domains, saved, faults>>

SaveHistory(t) ==
  /\ Goto(t, "history", "logs")
  /\ history' = IF snap[t] \subseteq domains
                THEN history \cup ({run[t]} \X snap[t])
                ELSE history
  /\ UNCHANGED <<procVars, run, snap, staged, runs, domains, saved, faults>>

SaveHistoryFails(t) ==
  /\ Goto(t, "history", "logs")
  /\ Fault
  /\ UNCHANGED <<procVars, run, snap, staged, runs, domains, saved, history>>

(* add_logs_batch for the domains whose status changed or whose check      *)
(* failed: any part of the list, the empty one included.                   *)
SaveLogs(t) ==
  /\ Goto(t, "logs", "complete")
  /\ UNCHANGED <<procVars, run, snap, staged, runs, domains, saved, history, faults>>

(* A log entry names a domain deleted since: the foreign key rejects it,   *)
(* nothing catches the exception, and the row of the run stays 'running'.  *)
LogsRejected(t) ==
  /\ pc[t] = "logs"
  /\ ~(snap[t] \subseteq domains)
  /\ Leave(t)
  /\ UNCHANGED <<runs, domains, saved, history, faults>>

(* Mutant: the latest row is completed, not the one of the run. *)
CompleteLatest(t) ==
  /\ Goto(t, "complete", "snapshot")
  /\ run[t] \notin LockedRows(t)
  /\ runs' = [runs EXCEPT ![Len(runs)].status = "completed"]
  /\ UNCHANGED <<procVars, run, snap, staged, domains, saved, history, faults>>

(* update_check_run(run_id, n, 'completed'): by id, whatever the status. *)
Complete(t) ==
  /\ Goto(t, "complete", "snapshot")
  /\ run[t] \notin LockedRows(t)
  /\ runs' = [runs EXCEPT ![run[t]].status = "completed"]
  /\ UNCHANGED <<procVars, run, snap, staged, domains, saved, history, faults>>

(* save_health_snapshot and the CT log checks, which touch none of these   *)
(* tables, succeed or raise; either way the lock is released.              *)
Finish(t) ==
  /\ pc[t] = "snapshot"
  /\ Leave(t)
  /\ UNCHANGED <<runs, domains, saved, history, faults>>

(* A statement raises where nothing but the finally clause catches it. *)
DbError(t) ==
  /\ pc[t] \in {"list", "start", "insert", "probe", "logs", "complete"}
  /\ Leave(t)
  /\ Fault
  /\ UNCHANGED <<runs, domains, saved, history>>

-------------------------------------------------------------------------------
(* The environment *)

(* DELETE /api/domains/<id>: the results go with the domain (CASCADE). *)
DeleteDomain(d) ==
  /\ d \in domains
  /\ domains' = domains \ {d}
  /\ history' = {h \in history : h[2] # d}
  /\ saved' = [saved EXCEPT ![d] = 0]
  /\ UNCHANGED <<procVars, pc, run, snap, staged, runs, faults>>

(* The clock; ages past the threshold are not told apart. *)
Tick ==
  /\ \E i \in DOMAIN runs : Running(i) /\ runs[i].age <= Stale
  /\ runs' = [i \in DOMAIN runs |->
                IF Running(i) /\ runs[i].age <= Stale
                THEN [runs[i] EXCEPT !.age = @ + 1] ELSE runs[i]]
  /\ UNCHANGED <<procVars, pc, run, snap, staged, domains, saved, history, faults>>

(* cleanup_old_data, every night: the results older than the retention and *)
(* the completed rows go (a row given up has no completed_at and stays).   *)
(* Ages that long are not counted: the runs up to k are older than the     *)
(* retention, and no check at work began, and no row is young, that far    *)
(* back.                                                                   *)
Cleanup ==
  /\ \E k \in DOMAIN runs :
       /\ \A t \in Threads : run[t] \notin 1..k
       /\ \A i \in 1..k : Running(i) => runs[i].age > Stale
       /\ runs' = [i \in DOMAIN runs |->
                     IF i <= k /\ runs[i].status = "completed"
                     THEN [runs[i] EXCEPT !.status = "removed"] ELSE runs[i]]
       /\ history' = {h \in history : h[1] > k}
  /\ UNCHANGED <<procVars, pc, run, snap, staged, domains, saved, faults>>

(* shutdown(): no new run is admitted, the ones in flight go on. *)
Shutdown(w) ==
  /\ w \in up \ stopping
  /\ Fault
  /\ stopping' = stopping \cup {w}
  /\ UNCHANGED <<up, locked, leaked, pc, run, snap, staged, runs, domains, saved, history>>

(* After shutdown() the process ends when its threads have been joined ... *)
Exit(w) ==
  /\ w \in stopping
  /\ \A t \in Threads : WorkerOf(t) = w => pc[t] = "idle"
  /\ up' = up \ {w}
  /\ stopping' = stopping \ {w}
  /\ locked' = locked \ {w}
  /\ leaked' = leaked \ {w}
  /\ UNCHANGED <<pc, run, snap, staged, runs, domains, saved, history, faults>>

(* ... and it can be killed at any time, with what its threads hold.       *)
Crash(w) ==
  /\ w \in up
  /\ Fault
  /\ up' = up \ {w}
  /\ stopping' = stopping \ {w}
  /\ locked' = locked \ {w}
  /\ leaked' = leaked \ {w}
  /\ pc' = [t \in Threads |-> IF WorkerOf(t) = w THEN "idle" ELSE pc[t]]
  /\ run' = [t \in Threads |-> IF WorkerOf(t) = w THEN 0 ELSE run[t]]
  /\ snap' = [t \in Threads |-> IF WorkerOf(t) = w THEN {} ELSE snap[t]]
  /\ staged' = [t \in Threads |-> IF WorkerOf(t) = w THEN {} ELSE staged[t]]
  /\ UNCHANGED <<runs, domains, saved, history>>

(* restart: unless-stopped, or gunicorn replacing a worker. *)
Restart(w) ==
  /\ w \in Workers \ up
  /\ up' = up \cup {w}
  /\ UNCHANGED <<stopping, locked, leaked, pc, run, snap, staged, runs, domains, saved, history, faults>>

-------------------------------------------------------------------------------
(* One step of a check that some thread has begun. *)
Step(t) ==
  \/ Refuse(t) \/ Admit(t) \/ GuardRaises(t)
  \/ ListDomains(t) \/ NothingToCheck(t)
  \/ FindRunning(t) \/ FindNoRunning(t) \/ InsertRun(t)
  \/ SaveDomains(t) \/ SaveDomainsFails(t)
  \/ SaveHistory(t) \/ SaveHistoryFails(t)
  \/ SaveLogs(t) \/ LogsRejected(t)
  \/ Complete(t) \/ Finish(t) \/ DbError(t)

Next ==
  \/ \E t \in Threads : Acquire(t) \/ Step(t)
  \/ \E d \in Domains : DeleteDomain(d)
  \/ Tick \/ Cleanup
  \/ \E w \in Workers : Shutdown(w) \/ Exit(w) \/ Crash(w) \/ Restart(w)

Spec == Init /\ [][Next]_vars

(* The scheduled job fires again and again, a begun check goes on (every   *)
(* probe has a timeout), time passes, and a process that was told to stop  *)
(* ends and one that ended is started again.  Requests, deletions and      *)
(* faults need not happen.                                                 *)
Fairness ==
  /\ \A t \in Threads : WF_vars(Step(t))
  /\ \A w \in Workers : WF_vars(Acquire(<<w, Sched>>))
  /\ WF_vars(Tick)
  /\ \A w \in Workers : WF_vars(Exit(w)) /\ WF_vars(Restart(w))

FairSpec == Spec /\ Fairness

-------------------------------------------------------------------------------
(* Properties of any number of processes *)

(* The lock of a process admits one thread to _run_full_check at a time,   *)
(* and is held as long as one is inside, whatever raised, died or          *)
(* restarted before.                                                       *)
OneInside ==
  /\ \A t \in Threads : pc[t] # "idle" => WorkerOf(t) \in locked
  /\ \A t, u \in Threads :
       pc[t] # "idle" /\ pc[u] # "idle" /\ WorkerOf(t) = WorkerOf(u) => t = u

InACheck(w) == \E t \in Threads : WorkerOf(t) = w /\ pc[t] # "idle"

(* A lock that is held although none of the threads of its process is in a *)
(* check has one cause, a guard that raised between the lock and its       *)
(* answer; no other refusal, error, return or end of a check leaves it so. *)
LockMeansChecking == \A w \in locked : w \in leaked \/ InACheck(w)

(* What _acquire_check_run says of itself, "False if already running or    *)
(* shutting down": a process that would refuse is in a check or stopping.  *)
RefusesOnlyRunning == \A w \in locked : w \in stopping \/ InACheck(w)

(* A completed run stays completed until the nightly clean-up removes its  *)
(* row, also when other processes are giving up stale rows while its own   *)
(* process is late to complete it; and a row removed does not come back.   *)
CompletedIsFinal ==
  [][\A i \in DOMAIN runs :
       /\ runs[i].status = "completed" => runs'[i].status \in {"completed", "removed"}
       /\ runs[i].status = "removed" => runs'[i].status = "removed"]_vars

(* The check results of a run are recorded for all the domains it listed   *)
(* that still exist or for none of them, whatever is deleted or fails in   *)
(* the middle of it.                                                       *)
HistoryAllOrNothing ==
  \A t \in Threads : pc[t] \in {"logs", "complete", "snapshot"} =>
    {d \in Domains : <<run[t], d>> \in history} \in {{}, snap[t] \cap domains}

(* The checks of all processes together, crashes included, do what RunLog  *)
(* says: each has a row and results of its own, in the promised order.     *)
NextOf(t) ==
  IF pc[t] = "probe" THEN "publish" ELSE IF pc[t] = "history" THEN "record" ELSE "close"

JobOf(t) == [run |-> run[t], list |-> snap[t], next |-> NextOf(t)]

Log == INSTANCE RunLog WITH
  log <- [i \in DOMAIN runs |-> runs[i].status],
  jobs <- {JobOf(t) : t \in {u \in Threads : pc[u] \in Checking}},
  doms <- domains,
  latest <- saved,
  results <- history

ImplementsLog == Log!LSpec

-------------------------------------------------------------------------------
(* Properties of one process, the deployment of gunicorn.conf.py *)

(* check_runs never has two rows 'running', whatever crashed, raised or    *)
(* was restarted: start_check_run gives up the stale ones first.           *)
OneRunning ==
  \A i, j \in DOMAIN runs : Running(i) /\ Running(j) => i = j

(* The row of a run in progress is 'running' until the run completes it:   *)
(* nobody declares it failed, however long it takes.                       *)
OwnRowOpen ==
  \A t \in Threads : pc[t] \in Checking => run[t] \in DOMAIN runs /\ Running(run[t])

(* Between its SELECT and its INSERT, start_check_run has an UPDATE pending *)
(* on the rows that are 'running' and no other: none appears, and none is  *)
(* completed, behind its back.                                             *)
ReadyToInsert ==
  \A t \in Threads : pc[t] = "insert" =>
    \A i \in DOMAIN runs : Running(i) <=> i \in staged[t]

(* A row that is completed or failed keeps that status: no run given up as *)
(* failed comes back to complete.  Only the clean-up removes one, and only *)
(* one that was completed.                                                 *)
ClosedIsFinal ==
  [][\A i \in DOMAIN runs : ~Running(i) =>
       \/ runs'[i].status = runs[i].status
       \/ runs[i].status = "completed" /\ runs'[i].status = "removed"]_vars

(* The results of a run never replace those of a later run on a domain.    *)
NewerResultsStay ==
  [][\A d \in domains' : saved'[d] >= saved[d]]_vars

OpenRow(i) == i \in DOMAIN runs /\ Running(i)

(* A row left 'running' by a run that died does not refuse checks forever: *)
(* it is given up by a later check, unless all domains are deleted or the  *)
(* guard has raised with the lock in its hands, after which no check of    *)
(* the process begins before it is replaced.                               *)
StuckRowCleared ==
  \A i \in 1..(MaxRuns - 1) :
    OpenRow(i) ~> (domains = {} \/ leaked # {} \/ ~OpenRow(i))

(* The table, the lock and the threads of one process together do what     *)
(* RunRegister says.                                                       *)
OpenRun == IF \E i \in DOMAIN runs : Running(i)
           THEN CHOOSE i \in DOMAIN runs : Running(i) ELSE 0

Register == INSTANCE RunRegister WITH
  last <- Len(runs),
  open <- OpenRun,
  age <- IF OpenRun = 0 THEN 0 ELSE runs[OpenRun].age

ImplementsRegister == Register!RSpec
===============================================================================
