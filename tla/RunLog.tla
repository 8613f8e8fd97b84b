-------------------------------- MODULE RunLog --------------------------------
(***************************************************************************)
(* What full checks promise to those who read check_runs, check_results    *)
(* and domains, however many processes make them and whichever fail: a     *)
(* check is a job that is begun with a new row and a list of domains,      *)
(* publishes its results, records all of them in the history or none, and  *)
(* is closed, each once and in this order, or abandoned on the way.  A row *)
(* is given up only while it is running, and removed only when it has been *)
(* completed and long ago, with the results of its time.                   *)
(*                                                                         *)
(* There are no processes, threads, locks, transactions or ages here, and  *)
(* two jobs may be at work at once: what keeps them apart is RunRegister's *)
(* promise, which only one process keeps.                                  *)
(***************************************************************************)
EXTENDS Naturals, Sequences

CONSTANT Domains

VARIABLES
  log,      \* the status of each run, in order of id
  jobs,     \* the checks at work: their run, their list, what comes next
  doms,     \* domains that exist
  latest,   \* the run whose result each domain shows, 0 if none
  results   \* the history, as pairs <<run, domain>>

lvars == <<log, jobs, doms, latest, results>>

Job(i, list, next) == [run |-> i, list |-> list, next |-> next]

LInit ==
  /\ log = <<>>
  /\ jobs = {}
  /\ doms = Domains
  /\ latest = [d \in Domains |-> 0]
  /\ results = {}

IsRunning(S) == \A i \in S : i \in DOMAIN log /\ log[i] = "running"
GivenUp(S) == [i \in DOMAIN log |-> IF i \in S THEN "failed" ELSE log[i]]

(* A check begins; some that are still running are given up. *)
Begin(S, list) ==
  /\ IsRunning(S)
  /\ log' = Append(GivenUp(S), "running")
  /\ jobs' = jobs \cup {Job(Len(log) + 1, list, "publish")}
  /\ UNCHANGED <<doms, latest, results>>

GiveUp(S) ==
  /\ IsRunning(S)
  /\ log' = GivenUp(S)
  /\ UNCHANGED <<jobs, doms, latest, results>>

Advance(j, next) == jobs' = (jobs \ {j}) \cup {Job(j.run, j.list, next)}

(* The domains of the list that still exist show the result, or it fails. *)
Publish(j) ==
  /\ j.next = "publish"
  /\ Advance(j, "record")
  /\ \/ latest' = [d \in Domains |-> IF d \in j.list \cap doms THEN j.run ELSE latest[d]]
     \/ latest' = latest
  /\ UNCHANGED <<log, doms, results>>

(* The whole list goes into the history, or nothing. *)
Record(j) ==
  /\ j.next = "record"
  /\ Advance(j, "close")
  /\ \/ j.list \subseteq doms /\ results' = results \cup ({j.run} \X j.list)
     \/ results' = results
  /\ UNCHANGED <<log, doms, latest>>

Close(j) ==
  /\ j.next = "close"
  /\ log' = [log EXCEPT ![j.run] = "completed"]
  /\ jobs' = jobs \ {j}
  /\ UNCHANGED <<doms, latest, results>>

(* Checks fail, or die with their process; their rows stay as they are. *)
Abandon(J) ==
  /\ jobs' = jobs \ J
  /\ UNCHANGED <<log, doms, latest, results>>

Remove(d) ==
  /\ doms' = doms \ {d}
  /\ latest' = [latest EXCEPT ![d] = 0]
  /\ results' = {h \in results : h[2] # d}
  /\ UNCHANGED <<log, jobs>>

(* The runs up to k are too old to keep: the completed ones go, and the    *)
(* results of all of them.                                                 *)
Expire(k) ==
  /\ \A j \in jobs : j.run > k
  /\ log' = [i \in DOMAIN log |->
               IF i <= k /\ log[i] = "completed" THEN "removed" ELSE log[i]]
  /\ results' = {h \in results : h[1] > k}
  /\ UNCHANGED <<jobs, doms, latest>>

LNext ==
  \/ \E S \in SUBSET DOMAIN log : GiveUp(S) \/ \E list \in SUBSET Domains : Begin(S, list)
  \/ \E j \in jobs : Publish(j) \/ Record(j) \/ Close(j)
  \/ \E J \in SUBSET jobs : Abandon(J)
  \/ \E d \in Domains : Remove(d)
  \/ \E k \in DOMAIN log : Expire(k)

LSpec == LInit /\ [][LNext]_lvars
===============================================================================
