---------------------------- MODULE CheckRun_proofs ----------------------------
(***************************************************************************)
(* Proofs about CheckRun, for every number of processes, threads, domains, *)
(* rows and faults, and every threshold.                                   *)
(***************************************************************************)
EXTENDS CheckRun, SequenceTheorems, TLAPS

(* A function on 1..n with values in S is a sequence over S of length n. *)
LEMMA FunctionIsSeq ==
  ASSUME NEW S, NEW n \in Nat, NEW f \in [1..n -> S]
  PROVE  f \in Seq(S) /\ Len(f) = n /\ DOMAIN f = 1..n
<1>1. f \in Seq(S)
  BY SeqDef
<1>2. DOMAIN f = 1..n
  OBVIOUS
<1>3. Len(f) = n
  BY <1>1, <1>2, LenProperties
<1> QED
  BY <1>1, <1>2, <1>3

(* Marking rows 'failed' changes nothing but their status. *)
LEMMA FailedRows ==
  ASSUME runs \in Seq(Row), NEW S
  PROVE  /\ Failed(S) \in Seq(Row)
         /\ Len(Failed(S)) = Len(runs)
         /\ DOMAIN Failed(S) = DOMAIN runs
         /\ \A i \in DOMAIN runs :
              Failed(S)[i].status = IF i \in S THEN "failed" ELSE runs[i].status
<1>1. Len(runs) \in Nat /\ DOMAIN runs = 1..Len(runs) /\ \A i \in DOMAIN runs : runs[i] \in Row
  BY LenProperties
<1>2. \A i \in DOMAIN runs :
        [runs[i] EXCEPT !.status = "failed"] \in Row
        /\ [runs[i] EXCEPT !.status = "failed"].status = "failed"
  BY <1>1 DEF Row, Status
<1>3. Failed(S) \in [1..Len(runs) -> Row]
  BY <1>1, <1>2 DEF Failed
<1>4. \A i \in DOMAIN runs :
        Failed(S)[i].status = IF i \in S THEN "failed" ELSE runs[i].status
  BY <1>1, <1>2 DEF Failed
<1> QED
  BY <1>1, <1>3, <1>4, FunctionIsSeq

(* What the clean-up leaves of check_runs: rows and ages as they are, and   *)
(* a status only of completed rows changed.                                *)
Cleaned ==
  /\ DOMAIN runs' = DOMAIN runs /\ Len(runs') = Len(runs)
  /\ \A i \in DOMAIN runs :
       /\ runs'[i].age = runs[i].age
       /\ \/ runs'[i].status = runs[i].status
          \/ runs[i].status = "completed" /\ runs'[i].status = "removed"

LEMMA CleanedRows ==
  ASSUME runs \in Seq(Row), Cleanup
  PROVE  runs' \in Seq(Row) /\ Cleaned
<1>1. PICK k \in DOMAIN runs :
        runs' = [i \in DOMAIN runs |->
                  IF i <= k /\ runs[i].status = "completed"
                  THEN [runs[i] EXCEPT !.status = "removed"] ELSE runs[i]]
  BY DEF Cleanup
<1>2. Len(runs) \in Nat /\ DOMAIN runs = 1..Len(runs) /\ \A i \in DOMAIN runs : runs[i] \in Row
  BY LenProperties
<1>3. \A i \in DOMAIN runs :
        /\ [runs[i] EXCEPT !.status = "removed"] \in Row
        /\ [runs[i] EXCEPT !.status = "removed"].status = "removed"
        /\ [runs[i] EXCEPT !.status = "removed"].age = runs[i].age
  BY <1>2 DEF Row, Status
<1>4. runs' \in [1..Len(runs) -> Row]
  BY <1>1, <1>2, <1>3
<1>5. runs' \in Seq(Row) /\ Len(runs') = Len(runs) /\ DOMAIN runs' = DOMAIN runs
  BY <1>2, <1>4, FunctionIsSeq
<1> QED
  BY <1>1, <1>3, <1>5 DEF Cleaned

(* Type correctness: up, stopping, locked and the threads' locals, and the *)
(* shape of the tables, over every step of every process.                  *)
THEOREM TypeCorrect == Spec => []TypeOK
<1>1. Init => TypeOK
  BY EmptySeq DEF Init, TypeOK, Steps
<1>2. TypeOK /\ [Next]_vars => TypeOK'
  <2> SUFFICES ASSUME TypeOK, [Next]_vars
               PROVE  TypeOK'
    OBVIOUS
  <2> USE DEF TypeOK, Steps
  <2>1. ASSUME NEW t \in Threads, Acquire(t)
        PROVE  TypeOK'
    BY <2>1 DEF Acquire, Goto
  <2>2. ASSUME NEW t \in Threads, Leave(t), UNCHANGED <<domains, saved, history>>,
               runs' \in Seq(Row), faults' \in Nat
        PROVE  TypeOK'
    BY <2>2 DEF Leave
  <2>3. ASSUME NEW t \in Threads, Refuse(t)
        PROVE  TypeOK'
    BY <2>2, <2>3 DEF Refuse
  <2>4. ASSUME NEW t \in Threads, Admit(t)
        PROVE  TypeOK'
    BY <2>4 DEF Admit, Goto, procVars
  <2>5. ASSUME NEW t \in Threads, GuardRaises(t)
        PROVE  TypeOK'
    BY <2>5 DEF GuardRaises, Goto, Fault, WorkerOf, Threads
  <2>6. ASSUME NEW t \in Threads, ListDomains(t)
        PROVE  TypeOK'
    BY <2>6 DEF ListDomains, Goto, procVars
  <2>7. ASSUME NEW t \in Threads, NothingToCheck(t)
        PROVE  TypeOK'
    BY <2>2, <2>7 DEF NothingToCheck
  <2>8. ASSUME NEW t \in Threads, FindRunning(t)
        PROVE  TypeOK'
    BY <2>2, <2>8, FailedRows DEF FindRunning
  <2>9. ASSUME NEW t \in Threads, FindNoRunning(t)
        PROVE  TypeOK'
    <3>1. StaleRows \subseteq Nat
      BY LenProperties DEF StaleRows
    <3> QED
      BY <2>9, <3>1 DEF FindNoRunning, Goto, procVars
  <2>10. ASSUME NEW t \in Threads, InsertRun(t)
         PROVE  TypeOK'
    <3>1. Len(runs) + 1 \in Nat
      BY LenProperties
    <3>2. [status |-> "running", age |-> 0] \in Row
      BY CheckRunAssumption DEF Row, Status
    <3>3. runs' \in Seq(Row)
      BY <2>10, <3>2, FailedRows DEF InsertRun
    <3> QED
      BY <2>10, <3>1, <3>3 DEF InsertRun, Goto, procVars
  <2>11. ASSUME NEW t \in Threads, SaveDomains(t)
         PROVE  TypeOK'
    BY <2>11 DEF SaveDomains, Goto, procVars
  <2>12. ASSUME NEW t \in Threads, SaveDomainsFails(t)
         PROVE  TypeOK'
    BY <2>12 DEF SaveDomainsFails, Goto, procVars, Fault
  <2>13. ASSUME NEW t \in Threads, SaveHistory(t)
         PROVE  TypeOK'
    <3>1. run[t] \in Nat /\ snap[t] \subseteq Domains
      OBVIOUS
    <3>2. history' \subseteq Nat \X Domains
      BY <2>13, <3>1 DEF SaveHistory
    <3> QED
      BY <2>13, <3>2 DEF SaveHistory, Goto, procVars
  <2>14. ASSUME NEW t \in Threads, SaveHistoryFails(t)
         PROVE  TypeOK'
    BY <2>14 DEF SaveHistoryFails, Goto, procVars, Fault
  <2>15. ASSUME NEW t \in Threads, SaveLogs(t)
         PROVE  TypeOK'
    BY <2>15 DEF SaveLogs, Goto, procVars
  <2>16. ASSUME NEW t \in Threads, LogsRejected(t)
         PROVE  TypeOK'
    BY <2>2, <2>16 DEF LogsRejected
  <2>17. ASSUME NEW t \in Threads, Complete(t)
         PROVE  TypeOK'
    <3>1. runs' \in Seq(Row)
      <4>1. Len(runs) \in Nat /\ runs \in [1..Len(runs) -> Row]
        BY LenProperties
      <4>2. \A i \in DOMAIN runs : [runs[i] EXCEPT !.status = "completed"] \in Row
        BY <4>1 DEF Row, Status
      <4>3. runs' \in [1..Len(runs) -> Row]
        BY <2>17, <4>1, <4>2 DEF Complete
      <4> QED
        BY <4>1, <4>3, FunctionIsSeq
    <3> QED
      BY <2>17, <3>1 DEF Complete, Goto, procVars
  <2>18. ASSUME NEW t \in Threads, Finish(t)
         PROVE  TypeOK'
    BY <2>2, <2>18 DEF Finish
  <2>19. ASSUME NEW t \in Threads, DbError(t)
         PROVE  TypeOK'
    BY <2>2, <2>19 DEF DbError, Fault
  <2>20. ASSUME NEW d \in Domains, DeleteDomain(d)
         PROVE  TypeOK'
    BY <2>20 DEF DeleteDomain, procVars
  <2>21. CASE Tick
    <3>1. runs' \in Seq(Row)
      <4>1. Len(runs) \in Nat /\ runs \in [1..Len(runs) -> Row]
        BY LenProperties
      <4>2. \A i \in DOMAIN runs : runs[i].age <= Stale => [runs[i] EXCEPT !.age = @ + 1] \in Row
        <5> SUFFICES ASSUME NEW i \in DOMAIN runs, runs[i].age <= Stale
                     PROVE  [runs[i] EXCEPT !.age = @ + 1] \in Row
          OBVIOUS
        <5>1. runs[i] \in [status : Status, age : 0..(Stale + 1)]
          BY <4>1 DEF Row
        <5>2. runs[i].age + 1 \in 0..(Stale + 1)
          BY <5>1, CheckRunAssumption
        <5> QED
          BY <5>1, <5>2 DEF Row
      <4>3. runs' \in [1..Len(runs) -> Row]
        BY <2>21, <4>1, <4>2 DEF Tick
      <4> QED
        BY <4>1, <4>3, FunctionIsSeq
    <3> QED
      BY <2>21, <3>1 DEF Tick, procVars
  <2>22. ASSUME NEW w \in Workers, Shutdown(w)
         PROVE  TypeOK'
    BY <2>22 DEF Shutdown, Fault
  <2>23. ASSUME NEW w \in Workers, Exit(w)
         PROVE  TypeOK'
    BY <2>23 DEF Exit
  <2>24. ASSUME NEW w \in Workers, Crash(w)
         PROVE  TypeOK'
    BY <2>24 DEF Crash, Fault
  <2>25. ASSUME NEW w \in Workers, Restart(w)
         PROVE  TypeOK'
    BY <2>25 DEF Restart
  <2>26. CASE UNCHANGED vars
    BY <2>26 DEF vars
  <2>27. CASE Cleanup
    BY <2>27, CleanedRows DEF Cleanup, procVars
  <2> QED
    BY <2>1, <2>3, <2>4, <2>5, <2>6, <2>7, <2>8, <2>9, <2>10, <2>11, <2>12, <2>13,
       <2>14, <2>15, <2>16, <2>17, <2>18, <2>19, <2>20, <2>21, <2>22, <2>23, <2>24,
       <2>25, <2>26, <2>27 DEF Next, Step
<1>3. QED
  BY <1>1, <1>2, PTL DEF Spec

-------------------------------------------------------------------------------
(* The lock of a process *)

(* A thread that leaves _run_full_check releases a lock nobody else uses. *)
LEMMA LeaveKeepsOneInside ==
  ASSUME TypeOK, OneInside, NEW t \in Threads, pc[t] # "idle", Leave(t)
  PROVE  OneInside'
BY DEF TypeOK, OneInside, Leave

(* A thread inside that goes on, or falls out without a release. *)
LEMMA GoOnKeepsOneInside ==
  ASSUME TypeOK, OneInside, NEW t \in Threads, NEW from, NEW to,
         Goto(t, from, to), from # "idle", locked' = locked
  PROVE  OneInside'
BY DEF TypeOK, OneInside, Goto

(* For every number of processes, requests, rows and faults: the lock of a *)
(* process admits one thread at a time to _run_full_check.                 *)
THEOREM LockExclusion == Spec => []OneInside
<1>1. Init => OneInside
  BY DEF Init, OneInside
<1>2. TypeOK /\ OneInside /\ [Next]_vars => OneInside'
  <2> SUFFICES ASSUME TypeOK, OneInside, [Next]_vars
               PROVE  OneInside'
    OBVIOUS
  <2>1. ASSUME NEW t \in Threads, Acquire(t)
        PROVE  OneInside'
    BY <2>1 DEF Acquire, Goto, TypeOK, OneInside
  <2>2. ASSUME NEW t \in Threads, Step(t)
        PROVE  OneInside'
    <3>1. CASE Refuse(t) \/ NothingToCheck(t) \/ FindRunning(t) \/ LogsRejected(t)
               \/ Finish(t) \/ DbError(t)
      BY <3>1, LeaveKeepsOneInside
         DEF Refuse, NothingToCheck, FindRunning, LogsRejected, Finish, DbError
    <3>2. CASE Admit(t) \/ GuardRaises(t) \/ ListDomains(t) \/ FindNoRunning(t) \/ InsertRun(t)
      BY <3>2, GoOnKeepsOneInside
         DEF Admit, GuardRaises, ListDomains, FindNoRunning, InsertRun, procVars
    <3>3. CASE SaveDomains(t) \/ SaveDomainsFails(t) \/ SaveHistory(t)
               \/ SaveHistoryFails(t) \/ SaveLogs(t) \/ Complete(t)
      BY <3>3, GoOnKeepsOneInside
         DEF SaveDomains, SaveDomainsFails, SaveHistory, SaveHistoryFails, SaveLogs,
             Complete, procVars
    <3> QED
      BY <2>2, <3>1, <3>2, <3>3 DEF Step
  <2>3. ASSUME NEW w \in Workers, Crash(w) \/ Exit(w)
        PROVE  OneInside'
    BY <2>3 DEF Crash, Exit, TypeOK, OneInside
  <2>4. CASE \/ Tick \/ Cleanup
             \/ \E d \in Domains : DeleteDomain(d)
             \/ \E w \in Workers : Shutdown(w) \/ Restart(w)
             \/ UNCHANGED vars
    BY <2>4 DEF Tick, Cleanup, DeleteDomain, Shutdown, Restart, procVars, vars, OneInside
  <2> QED
    BY <2>1, <2>2, <2>3, <2>4 DEF Next
<1>3. QED
  BY <1>1, <1>2, TypeCorrect, PTL DEF Spec

-------------------------------------------------------------------------------
(* One process *)

(* The deployment of gunicorn.conf.py: workers = 1. *)
OneProcess == \A v, w \in Workers : v = w

(* The rows of check_runs and the threads that own them.  OneRunning is    *)
(* not inductive alone: an INSERT keeps it because the rows still running  *)
(* are those its transaction gives up (ReadyToInsert), and that stays so   *)
(* because the lock keeps the other threads out (OneInside).               *)
RowInv ==
  /\ TypeOK
  /\ OneInside
  /\ OneRunning
  /\ OwnRowOpen
  /\ ReadyToInsert

(* With one process, one thread is inside. *)
LEMMA OnlyThread ==
  ASSUME TypeOK, OneInside, OneProcess, NEW t \in Threads, NEW u \in Threads,
         pc[t] # "idle", pc[u] # "idle"
  PROVE  t = u
BY DEF OneInside, OneProcess, Threads, WorkerOf

(* A step that leaves check_runs alone and brings no thread to a place     *)
(* where it owns a row or is about to insert one.                          *)
LEMMA QuietStep ==
  ASSUME RowInv, runs' = runs,
         \A u \in Threads : pc'[u] \in Checking => pc[u] \in Checking /\ run'[u] = run[u],
         \A u \in Threads : pc'[u] = "insert" => pc[u] = "insert" /\ staged'[u] = staged[u]
  PROVE  OneRunning' /\ OwnRowOpen' /\ ReadyToInsert'
BY DEF RowInv, OneRunning, OwnRowOpen, ReadyToInsert, Running

(* A row keeps its status, or the clean-up takes it. *)
StaysClosed(i) ==
  /\ i \in DOMAIN runs'
  /\ \/ runs'[i].status = runs[i].status
     \/ runs[i].status = "completed" /\ runs'[i].status = "removed"

(* RowInv is preserved by every step of a single process, and no closed    *)
(* row changes its status.                                                 *)
LEMMA RowStep ==
  ASSUME OneProcess, RowInv, [Next]_vars
  PROVE  /\ OneRunning' /\ OwnRowOpen' /\ ReadyToInsert'
         /\ \A i \in DOMAIN runs : ~Running(i) => StaysClosed(i)
<1> DEFINE Goal ==
      /\ OneRunning' /\ OwnRowOpen' /\ ReadyToInsert'
      /\ \A i \in DOMAIN runs : ~Running(i) => StaysClosed(i)
<1> USE DEF StaysClosed
<1>0. TypeOK /\ OneInside /\ OneRunning /\ OwnRowOpen /\ ReadyToInsert
  BY DEF RowInv
<1>a. /\ Len(runs) \in Nat /\ DOMAIN runs = 1..Len(runs)
      /\ \A i \in DOMAIN runs : runs[i] \in Row
  BY <1>0, LenProperties DEF TypeOK
<1>b. \A t, u \in Threads : pc[t] # "idle" /\ pc[u] # "idle" => t = u
  BY <1>0, OnlyThread
<1>1. ASSUME NEW t \in Threads, Acquire(t)
      PROVE  Goal
  BY <1>1, QuietStep, <1>0 DEF Acquire, Goto, TypeOK, Checking
<1>2. ASSUME NEW t \in Threads, Leave(t), runs' = runs
      PROVE  Goal
  BY <1>2, QuietStep, <1>0 DEF Leave, TypeOK, Checking
<1>3. ASSUME NEW t \in Threads,
             Refuse(t) \/ NothingToCheck(t) \/ LogsRejected(t) \/ Finish(t) \/ DbError(t)
      PROVE  Goal
  BY <1>2, <1>3 DEF Refuse, NothingToCheck, LogsRejected, Finish, DbError
<1>4. ASSUME NEW t \in Threads, Admit(t) \/ GuardRaises(t) \/ ListDomains(t)
      PROVE  Goal
  BY <1>4, QuietStep, <1>0 DEF Admit, GuardRaises, ListDomains, Goto, TypeOK, Checking
<1>5. ASSUME NEW t \in Threads,
             SaveDomains(t) \/ SaveDomainsFails(t) \/ SaveHistory(t)
             \/ SaveHistoryFails(t) \/ SaveLogs(t)
      PROVE  Goal
  BY <1>5, QuietStep, <1>0
     DEF SaveDomains, SaveDomainsFails, SaveHistory, SaveHistoryFails, SaveLogs,
         Goto, TypeOK, Checking
<1>6. ASSUME NEW t \in Threads, FindRunning(t)
      PROVE  Goal
  <2>1. runs' = Failed(StaleRows) /\ Leave(t)
    BY <1>6 DEF FindRunning
  <2>2. /\ DOMAIN runs' = DOMAIN runs
        /\ \A i \in DOMAIN runs :
             runs'[i].status = IF i \in StaleRows THEN "failed" ELSE runs[i].status
    BY <2>1, <1>0, FailedRows DEF TypeOK
  <2>3. \A u \in Threads : pc'[u] = "idle"
    BY <1>6, <1>b, <1>0, <2>1 DEF FindRunning, Leave, TypeOK
  <2>4. OneRunning' /\ OwnRowOpen' /\ ReadyToInsert'
    BY <1>0, <2>2, <2>3 DEF OneRunning, OwnRowOpen, ReadyToInsert, Running, Checking
  <2> QED
    BY <2>2, <2>4 DEF StaleRows
<1>7. ASSUME NEW t \in Threads, FindNoRunning(t)
      PROVE  Goal
  <2>1. \A i \in DOMAIN runs : Running(i) <=> i \in StaleRows
    BY <1>7 DEF FindNoRunning, StaleRows
  <2>2. pc[t] = "start" /\ pc' = [pc EXCEPT ![t] = "insert"] /\ runs' = runs
        /\ staged' = [staged EXCEPT ![t] = StaleRows] /\ run' = run
    BY <1>7 DEF FindNoRunning, Goto
  <2>3. \A u \in Threads \ {t} : pc'[u] = "idle"
    BY <2>2, <1>b, <1>0 DEF TypeOK
  <2>4. ReadyToInsert'
    BY <2>1, <2>2, <2>3, <1>0 DEF ReadyToInsert, Running, TypeOK
  <2>5. OneRunning' /\ OwnRowOpen'
    BY <2>2, <2>3, <1>0 DEF OneRunning, OwnRowOpen, Running, TypeOK, Checking
  <2> QED
    BY <2>2, <2>4, <2>5
<1>8. ASSUME NEW t \in Threads, InsertRun(t)
      PROVE  Goal
  <2> DEFINE n == Len(runs) + 1
             new == [status |-> "running", age |-> 0]
  <2>1. /\ pc[t] = "insert" /\ pc' = [pc EXCEPT ![t] = "probe"]
        /\ runs' = Append(Failed(staged[t]), new)
        /\ run' = [run EXCEPT ![t] = n]
    BY <1>8 DEF InsertRun, Goto
  <2>2. \A u \in Threads \ {t} : pc'[u] = "idle"
    BY <2>1, <1>b, <1>0 DEF TypeOK
  <2>3. /\ Failed(staged[t]) \in Seq(Row) /\ Len(Failed(staged[t])) = Len(runs)
        /\ \A i \in DOMAIN runs :
             Failed(staged[t])[i].status = IF i \in staged[t] THEN "failed" ELSE runs[i].status
    BY <1>0, FailedRows DEF TypeOK
  <2>4. /\ DOMAIN runs' = 1..n /\ runs'[n] = new
        /\ \A i \in DOMAIN runs : runs'[i] = Failed(staged[t])[i]
    BY <2>1, <2>3, <1>a
  <2>5. \A i \in DOMAIN runs : runs'[i].status # "running"
    BY <2>1, <2>3, <2>4, <1>0 DEF ReadyToInsert, Running
  <2>6. OneRunning'
    BY <2>4, <2>5, <1>a DEF OneRunning, Running
  <2>7. OwnRowOpen' /\ ReadyToInsert'
    BY <2>1, <2>2, <2>4, <1>0, <1>a DEF OwnRowOpen, ReadyToInsert, Running, TypeOK, Checking
  <2>8. \A i \in DOMAIN runs :
          ~Running(i) => i \in DOMAIN runs' /\ runs'[i].status = runs[i].status
    <3> SUFFICES ASSUME NEW i \in DOMAIN runs, ~Running(i)
                 PROVE  i \in DOMAIN runs' /\ runs'[i].status = runs[i].status
      OBVIOUS
    <3>1. i \notin staged[t]
      BY <2>1, <1>0 DEF ReadyToInsert
    <3> QED
      BY <3>1, <2>3, <2>4, <1>a
  <2> QED
    BY <2>6, <2>7, <2>8
<1>9. ASSUME NEW t \in Threads, Complete(t)
      PROVE  Goal
  <2>1. /\ pc[t] = "complete" /\ pc' = [pc EXCEPT ![t] = "snapshot"]
        /\ runs' = [runs EXCEPT ![run[t]].status = "completed"]
    BY <1>9 DEF Complete, Goto
  <2>2. run[t] \in DOMAIN runs /\ Running(run[t])
    BY <2>1, <1>0 DEF OwnRowOpen, Checking
  <2>3. /\ DOMAIN runs' = DOMAIN runs /\ runs'[run[t]].status = "completed"
        /\ \A i \in DOMAIN runs \ {run[t]} : runs'[i] = runs[i]
    BY <2>1, <2>2, <1>a DEF Row
  <2>4. \A u \in Threads : pc'[u] \in {"idle", "snapshot"}
    BY <2>1, <1>b, <1>0 DEF TypeOK
  <2>5. OneRunning' /\ OwnRowOpen' /\ ReadyToInsert'
    BY <2>3, <2>4, <1>0 DEF OneRunning, OwnRowOpen, ReadyToInsert, Running, Checking
  <2> QED
    BY <2>2, <2>3, <2>5
<1>10. CASE Tick
  <2>1. /\ DOMAIN runs' = DOMAIN runs
        /\ \A i \in DOMAIN runs : runs'[i].status = runs[i].status
    BY <1>10, <1>a DEF Tick, Row
  <2>2. pc' = pc /\ run' = run /\ staged' = staged
    BY <1>10 DEF Tick
  <2> QED
    BY <2>1, <2>2, <1>0 DEF OneRunning, OwnRowOpen, ReadyToInsert, Running
<1>11. ASSUME NEW w \in Workers, Crash(w) \/ Exit(w)
       PROVE  Goal
  BY <1>11, QuietStep, <1>0 DEF Crash, Exit, TypeOK, Checking
<1>12. CASE \/ \E d \in Domains : DeleteDomain(d)
            \/ \E w \in Workers : Shutdown(w) \/ Restart(w)
            \/ UNCHANGED vars
  BY <1>12, QuietStep DEF DeleteDomain, Shutdown, Restart, vars
<1>13. CASE Cleanup
  <2>1. Cleaned
    BY <1>0, <1>13, CleanedRows DEF TypeOK
  <2>2. pc' = pc /\ run' = run /\ staged' = staged
    BY <1>13 DEF Cleanup
  <2> QED
    BY <2>1, <2>2, <1>0 DEF Cleaned, OneRunning, OwnRowOpen, ReadyToInsert, Running
<1> QED
  BY <1>1, <1>3, <1>4, <1>5, <1>6, <1>7, <1>8, <1>9, <1>10, <1>11, <1>12, <1>13 DEF Next, Step

(* RowInv holds in every state of a single process. *)
LEMMA RowInvariant ==
  ASSUME OneProcess
  PROVE  Spec => []RowInv
<1>1. Init => OneRunning /\ OwnRowOpen /\ ReadyToInsert
  BY DEF Init, OneRunning, OwnRowOpen, ReadyToInsert, Checking
<1>2. TypeOK /\ OneInside /\ (OneRunning /\ OwnRowOpen /\ ReadyToInsert) /\ [Next]_vars
        => (OneRunning /\ OwnRowOpen /\ ReadyToInsert)'
  BY RowStep DEF RowInv
<1>3. Spec => [](OneRunning /\ OwnRowOpen /\ ReadyToInsert)
  BY <1>1, <1>2, TypeCorrect, LockExclusion, PTL DEF Spec
<1>4. TypeOK /\ OneInside /\ (OneRunning /\ OwnRowOpen /\ ReadyToInsert) => RowInv
  BY DEF RowInv
<1> QED
  BY <1>3, <1>4, TypeCorrect, LockExclusion, PTL

(* With one process, check_runs has at most one row 'running' in every     *)
(* state, through crashes, restarts, exceptions and runs of any length.    *)
THEOREM SingleRunning ==
  ASSUME OneProcess
  PROVE  Spec => []OneRunning
<1>1. RowInv => OneRunning
  BY DEF RowInv
<1> QED
  BY <1>1, RowInvariant, PTL

(* With one process, the row of a run in progress is 'running': no other   *)
(* run gives it up, however old it is.                                     *)
THEOREM RowStaysOpen ==
  ASSUME OneProcess
  PROVE  Spec => []OwnRowOpen
<1>1. RowInv => OwnRowOpen
  BY DEF RowInv
<1> QED
  BY <1>1, RowInvariant, PTL

(* With one process, a row once completed or failed keeps its status until *)
(* the clean-up removes it, and that removes only completed ones.          *)
THEOREM ClosedStaysClosed ==
  ASSUME OneProcess
  PROVE  Spec => ClosedIsFinal
<1>1. RowInv /\ [Next]_vars =>
        [\A i \in DOMAIN runs : ~Running(i) =>
           \/ runs'[i].status = runs[i].status
           \/ runs[i].status = "completed" /\ runs'[i].status = "removed"]_vars
  BY RowStep DEF StaysClosed
<1> QED
  BY <1>1, RowInvariant, PTL DEF Spec, ClosedIsFinal

-------------------------------------------------------------------------------
(* One process implements RunRegister *)

(* The rows an open transaction gives up are past the threshold. *)
StagedAreStale ==
  \A t \in Threads : pc[t] = "insert" =>
    \A i \in DOMAIN runs : Running(i) => runs[i].age > Stale

(* StagedAreStale is an invariant: ages of running rows only grow, and no  *)
(* row begins to run while the only thread inside is about to insert one.  *)
LEMMA StagedStep ==
  ASSUME OneProcess, RowInv, StagedAreStale, [Next]_vars
  PROVE  StagedAreStale'
<1>0. TypeOK /\ OneInside
  BY DEF RowInv
<1>a. /\ Len(runs) \in Nat /\ DOMAIN runs = 1..Len(runs)
      /\ \A i \in DOMAIN runs : runs[i] \in Row
  BY <1>0, LenProperties DEF TypeOK
<1>b. \A t, u \in Threads : pc[t] # "idle" /\ pc[u] # "idle" => t = u
  BY <1>0, OnlyThread
<1>1. ASSUME \A u \in Threads : pc'[u] # "insert"
      PROVE  StagedAreStale'
  BY <1>1 DEF StagedAreStale
<1>2. ASSUME NEW t \in Threads, pc[t] # "idle", NEW to, to # "insert",
             pc' = [pc EXCEPT ![t] = to]
      PROVE  StagedAreStale'
  BY <1>0, <1>1, <1>2, <1>b DEF TypeOK
<1>3. ASSUME NEW t \in Threads, Acquire(t)
      PROVE  StagedAreStale'
  BY <1>3, <1>0 DEF Acquire, Goto, StagedAreStale, Running, TypeOK
<1>4. ASSUME NEW t \in Threads, FindNoRunning(t)
      PROVE  StagedAreStale'
  BY <1>4 DEF FindNoRunning, Goto, StaleRows, StagedAreStale, Running
<1>5. ASSUME NEW t \in Threads, Step(t), ~FindNoRunning(t)
      PROVE  StagedAreStale'
  <2>1. CASE Refuse(t) \/ NothingToCheck(t) \/ FindRunning(t) \/ LogsRejected(t)
             \/ Finish(t) \/ DbError(t)
    BY <2>1, <1>2 DEF Refuse, NothingToCheck, FindRunning, LogsRejected, Finish, DbError, Leave
  <2>2. CASE Admit(t) \/ GuardRaises(t) \/ ListDomains(t) \/ InsertRun(t)
    BY <2>2, <1>2 DEF Admit, GuardRaises, ListDomains, InsertRun, Goto
  <2>3. CASE SaveDomains(t) \/ SaveDomainsFails(t) \/ SaveHistory(t)
             \/ SaveHistoryFails(t) \/ SaveLogs(t) \/ Complete(t)
    BY <2>3, <1>2 DEF SaveDomains, SaveDomainsFails, SaveHistory, SaveHistoryFails,
                      SaveLogs, Complete, Goto
  <2> QED
    BY <1>5, <2>1, <2>2, <2>3 DEF Step
<1>6. CASE Tick
  <2>1. /\ DOMAIN runs' = DOMAIN runs
        /\ \A i \in DOMAIN runs : runs'[i].status = runs[i].status /\ runs'[i].age >= runs[i].age
    BY <1>6, <1>a DEF Tick, Row
  <2>2. \A i \in DOMAIN runs : runs[i].age \in Nat /\ runs'[i].age \in Nat
    BY <1>6, <1>a DEF Tick, Row
  <2> QED
    BY <1>6, <2>1, <2>2, CheckRunAssumption DEF Tick, StagedAreStale, Running
<1>7. ASSUME NEW w \in Workers, Crash(w) \/ Exit(w)
      PROVE  StagedAreStale'
  BY <1>7, <1>0 DEF Crash, Exit, StagedAreStale, Running, TypeOK
<1>8. CASE \/ \E d \in Domains : DeleteDomain(d)
           \/ \E w \in Workers : Shutdown(w) \/ Restart(w)
           \/ UNCHANGED vars
  BY <1>8 DEF DeleteDomain, Shutdown, Restart, vars, StagedAreStale, Running
<1>9. CASE Cleanup
  <2>1. Cleaned /\ pc' = pc
    BY <1>0, <1>9, CleanedRows DEF Cleanup, TypeOK
  <2> QED
    BY <2>1 DEF Cleaned, StagedAreStale, Running
<1> QED
  BY <1>3, <1>4, <1>5, <1>6, <1>7, <1>8, <1>9 DEF Next

(* The id of the open run is that of the one row 'running'. *)
LEMMA OpenRunIs ==
  ASSUME OneRunning
  PROVE  /\ \A i \in DOMAIN runs : Running(i) => OpenRun = i
         /\ (\A i \in DOMAIN runs : ~Running(i)) => OpenRun = 0
BY DEF OneRunning, OpenRun

(* The same in the next state. *)
LEMMA OpenRunWillBe ==
  ASSUME OneRunning'
  PROVE  /\ \A i \in DOMAIN runs' : runs'[i].status = "running" => OpenRun' = i
         /\ (\A i \in DOMAIN runs' : runs'[i].status # "running") => OpenRun' = 0
BY DEF OneRunning, OpenRun, Running

(* A step of a single process is a step of the register or changes none of *)
(* what the register sees.                                                 *)
LEMMA RegisterStep ==
  ASSUME OneProcess, RowInv, RowInv', StagedAreStale, [Next]_vars
  PROVE  [Register!RNext]_(Register!rvars)
<1> DEFINE Goal == [Register!RNext]_(Register!rvars)
           old == IF OpenRun = 0 THEN 0 ELSE runs[OpenRun].age
<1>0. TypeOK /\ OneRunning /\ OneRunning'
  BY DEF RowInv
<1>a. /\ Len(runs) \in Nat /\ DOMAIN runs = 1..Len(runs)
      /\ \A i \in DOMAIN runs : runs[i] \in Row
  BY <1>0, LenProperties DEF TypeOK
<1>1. ASSUME runs' = runs
      PROVE  Goal
  BY <1>1 DEF Register!rvars, OpenRun, Running
<1>2. ASSUME NEW t \in Threads, FindRunning(t)
      PROVE  Goal
  <2>1. StaleRows = {}
    BY <1>2, <1>0 DEF FindRunning, OneRunning, StaleRows
  <2>2. Failed({}) = runs
    BY <1>0, <1>a, LenProperties DEF Failed, TypeOK
  <2> QED
    BY <1>2, <1>1, <2>1, <2>2 DEF FindRunning
<1>3. ASSUME NEW t \in Threads, InsertRun(t)
      PROVE  Goal
  <2> DEFINE n == Len(runs) + 1
             new == [status |-> "running", age |-> 0]
  <2>1. /\ pc[t] = "insert" /\ runs' = Append(Failed(staged[t]), new)
        /\ Failed(staged[t]) \in Seq(Row) /\ Len(Failed(staged[t])) = Len(runs)
    BY <1>0, <1>3, FailedRows DEF InsertRun, Goto, TypeOK
  <2>2. Len(runs') = n /\ DOMAIN runs' = 1..n /\ runs'[n] = new
    BY <2>1, <1>a
  <2>3. OpenRun' = n
    BY <2>2, <1>0, <1>a, OpenRunWillBe
  <2>4. OpenRun = 0 \/ runs[OpenRun].age > Stale
    BY <2>1, <1>0, OpenRunIs DEF StagedAreStale
  <2>5. n # 0
    BY <1>a
  <2>6. Register!Open
    <3>1. OpenRun = 0 \/ old > Stale
      BY <2>4
    <3>2. (IF OpenRun = 0 THEN 0 ELSE runs[OpenRun].age)' = 0
      BY <2>2, <2>3, <2>5
    <3> QED
      BY <3>1, <3>2, <2>2, <2>3 DEF Register!Open
  <2> QED
    BY <2>6 DEF Register!RNext
<1>4. ASSUME NEW t \in Threads, Complete(t)
      PROVE  Goal
  <2>1. /\ run[t] \in DOMAIN runs /\ Running(run[t])
        /\ runs' = [runs EXCEPT ![run[t]].status = "completed"]
    BY <1>4 DEF Complete, Goto, RowInv, OwnRowOpen, Checking
  <2>2. OpenRun = run[t] /\ OpenRun # 0
    BY <2>1, <1>0, <1>a, OpenRunIs
  <2>3. /\ DOMAIN runs' = DOMAIN runs /\ runs'[run[t]].status = "completed"
        /\ \A i \in DOMAIN runs \ {run[t]} : runs'[i] = runs[i]
    BY <2>1, <1>a DEF Row
  <2>4. runs' \in Seq(Row) /\ Len(runs') = Len(runs)
    BY <2>3, <1>a, LenProperties DEF RowInv, TypeOK
  <2>5. OpenRun' = 0
    BY <2>1, <2>3, <1>0, OpenRunWillBe DEF OneRunning, Running
  <2>6. Register!Close
    BY <2>2, <2>4, <2>5 DEF Register!Close
  <2> QED
    BY <2>6 DEF Register!RNext
<1>5. CASE Tick
  <2>1. PICK k \in DOMAIN runs : Running(k) /\ runs[k].age <= Stale
    BY <1>5 DEF Tick
  <2>2. OpenRun = k /\ k # 0
    BY <2>1, <1>0, <1>a, OpenRunIs
  <2>3. /\ DOMAIN runs' = DOMAIN runs
        /\ runs'[k].status = "running" /\ runs'[k].age = runs[k].age + 1
    BY <1>5, <2>1, <1>a DEF Tick, Row, Running
  <2>4. runs' \in Seq(Row) /\ Len(runs') = Len(runs)
    BY <2>3, <1>a, LenProperties DEF RowInv, TypeOK
  <2>5. OpenRun' = k
    BY <2>3, <1>0, OpenRunWillBe
  <2>6. Register!GrowOld
    BY <2>1, <2>2, <2>3, <2>4, <2>5 DEF Register!GrowOld
  <2> QED
    BY <2>6 DEF Register!RNext
<1>6. ASSUME NEW t \in Threads, Acquire(t) \/ Step(t),
             ~FindRunning(t), ~InsertRun(t), ~Complete(t)
      PROVE  Goal
  <2>1. runs' = runs
    BY <1>6 DEF Step, Acquire, Refuse, Admit, GuardRaises, ListDomains, NothingToCheck,
                FindNoRunning, SaveDomains, SaveDomainsFails, SaveHistory, SaveHistoryFails,
                SaveLogs, LogsRejected, Finish, DbError
  <2> QED
    BY <2>1, <1>1
<1>7. CASE \/ \E d \in Domains : DeleteDomain(d)
           \/ \E w \in Workers : Shutdown(w) \/ Exit(w) \/ Crash(w) \/ Restart(w)
           \/ UNCHANGED vars
  <2>1. runs' = runs
    BY <1>7 DEF DeleteDomain, Shutdown, Exit, Crash, Restart, vars
  <2> QED
    BY <2>1, <1>1
<1>8. CASE Cleanup
  <2>1. Cleaned
    BY <1>0, <1>8, CleanedRows DEF TypeOK
  <2>2. OpenRun' = OpenRun
    <3>1. CASE \A i \in DOMAIN runs : ~Running(i)
      BY <2>1, <3>1, <1>0, OpenRunIs, OpenRunWillBe DEF Cleaned, Running
    <3>2. ASSUME NEW i \in DOMAIN runs, Running(i) PROVE OpenRun' = OpenRun
      BY <2>1, <3>2, <1>0, OpenRunIs, OpenRunWillBe DEF Cleaned, Running
    <3> QED
      BY <3>1, <3>2
  <2>3. OpenRun = 0 \/ OpenRun \in DOMAIN runs
    BY DEF OpenRun
  <2>4. OpenRun # 0 => runs'[OpenRun].age = runs[OpenRun].age
    BY <2>1, <2>3 DEF Cleaned
  <2> QED
    BY <2>1, <2>2, <2>4 DEF Register!rvars, Cleaned
<1> QED
  BY <1>2, <1>3, <1>4, <1>5, <1>6, <1>7, <1>8 DEF Next

(* With one process, the guard and the table do what RunRegister promises: *)
(* runs are numbered in order, one is open at a time, a run is opened over *)
(* another only when that one is stale, and only the open run is closed.   *)
THEOREM Refinement ==
  ASSUME OneProcess
  PROVE  Spec => ImplementsRegister
<1>1. Init => Register!RInit
  <2> SUFFICES ASSUME Init PROVE Register!RInit
    OBVIOUS
  <2>1. runs = <<>> /\ Len(runs) = 0 /\ DOMAIN runs = {}
    BY EmptySeq DEF Init
  <2>2. OpenRun = 0
    BY <2>1 DEF OpenRun
  <2> QED
    BY <2>1, <2>2 DEF Register!RInit
<1>2. Init => StagedAreStale
  BY DEF Init, StagedAreStale
<1>3. RowInv /\ StagedAreStale /\ [Next]_vars => StagedAreStale'
  BY StagedStep
<1>4. RowInv /\ RowInv' /\ StagedAreStale /\ [Next]_vars => [Register!RNext]_(Register!rvars)
  BY RegisterStep
<1> QED
  BY <1>1, <1>2, <1>3, <1>4, RowInvariant, PTL DEF Spec, ImplementsRegister, Register!RSpec

-------------------------------------------------------------------------------
(* A lock that is held has a holder *)

(* For every number of processes: the lock of a process is held only while *)
(* one of its threads is in a check, or since its guard raised with the    *)
(* lock in its hands: whatever else ends a check releases it.              *)
THEOREM LockHasHolder == Spec => []LockMeansChecking
<1>1. Init => LockMeansChecking
  BY DEF Init, LockMeansChecking
<1> USE DEF InACheck
<1>2. TypeOK /\ LockMeansChecking /\ [Next]_vars => LockMeansChecking'
  <2> SUFFICES ASSUME TypeOK, LockMeansChecking, [Next]_vars
               PROVE  LockMeansChecking'
    OBVIOUS
  <2>1. ASSUME NEW t \in Threads, Leave(t) PROVE LockMeansChecking'
    BY <2>1 DEF Leave, TypeOK, LockMeansChecking
  <2>2. ASSUME NEW t \in Threads, NEW from, NEW to, Goto(t, from, to), to # "idle",
               locked' = locked, leaked' = leaked
        PROVE  LockMeansChecking'
    BY <2>2 DEF Goto, TypeOK, LockMeansChecking
  <2>3. ASSUME NEW t \in Threads, Acquire(t) PROVE LockMeansChecking'
    BY <2>3 DEF Acquire, Goto, TypeOK, LockMeansChecking
  <2>4. ASSUME NEW t \in Threads, Step(t) PROVE LockMeansChecking'
    <3>1. CASE Refuse(t) \/ NothingToCheck(t) \/ FindRunning(t) \/ LogsRejected(t)
               \/ Finish(t) \/ DbError(t)
      BY <3>1, <2>1 DEF Refuse, NothingToCheck, FindRunning, LogsRejected, Finish, DbError
    <3>2. CASE Admit(t) \/ ListDomains(t) \/ FindNoRunning(t) \/ InsertRun(t)
      BY <3>2, <2>2 DEF Admit, ListDomains, FindNoRunning, InsertRun, procVars
    <3>3. CASE SaveDomains(t) \/ SaveDomainsFails(t) \/ SaveHistory(t)
               \/ SaveHistoryFails(t) \/ SaveLogs(t) \/ Complete(t)
      BY <3>3, <2>2 DEF SaveDomains, SaveDomainsFails, SaveHistory, SaveHistoryFails,
                        SaveLogs, Complete, procVars
    <3>4. CASE GuardRaises(t)
      BY <3>4 DEF GuardRaises, Goto, TypeOK, LockMeansChecking
    <3> QED
      BY <2>4, <3>1, <3>2, <3>3, <3>4 DEF Step
  <2>5. ASSUME NEW w \in Workers, Crash(w) \/ Exit(w) PROVE LockMeansChecking'
    BY <2>5 DEF Crash, Exit, TypeOK, LockMeansChecking
  <2>6. CASE \/ Tick \/ Cleanup
             \/ \E d \in Domains : DeleteDomain(d)
             \/ \E w \in Workers : Shutdown(w) \/ Restart(w)
             \/ UNCHANGED vars
    BY <2>6 DEF Tick, Cleanup, DeleteDomain, Shutdown, Restart, procVars, vars, LockMeansChecking
  <2> QED
    BY <2>3, <2>4, <2>5, <2>6 DEF Next
<1> QED
  BY <1>1, <1>2, TypeCorrect, PTL DEF Spec

-------------------------------------------------------------------------------
(* What any number of processes do to check_runs *)

(* A transaction between the two halves of start_check_run has rows locked *)
(* that are 'running'; no row is locked by two.  This is what a completed  *)
(* run relies on: an INSERT fails the rows its transaction selected.       *)
StagedInv ==
  /\ \A t \in Threads : pc[t] # "insert" => staged[t] = {}
  /\ \A t \in Threads : \A i \in staged[t] : i \in DOMAIN runs /\ Running(i)
  /\ \A t, u \in Threads : t # u => staged[t] \cap staged[u] = {}

(* The status a row has after a step, of any process. *)
SameStatus ==
  /\ DOMAIN runs \subseteq DOMAIN runs'
  /\ \A i \in DOMAIN runs : runs'[i].status = runs[i].status

(* A step that leaves the rows' status and the open transactions alone, or *)
(* only ends some of these.                                                *)
LEMMA StagedQuiet ==
  ASSUME StagedInv, SameStatus,
         \A t \in Threads : staged'[t] = {} \/ (staged'[t] = staged[t] /\ pc'[t] = pc[t])
  PROVE  StagedInv'
BY DEF StagedInv, SameStatus, Running

(* Time changes no row's status. *)
LEMMA TickRows ==
  ASSUME TypeOK, Tick
  PROVE  SameStatus /\ Len(runs') = Len(runs)
<1> DEFINE f == [i \in DOMAIN runs |->
                   IF Running(i) /\ runs[i].age <= Stale
                   THEN [runs[i] EXCEPT !.age = @ + 1] ELSE runs[i]]
<1>a. /\ Len(runs) \in Nat /\ DOMAIN runs = 1..Len(runs)
      /\ \A i \in DOMAIN runs : runs[i] \in Row
  BY LenProperties DEF TypeOK
<1>1. runs' = f /\ f \in [1..Len(runs) -> [status : Status, age : Nat]]
  BY <1>a DEF Tick, Row
<1>2. Len(f) = Len(runs)
  BY <1>1, <1>a, FunctionIsSeq
<1>3. SameStatus
  BY <1>1, <1>a DEF Row, SameStatus
<1> QED
  BY <1>1, <1>2, <1>3

(* Steps of a thread other than the two that end in an UPDATE and the      *)
(* INSERT, and steps of the environment but the clean-up, change no row's  *)
(* status.                                                                 *)
LEMMA StatusKept ==
  ASSUME TypeOK, [Next]_vars,
         \A t \in Threads : ~FindRunning(t) /\ ~InsertRun(t) /\ ~Complete(t),
         ~Cleanup
  PROVE  SameStatus /\ Len(runs') = Len(runs)
<1>a. /\ Len(runs) \in Nat /\ DOMAIN runs = 1..Len(runs)
      /\ \A i \in DOMAIN runs : runs[i] \in Row
  BY LenProperties DEF TypeOK
<1>1. CASE runs' = runs
  BY <1>1 DEF SameStatus
<1>2. ASSUME NEW t \in Threads, Acquire(t) \/ Step(t) PROVE runs' = runs
  BY <1>2 DEF Step, Acquire, Refuse, Admit, GuardRaises, ListDomains, NothingToCheck,
              FindNoRunning, SaveDomains, SaveDomainsFails, SaveHistory, SaveHistoryFails,
              SaveLogs, LogsRejected, Finish, DbError
<1>3. ASSUME \/ \E d \in Domains : DeleteDomain(d)
             \/ \E w \in Workers : Shutdown(w) \/ Exit(w) \/ Crash(w) \/ Restart(w)
             \/ UNCHANGED vars
      PROVE  runs' = runs
  BY <1>3 DEF DeleteDomain, Shutdown, Exit, Crash, Restart, vars
<1>4. CASE Tick
  BY <1>4, TickRows
<1> QED
  BY <1>1, <1>2, <1>3, <1>4 DEF Next

(* The three steps that write check_runs.                                  *)
LEMMA RunsWritten ==
  ASSUME TypeOK, NEW t \in Threads
  PROVE  /\ FindRunning(t) =>
              /\ DOMAIN runs' = DOMAIN runs /\ Len(runs') = Len(runs)
              /\ \A i \in DOMAIN runs :
                   runs'[i].status = IF i \in StaleRows THEN "failed" ELSE runs[i].status
         /\ InsertRun(t) =>
              /\ DOMAIN runs' = 1..(Len(runs) + 1) /\ Len(runs') = Len(runs) + 1
              /\ \A i \in DOMAIN runs :
                   runs'[i].status = IF i \in staged[t] THEN "failed" ELSE runs[i].status
         /\ Complete(t) =>
              /\ DOMAIN runs' = DOMAIN runs /\ Len(runs') = Len(runs)
              /\ \A i \in DOMAIN runs :
                   runs'[i].status = IF i = run[t] THEN "completed" ELSE runs[i].status
<1>a. /\ Len(runs) \in Nat /\ DOMAIN runs = 1..Len(runs)
      /\ \A i \in DOMAIN runs : runs[i] \in Row
  BY LenProperties DEF TypeOK
<1>1. ASSUME FindRunning(t)
      PROVE  /\ DOMAIN runs' = DOMAIN runs /\ Len(runs') = Len(runs)
             /\ \A i \in DOMAIN runs :
                  runs'[i].status = IF i \in StaleRows THEN "failed" ELSE runs[i].status
  BY <1>1, FailedRows DEF FindRunning, TypeOK
<1>2. ASSUME InsertRun(t)
      PROVE  /\ DOMAIN runs' = 1..(Len(runs) + 1) /\ Len(runs') = Len(runs) + 1
             /\ \A i \in DOMAIN runs :
                  runs'[i].status = IF i \in staged[t] THEN "failed" ELSE runs[i].status
  <2> DEFINE new == [status |-> "running", age |-> 0]
  <2>1. /\ runs' = Append(Failed(staged[t]), new)
        /\ Failed(staged[t]) \in Seq(Row) /\ Len(Failed(staged[t])) = Len(runs)
        /\ \A i \in DOMAIN runs :
             Failed(staged[t])[i].status = IF i \in staged[t] THEN "failed" ELSE runs[i].status
    BY <1>2, FailedRows DEF InsertRun, TypeOK
  <2> QED
    BY <2>1, <1>a
<1>3. ASSUME Complete(t)
      PROVE  /\ DOMAIN runs' = DOMAIN runs /\ Len(runs') = Len(runs)
             /\ \A i \in DOMAIN runs :
                  runs'[i].status = IF i = run[t] THEN "completed" ELSE runs[i].status
  <2> DEFINE f == [runs EXCEPT ![run[t]].status = "completed"]
  <2>0. runs' = f
    BY <1>3 DEF Complete
  <2>1. f \in [1..Len(runs) -> [status : Status, age : Nat]]
    <3>1. runs \in [1..Len(runs) -> Row]
      BY LenProperties DEF TypeOK
    <3>2. \A i \in 1..Len(runs) : f[i] \in [status : Status, age : Nat]
      BY <3>1, CheckRunAssumption DEF Row, Status
    <3> QED
      BY <3>1, <3>2
  <2>2. Len(f) = Len(runs)
    BY <2>1, <1>a, FunctionIsSeq
  <2>3. \A i \in DOMAIN runs :
          f[i] = IF i = run[t] THEN [runs[i] EXCEPT !.status = "completed"] ELSE runs[i]
    OBVIOUS
  <2>4. \A i \in DOMAIN runs :
          f[i].status = IF i = run[t] THEN "completed" ELSE runs[i].status
    <3> TAKE i \in DOMAIN runs
    <3>1. [runs[i] EXCEPT !.status = "completed"].status = "completed"
      BY <1>a DEF Row
    <3> QED
      BY <2>3, <3>1
  <2> QED
    BY <2>0, <2>1, <2>2, <2>4
<1> QED
  BY <1>1, <1>2, <1>3

(* A completed row stays so until it is removed, a removed one for good.   *)
StaysCompleted(i) ==
  /\ runs[i].status = "completed" => runs'[i].status \in {"completed", "removed"}
  /\ runs[i].status = "removed" => runs'[i].status = "removed"

(* The clean-up leaves alone the row a check has still to complete. *)
JobRowStays ==
  \A t \in Threads : pc[t] \in Checking =>
    run[t] \in DOMAIN runs /\ runs[run[t]].status # "removed"

LEMMA JobRowStep ==
  ASSUME TypeOK, JobRowStays, [Next]_vars
  PROVE  JobRowStays'
<1> DEFINE Kept(u) == pc'[u] \in Checking => pc[u] \in Checking /\ run'[u] = run[u]
<1>a. Len(runs) \in Nat /\ DOMAIN runs = 1..Len(runs)
  BY LenProperties DEF TypeOK
<1>0. ASSUME DOMAIN runs \subseteq DOMAIN runs',
             \A i \in DOMAIN runs : runs'[i].status = "removed" => runs[i].status = "removed",
             \A u \in Threads : Kept(u)
      PROVE  JobRowStays'
  BY <1>0 DEF JobRowStays
<1>1. ASSUME NEW t \in Threads, InsertRun(t) PROVE JobRowStays'
  <2>1. /\ pc'[t] = "probe" /\ run'[t] = Len(runs) + 1
        /\ \A u \in Threads \ {t} : Kept(u)
    BY <1>1 DEF InsertRun, Goto, TypeOK
  <2>2. /\ runs' = Append(Failed(staged[t]), [status |-> "running", age |-> 0])
        /\ Failed(staged[t]) \in Seq(Row) /\ Len(Failed(staged[t])) = Len(runs)
    BY <1>1, FailedRows DEF InsertRun, TypeOK
  <2>3. Len(runs) + 1 \in DOMAIN runs' /\ runs'[Len(runs) + 1].status = "running"
    BY <2>2, <1>a
  <2>4. \A i \in DOMAIN runs :
          i \in DOMAIN runs' /\ (runs'[i].status = "removed" => runs[i].status = "removed")
    BY <1>1, <1>a, RunsWritten
  <2>5. ASSUME NEW u \in Threads \ {t}, pc'[u] \in Checking
        PROVE  run'[u] \in DOMAIN runs' /\ runs'[run'[u]].status # "removed"
    BY <2>1, <2>4, <2>5 DEF JobRowStays
  <2> QED
    BY <2>1, <2>3, <2>5 DEF JobRowStays
<1>2. ASSUME NEW t \in Threads, Acquire(t) \/ Step(t), ~InsertRun(t) PROVE JobRowStays'
  <2>1. \A u \in Threads : Kept(u)
    <3>1. CASE Leave(t)
      BY <3>1 DEF Leave, TypeOK, Checking
    <3>2. CASE ~Leave(t)
      BY <1>2, <3>2
         DEF Step, Acquire, Refuse, Admit, GuardRaises, ListDomains, NothingToCheck,
             FindRunning, FindNoRunning, SaveDomains, SaveDomainsFails, SaveHistory,
             SaveHistoryFails, SaveLogs, LogsRejected, Complete, Finish, DbError,
             Goto, TypeOK, Checking
    <3> QED
      BY <3>1, <3>2
  <2>2. CASE FindRunning(t) \/ Complete(t)
    BY <1>0, <2>1, <2>2, RunsWritten
  <2>3. CASE ~FindRunning(t) /\ ~Complete(t)
    <3>1. runs' = runs
      BY <1>2, <2>3
         DEF Step, Acquire, Refuse, Admit, GuardRaises, ListDomains, NothingToCheck,
             FindNoRunning, SaveDomains, SaveDomainsFails, SaveHistory, SaveHistoryFails,
             SaveLogs, LogsRejected, Finish, DbError
    <3> QED
      BY <1>0, <2>1, <3>1
  <2> QED
    BY <2>2, <2>3
<1>3. CASE Tick
  <2>1. pc' = pc /\ run' = run
    BY <1>3 DEF Tick
  <2> QED
    BY <1>0, <1>3, <2>1, TickRows DEF SameStatus
<1>4. CASE Cleanup
  <2>1. PICK k \in DOMAIN runs :
          /\ \A t \in Threads : run[t] \notin 1..k
          /\ runs' = [i \in DOMAIN runs |->
                       IF i <= k /\ runs[i].status = "completed"
                       THEN [runs[i] EXCEPT !.status = "removed"] ELSE runs[i]]
    BY <1>4 DEF Cleanup
  <2>2. pc' = pc /\ run' = run
    BY <1>4 DEF Cleanup
  <2>3. ASSUME NEW t \in Threads, pc[t] \in Checking PROVE runs'[run[t]] = runs[run[t]]
    BY <2>1, <2>3, <1>a DEF JobRowStays
  <2> QED
    BY <2>1, <2>2, <2>3 DEF JobRowStays
<1>5. ASSUME NEW w \in Workers, Crash(w) PROVE JobRowStays'
  BY <1>0, <1>5 DEF Crash, Checking
<1>6. CASE \/ \E d \in Domains : DeleteDomain(d)
           \/ \E w \in Workers : Shutdown(w) \/ Exit(w) \/ Restart(w)
           \/ UNCHANGED vars
  BY <1>0, <1>6 DEF DeleteDomain, Shutdown, Exit, Restart, vars
<1> QED
  BY <1>1, <1>2, <1>3, <1>4, <1>5, <1>6 DEF Next

(* StagedInv is an invariant, and a completed row stays completed.         *)
LEMMA StagedRowsStep ==
  ASSUME TypeOK, StagedInv, JobRowStays, [Next]_vars
  PROVE  /\ StagedInv'
         /\ \A i \in DOMAIN runs : StaysCompleted(i)
<1> DEFINE Goal == StagedInv' /\ \A i \in DOMAIN runs : StaysCompleted(i)
<1> USE DEF StaysCompleted
<1>1. ASSUME NEW t \in Threads, FindRunning(t) PROVE Goal
  <2>1. /\ pc[t] = "start" /\ StaleRows \cap LockedRows(t) = {}
        /\ staged' = [staged EXCEPT ![t] = {}] /\ pc' = [pc EXCEPT ![t] = "idle"]
    BY <1>1 DEF FindRunning, Leave
  <2>2. \A u \in Threads : staged'[u] \subseteq staged[u] /\ staged'[u] \cap StaleRows = {}
    BY <2>1 DEF LockedRows, TypeOK
  <2>3. \A u \in Threads : pc'[u] # "insert" => staged'[u] = {}
    BY <2>1 DEF StagedInv, TypeOK
  <2> QED
    BY <1>1, <2>2, <2>3, RunsWritten DEF StagedInv, Running, StaleRows
<1>2. ASSUME NEW t \in Threads, FindNoRunning(t) PROVE Goal
  <2>1. /\ staged' = [staged EXCEPT ![t] = StaleRows] /\ pc' = [pc EXCEPT ![t] = "insert"]
        /\ runs' = runs /\ StaleRows \cap LockedRows(t) = {}
    BY <1>2 DEF FindNoRunning, Goto
  <2>2. \A u \in Threads \ {t} : staged[u] \cap StaleRows = {}
    BY <2>1 DEF LockedRows
  <2> QED
    BY <2>1, <2>2 DEF StagedInv, StaleRows, Running, TypeOK
<1>3. ASSUME NEW t \in Threads, InsertRun(t) PROVE Goal
  <2>1. staged' = [staged EXCEPT ![t] = {}] /\ pc' = [pc EXCEPT ![t] = "probe"]
    BY <1>3 DEF InsertRun, Goto
  <2>2. \A u \in Threads : staged'[u] \subseteq staged[u] /\ staged'[u] \cap staged[t] = {}
    BY <2>1 DEF StagedInv, TypeOK
  <2>3. \A u \in Threads : pc'[u] # "insert" => staged'[u] = {}
    BY <2>1 DEF StagedInv, TypeOK
  <2>4. DOMAIN runs \subseteq DOMAIN runs'
    BY <1>3, RunsWritten, LenProperties DEF TypeOK
  <2> QED
    BY <1>3, <2>2, <2>3, <2>4, RunsWritten DEF StagedInv, Running
<1>4. ASSUME NEW t \in Threads, Complete(t) PROVE Goal
  <2>1. /\ pc[t] = "complete" /\ pc' = [pc EXCEPT ![t] = "snapshot"] /\ staged' = staged
        /\ run[t] \notin LockedRows(t) /\ runs[run[t]].status # "removed"
    BY <1>4 DEF Complete, Goto, JobRowStays, Checking
  <2>2. \A u \in Threads : run[t] \notin staged[u]
    BY <2>1 DEF StagedInv, LockedRows
  <2>3. \A u \in Threads : pc'[u] # "insert" => staged'[u] = {}
    BY <2>1 DEF StagedInv, TypeOK
  <2> QED
    BY <1>4, <2>1, <2>2, <2>3, RunsWritten DEF StagedInv, Running
<1>5. ASSUME SameStatus,
             \A t \in Threads : staged'[t] = {} \/ (staged'[t] = staged[t] /\ pc'[t] = pc[t])
      PROVE  Goal
  BY <1>5, StagedQuiet DEF SameStatus
<1>6. ASSUME NEW t \in Threads, Acquire(t) \/ Step(t),
             ~FindRunning(t), ~FindNoRunning(t), ~InsertRun(t), ~Complete(t)
      PROVE  Goal
  <2>1. runs' = runs
    BY <1>6 DEF Step, Acquire, Refuse, Admit, GuardRaises, ListDomains, NothingToCheck,
                SaveDomains, SaveDomainsFails, SaveHistory, SaveHistoryFails,
                SaveLogs, LogsRejected, Finish, DbError
  <2>2. CASE Leave(t)
    BY <1>5, <2>1, <2>2 DEF Leave, SameStatus, TypeOK
  <2>3. ASSUME NEW from, NEW to, Goto(t, from, to), from # "insert", staged' = staged
        PROVE  Goal
    <3>1. staged[t] = {}
      BY <2>3 DEF Goto, StagedInv
    <3> QED
      BY <1>5, <2>1, <2>3, <3>1 DEF Goto, SameStatus, TypeOK
  <2>4. CASE Refuse(t) \/ NothingToCheck(t) \/ LogsRejected(t) \/ Finish(t) \/ DbError(t)
    BY <2>2, <2>4 DEF Refuse, NothingToCheck, LogsRejected, Finish, DbError
  <2>5. CASE Acquire(t) \/ Admit(t) \/ GuardRaises(t) \/ ListDomains(t)
    BY <2>3, <2>5 DEF Acquire, Admit, GuardRaises, ListDomains
  <2>6. CASE SaveDomains(t) \/ SaveDomainsFails(t) \/ SaveHistory(t)
             \/ SaveHistoryFails(t) \/ SaveLogs(t)
    BY <2>3, <2>6 DEF SaveDomains, SaveDomainsFails, SaveHistory, SaveHistoryFails, SaveLogs
  <2> QED
    BY <1>6, <2>4, <2>5, <2>6 DEF Step
<1>7. CASE Tick
  BY <1>5, <1>7, TickRows DEF Tick
<1>8. ASSUME NEW w \in Workers, Crash(w) PROVE Goal
  BY <1>5, <1>8 DEF Crash, SameStatus
<1>9. CASE \/ \E d \in Domains : DeleteDomain(d)
           \/ \E w \in Workers : Shutdown(w) \/ Exit(w) \/ Restart(w)
           \/ UNCHANGED vars
  BY <1>5, <1>9 DEF DeleteDomain, Shutdown, Exit, Restart, vars, SameStatus
<1>10. CASE Cleanup
  <2>1. Cleaned /\ pc' = pc /\ staged' = staged
    BY <1>10, CleanedRows DEF Cleanup, TypeOK
  <2> QED
    BY <2>1 DEF Cleaned, StagedInv, Running
<1> QED
  BY <1>1, <1>2, <1>3, <1>4, <1>6, <1>7, <1>8, <1>9, <1>10 DEF Next

(* For every number of processes: a run that was completed stays           *)
(* completed until its row is removed, and a removed row does not come     *)
(* back, also when other processes give up stale rows while its own is     *)
(* late.                                                                   *)
THEOREM CompletedStays == Spec => CompletedIsFinal
<1>1. Init => StagedInv /\ JobRowStays
  BY DEF Init, StagedInv, JobRowStays, Checking
<1>2. TypeOK /\ StagedInv /\ JobRowStays /\ [Next]_vars => StagedInv' /\ JobRowStays'
  BY StagedRowsStep, JobRowStep
<1>3. TypeOK /\ StagedInv /\ JobRowStays /\ [Next]_vars =>
        [\A i \in DOMAIN runs :
           /\ runs[i].status = "completed" => runs'[i].status \in {"completed", "removed"}
           /\ runs[i].status = "removed" => runs'[i].status = "removed"]_vars
  BY StagedRowsStep DEF StaysCompleted
<1> QED
  BY <1>1, <1>2, <1>3, TypeCorrect, PTL DEF Spec, CompletedIsFinal

-------------------------------------------------------------------------------
(* The check results of a run, of any number of processes *)

(* Where a thread has a row of check_runs, and before it saved the results. *)
WithRun == {"probe", "history", "logs", "complete", "snapshot"}
Unsaved == {"probe", "history"}

(* What makes the results of a run its own: its row exists, no other thread *)
(* works on it, and what check_results holds of it the thread has put there.*)
OwnedRuns ==
  /\ \A t \in Threads : pc[t] \in WithRun => run[t] \in 1..Len(runs)
  /\ \A t, u \in Threads :
       pc[t] \in WithRun /\ pc[u] \in WithRun /\ run[t] = run[u] => t = u
  /\ \A h \in history : h[1] \in 1..Len(runs)
  /\ \A t \in Threads : pc[t] \in Unsaved => \A d \in Domains : <<run[t], d>> \notin history

(* The id a step gives out is new: those of removed rows do not come back. *)
LEMMA RunsGrow ==
  ASSUME TypeOK, [Next]_vars
  PROVE  /\ Len(runs) \in Nat /\ Len(runs') \in Nat /\ Len(runs) <= Len(runs')
         /\ (\A t \in Threads : ~InsertRun(t)) => Len(runs') = Len(runs)
<1>1. Len(runs) \in Nat
  BY LenProperties DEF TypeOK
<1>2. ASSUME NEW t \in Threads, InsertRun(t) PROVE Len(runs') = Len(runs) + 1
  BY <1>2, RunsWritten
<1>3. ASSUME NEW t \in Threads, FindRunning(t) \/ Complete(t)
      PROVE  Len(runs') = Len(runs)
  BY <1>3, RunsWritten
<1>4. CASE (\A t \in Threads : ~FindRunning(t) /\ ~InsertRun(t) /\ ~Complete(t)) /\ ~Cleanup
  BY <1>1, <1>4, StatusKept
<1>5. CASE Cleanup
  <2>1. Len(runs') = Len(runs)
    BY <1>5, CleanedRows DEF Cleaned, TypeOK
  <2> QED
    BY <1>1, <2>1
<1> QED
  BY <1>1, <1>2, <1>3, <1>4, <1>5

(* A step that leaves check_results and domains alone, after which every   *)
(* thread with a run had it before.                                        *)
LEMMA HistoryQuiet ==
  ASSUME TypeOK, OwnedRuns, HistoryAllOrNothing, [Next]_vars,
         history' = history, domains' = domains,
         \A t \in Threads : pc'[t] \in WithRun =>
           /\ pc[t] \in WithRun /\ run'[t] = run[t] /\ snap'[t] = snap[t]
           /\ pc'[t] \in Unsaved => pc[t] \in Unsaved
  PROVE  OwnedRuns' /\ HistoryAllOrNothing'
<1>1. 1..Len(runs) \subseteq 1..Len(runs')
  BY RunsGrow
<1>2. OwnedRuns'
  BY <1>1 DEF OwnedRuns, WithRun, Unsaved
<1>3. ASSUME NEW t \in Threads, pc'[t] \in {"logs", "complete", "snapshot"}
      PROVE  {d \in Domains : <<run'[t], d>> \in history'} \in {{}, snap'[t] \cap domains'}
  <2>1. pc[t] \in WithRun /\ run'[t] = run[t] /\ snap'[t] = snap[t]
    BY <1>3 DEF WithRun
  <2>2. CASE pc[t] \in Unsaved
    BY <2>1, <2>2 DEF OwnedRuns
  <2>3. CASE pc[t] \notin Unsaved
    BY <2>1, <2>3 DEF HistoryAllOrNothing, WithRun, Unsaved
  <2> QED
    BY <2>2, <2>3
<1> QED
  BY <1>2, <1>3 DEF HistoryAllOrNothing

LEMMA HistoryStep ==
  ASSUME TypeOK, OwnedRuns, HistoryAllOrNothing, [Next]_vars
  PROVE  OwnedRuns' /\ HistoryAllOrNothing'
<1> DEFINE Goal == OwnedRuns' /\ HistoryAllOrNothing'
           Kept(u) == pc'[u] = pc[u] /\ run'[u] = run[u] /\ snap'[u] = snap[u]
<1>a. Len(runs) \in Nat
  BY LenProperties DEF TypeOK
(* The thread goes on, and keeps its run and its list.                     *)
<1>1. ASSUME NEW t \in Threads, NEW from \in Steps, NEW to \in Steps, Goto(t, from, to),
             run' = run, snap' = snap, history' = history, domains' = domains,
             to \in WithRun => from \in WithRun, to \in Unsaved => from \in Unsaved
      PROVE  Goal
  BY <1>1, HistoryQuiet DEF Goto, TypeOK
(* The thread leaves.                                                      *)
<1>2. ASSUME NEW t \in Threads, Leave(t), history' = history, domains' = domains
      PROVE  Goal
  <2>1. pc'[t] = "idle" /\ \A u \in Threads \ {t} : Kept(u)
    BY <1>2 DEF Leave, TypeOK
  <2> QED
    BY <1>2, <2>1, HistoryQuiet DEF WithRun
<1>3. ASSUME NEW t \in Threads, InsertRun(t) PROVE Goal
  <2>1. /\ pc'[t] = "probe" /\ run'[t] = Len(runs) + 1
        /\ \A u \in Threads \ {t} : Kept(u)
        /\ history' = history /\ domains' = domains
    BY <1>3 DEF InsertRun, Goto, TypeOK
  <2>2. Len(runs') = Len(runs) + 1
    BY <1>3, RunsWritten
  <2>3. OwnedRuns'
    BY <1>a, <2>1, <2>2 DEF OwnedRuns, WithRun, Unsaved
  <2>4. HistoryAllOrNothing'
    BY <2>1 DEF HistoryAllOrNothing
  <2> QED
    BY <2>3, <2>4
<1>4. ASSUME NEW t \in Threads, SaveHistory(t) PROVE Goal
  <2>1. /\ pc[t] = "history" /\ pc'[t] = "logs"
        /\ \A u \in Threads \ {t} : Kept(u)
        /\ run' = run /\ snap' = snap /\ domains' = domains /\ runs' = runs
        /\ history' = IF snap[t] \subseteq domains
                      THEN history \cup ({run[t]} \X snap[t]) ELSE history
    BY <1>4 DEF SaveHistory, Goto, TypeOK
  <2>2. \A d \in Domains : <<run[t], d>> \notin history
    BY <2>1 DEF OwnedRuns, Unsaved
  <2>3. \A u \in Threads \ {t} : pc[u] \in WithRun =>
          \A d \in Domains : <<run[u], d>> \in history' <=> <<run[u], d>> \in history
    BY <2>1 DEF OwnedRuns, WithRun
  <2>4. snap[t] \subseteq Domains
    BY DEF TypeOK
  <2>5. OwnedRuns'
    BY <2>1, <2>3, <2>4 DEF OwnedRuns, WithRun, Unsaved
  <2>6. {d \in Domains : <<run'[t], d>> \in history'} \in {{}, snap'[t] \cap domains'}
    BY <2>1, <2>2, <2>4
  <2>7. ASSUME NEW u \in Threads \ {t}, pc'[u] \in {"logs", "complete", "snapshot"}
        PROVE  {d \in Domains : <<run'[u], d>> \in history'} \in {{}, snap'[u] \cap domains'}
    BY <2>1, <2>3, <2>7 DEF HistoryAllOrNothing, WithRun
  <2> QED
    BY <2>5, <2>6, <2>7 DEF HistoryAllOrNothing
<1>5. ASSUME NEW d \in Domains, DeleteDomain(d) PROVE Goal
  <2>1. /\ pc' = pc /\ run' = run /\ snap' = snap /\ runs' = runs
        /\ domains' = domains \ {d} /\ history' = {h \in history : h[2] # d}
    BY <1>5 DEF DeleteDomain
  <2>2. OwnedRuns'
    BY <2>1 DEF OwnedRuns
  <2>3. HistoryAllOrNothing'
    BY <2>1 DEF HistoryAllOrNothing
  <2> QED
    BY <2>2, <2>3
<1>6. ASSUME NEW t \in Threads, Acquire(t) \/ Step(t), ~InsertRun(t), ~SaveHistory(t)
      PROVE  Goal
  <2>1. CASE Refuse(t) \/ NothingToCheck(t) \/ FindRunning(t) \/ LogsRejected(t)
             \/ Finish(t) \/ DbError(t)
    BY <2>1, <1>2 DEF Refuse, NothingToCheck, FindRunning, LogsRejected, Finish, DbError
  <2>2. CASE Acquire(t)
    BY <2>2, <1>1 DEF Acquire, Steps, WithRun, Unsaved
  <2>3. CASE Admit(t)
    BY <2>3, <1>1 DEF Admit, Steps, WithRun, Unsaved
  <2>4. CASE GuardRaises(t)
    BY <2>4, <1>1 DEF GuardRaises, Steps, WithRun, Unsaved
  <2>5. CASE FindNoRunning(t)
    BY <2>5, <1>1 DEF FindNoRunning, Steps, WithRun, Unsaved
  <2>6. CASE ListDomains(t)
    <3>1. pc'[t] = "start" /\ \A u \in Threads \ {t} : Kept(u)
      BY <2>6 DEF ListDomains, Goto, TypeOK
    <3>2. history' = history /\ domains' = domains
      BY <2>6 DEF ListDomains
    <3> QED
      BY <3>1, <3>2, HistoryQuiet DEF WithRun
  <2>7. CASE SaveDomains(t)
    BY <2>7, <1>1 DEF SaveDomains, Steps, WithRun, Unsaved
  <2>8. CASE SaveDomainsFails(t)
    BY <2>8, <1>1 DEF SaveDomainsFails, Steps, WithRun, Unsaved
  <2>9. CASE SaveHistoryFails(t)
    BY <2>9, <1>1 DEF SaveHistoryFails, Steps, WithRun, Unsaved
  <2>10. CASE SaveLogs(t)
    BY <2>10, <1>1 DEF SaveLogs, Steps, WithRun, Unsaved
  <2>11. CASE Complete(t)
    BY <2>11, <1>1 DEF Complete, Steps, WithRun, Unsaved
  <2> QED
    BY <1>6, <2>1, <2>2, <2>3, <2>4, <2>5, <2>6, <2>7, <2>8, <2>9, <2>10, <2>11 DEF Step
<1>7. ASSUME NEW w \in Workers, Crash(w) PROVE Goal
  <2>1. \A u \in Threads : pc'[u] = "idle" \/ Kept(u)
    BY <1>7 DEF Crash
  <2>2. history' = history /\ domains' = domains
    BY <1>7 DEF Crash
  <2> QED
    BY <2>1, <2>2, HistoryQuiet DEF WithRun
<1>8. CASE \/ Tick
           \/ \E w \in Workers : Shutdown(w) \/ Exit(w) \/ Restart(w)
           \/ UNCHANGED vars
  BY <1>8, HistoryQuiet DEF Tick, Shutdown, Exit, Restart, vars
<1>9. CASE Cleanup
  <2>1. PICK k \in DOMAIN runs :
          /\ \A t \in Threads : run[t] \notin 1..k
          /\ history' = {h \in history : h[1] > k}
    BY <1>9 DEF Cleanup
  <2>2. /\ pc' = pc /\ run' = run /\ snap' = snap /\ domains' = domains
        /\ Len(runs') = Len(runs) /\ k \in Nat
    BY <1>9, CleanedRows, LenProperties DEF Cleanup, Cleaned, TypeOK
  <2>3. \A t \in Threads : pc[t] \in WithRun => run[t] > k
    BY <1>a, <2>1, <2>2 DEF OwnedRuns
  <2>4. \A t \in Threads : pc[t] \in WithRun =>
          \A d \in Domains : <<run[t], d>> \in history' <=> <<run[t], d>> \in history
    BY <2>1, <2>3
  <2>5. OwnedRuns'
    BY <2>1, <2>2 DEF OwnedRuns
  <2>6. HistoryAllOrNothing'
    BY <2>2, <2>4 DEF HistoryAllOrNothing, WithRun
  <2> QED
    BY <2>5, <2>6
<1> QED
  BY <1>3, <1>4, <1>5, <1>6, <1>7, <1>8, <1>9 DEF Next

(* For every number of processes: the results of a run are recorded for    *)
(* all the domains it listed that still exist or for none, whatever is     *)
(* deleted or fails in the middle of it.                                   *)
THEOREM HistoryIsWhole == Spec => []HistoryAllOrNothing
<1>1. Init => OwnedRuns /\ HistoryAllOrNothing
  BY DEF Init, OwnedRuns, HistoryAllOrNothing, WithRun, Unsaved
<1>2. TypeOK /\ OwnedRuns /\ HistoryAllOrNothing /\ [Next]_vars
        => OwnedRuns' /\ HistoryAllOrNothing'
  BY HistoryStep
<1> QED
  BY <1>1, <1>2, TypeCorrect, PTL DEF Spec

-------------------------------------------------------------------------------
(* The order of results, of one process *)

(* The run a thread works on is the latest, and no row of the table domains *)
(* carries the results of a later one.                                      *)
LatestInv ==
  /\ \A t \in Threads : pc[t] \in WithRun => run[t] = Len(runs)
  /\ \A d \in Domains : saved[d] <= Len(runs)

(* A step that inserts no row, saves nothing, and gives no thread a run.   *)
LEMMA LatestQuiet ==
  ASSUME LatestInv, Len(runs') = Len(runs), saved' = saved,
         \A t \in Threads : pc'[t] \in WithRun => pc[t] \in WithRun /\ run'[t] = run[t]
  PROVE  LatestInv' /\ \A d \in Domains : saved'[d] = saved[d]
BY DEF LatestInv

LEMMA LatestStep ==
  ASSUME OneProcess, TypeOK, OneInside, LatestInv, [Next]_vars
  PROVE  LatestInv' /\ \A d \in domains' : saved'[d] >= saved[d]
<1> DEFINE Goal == LatestInv' /\ \A d \in domains' : saved'[d] >= saved[d]
           Kept(u) == pc'[u] = pc[u] /\ run'[u] = run[u]
<1>a. /\ Len(runs) \in Nat /\ \A d \in Domains : saved[d] \in Nat
      /\ domains \subseteq Domains
  BY LenProperties DEF TypeOK
<1>0. ASSUME Len(runs') = Len(runs), saved' = saved, domains' = domains,
             \A t \in Threads : pc'[t] \in WithRun => pc[t] \in WithRun /\ run'[t] = run[t]
      PROVE  Goal
  BY <1>0, <1>a, LatestQuiet
<1>1. ASSUME NEW t \in Threads, NEW from \in Steps, NEW to \in Steps, Goto(t, from, to),
             run' = run, saved' = saved, domains' = domains, Len(runs') = Len(runs),
             to \in WithRun => from \in WithRun
      PROVE  Goal
  BY <1>1, <1>0 DEF Goto, TypeOK
<1>2. ASSUME NEW t \in Threads, Leave(t), saved' = saved, domains' = domains,
             Len(runs') = Len(runs)
      PROVE  Goal
  <2>1. pc'[t] = "idle" /\ \A u \in Threads \ {t} : Kept(u)
    BY <1>2 DEF Leave, TypeOK
  <2> QED
    BY <1>2, <1>0, <2>1 DEF WithRun
<1>3. ASSUME NEW t \in Threads, InsertRun(t) PROVE Goal
  <2>1. /\ pc[t] = "insert" /\ pc'[t] = "probe" /\ run'[t] = Len(runs) + 1
        /\ \A u \in Threads \ {t} : Kept(u)
        /\ saved' = saved /\ domains' = domains
    BY <1>3 DEF InsertRun, Goto, TypeOK
  <2>2. Len(runs') = Len(runs) + 1
    BY <1>3, RunsWritten
  <2>3. \A u \in Threads \ {t} : pc[u] = "idle"
    BY <2>1, OnlyThread
  <2>4. LatestInv'
    BY <1>a, <2>1, <2>2, <2>3 DEF LatestInv, WithRun
  <2> QED
    BY <1>a, <2>1, <2>4
<1>4. ASSUME NEW t \in Threads, SaveDomains(t) PROVE Goal
  <2>1. /\ pc[t] = "probe" /\ pc'[t] = "history" /\ run' = run
        /\ \A u \in Threads \ {t} : Kept(u)
        /\ runs' = runs /\ domains' = domains
        /\ saved' = [d \in Domains |-> IF d \in snap[t] \cap domains THEN run[t] ELSE saved[d]]
    BY <1>4 DEF SaveDomains, Goto, TypeOK
  <2>2. run[t] = Len(runs)
    BY <2>1 DEF LatestInv, WithRun
  <2>3. \A d \in Domains : saved'[d] = Len(runs) \/ saved'[d] = saved[d]
    BY <2>1, <2>2
  <2>4. \A d \in Domains : saved[d] <= Len(runs)
    BY DEF LatestInv
  <2>5. LatestInv'
    BY <1>a, <2>1, <2>2, <2>3, <2>4 DEF LatestInv, WithRun
  <2> QED
    BY <1>a, <2>1, <2>3, <2>4, <2>5
<1>5. ASSUME NEW d \in Domains, DeleteDomain(d) PROVE Goal
  <2>1. /\ pc' = pc /\ run' = run /\ runs' = runs /\ domains' = domains \ {d}
        /\ saved' = [saved EXCEPT ![d] = 0]
    BY <1>5 DEF DeleteDomain
  <2>2. saved'[d] = 0 /\ \A e \in Domains \ {d} : saved'[e] = saved[e]
    BY <2>1 DEF TypeOK
  <2>3. LatestInv'
    BY <1>a, <2>1, <2>2 DEF LatestInv
  <2> QED
    BY <1>a, <2>1, <2>2, <2>3
<1>6. ASSUME NEW t \in Threads, Acquire(t) \/ Step(t), ~InsertRun(t), ~SaveDomains(t)
      PROVE  Goal
  <2>0. Len(runs') = Len(runs)
    <3>1. FindRunning(t) => Len(runs') = Len(runs)
      BY RunsWritten
    <3>2. Complete(t) => Len(runs') = Len(runs)
      BY RunsWritten
    <3>3. ~FindRunning(t) /\ ~Complete(t) => runs' = runs
      BY <1>6 DEF Step, Acquire, Refuse, Admit, GuardRaises, ListDomains, NothingToCheck,
                  FindNoRunning, SaveDomainsFails, SaveHistory, SaveHistoryFails,
                  SaveLogs, LogsRejected, Finish, DbError
    <3> QED
      BY <3>1, <3>2, <3>3
  <2>1. CASE Refuse(t) \/ NothingToCheck(t) \/ FindRunning(t) \/ LogsRejected(t)
             \/ Finish(t) \/ DbError(t)
    BY <2>0, <2>1, <1>2 DEF Refuse, NothingToCheck, FindRunning, LogsRejected, Finish, DbError
  <2>2. CASE Acquire(t)
    BY <2>0, <2>2, <1>1 DEF Acquire, Steps, WithRun
  <2>3. CASE Admit(t)
    BY <2>0, <2>3, <1>1 DEF Admit, Steps, WithRun
  <2>4. CASE GuardRaises(t)
    BY <2>0, <2>4, <1>1 DEF GuardRaises, Steps, WithRun
  <2>5. CASE ListDomains(t)
    BY <2>0, <2>5, <1>1 DEF ListDomains, Steps, WithRun
  <2>6. CASE FindNoRunning(t)
    BY <2>0, <2>6, <1>1 DEF FindNoRunning, Steps, WithRun
  <2>7. CASE SaveDomainsFails(t)
    BY <2>0, <2>7, <1>1 DEF SaveDomainsFails, Steps, WithRun
  <2>8. CASE SaveHistory(t)
    BY <2>0, <2>8, <1>1 DEF SaveHistory, Steps, WithRun
  <2>9. CASE SaveHistoryFails(t)
    BY <2>0, <2>9, <1>1 DEF SaveHistoryFails, Steps, WithRun
  <2>10. CASE SaveLogs(t)
    BY <2>0, <2>10, <1>1 DEF SaveLogs, Steps, WithRun
  <2>11. CASE Complete(t)
    BY <2>0, <2>11, <1>1 DEF Complete, Steps, WithRun
  <2> QED
    BY <1>6, <2>1, <2>2, <2>3, <2>4, <2>5, <2>6, <2>7, <2>8, <2>9, <2>10, <2>11 DEF Step
<1>7. CASE Tick
  <2>1. Len(runs') = Len(runs)
    <3>1. \A t \in Threads : ~InsertRun(t)
      BY <1>7 DEF Tick, InsertRun, Goto, TypeOK
    <3> QED
      BY <3>1, RunsGrow
  <2> QED
    BY <1>0, <1>7, <2>1 DEF Tick
<1>8. ASSUME NEW w \in Workers, Crash(w) PROVE Goal
  <2>1. \A u \in Threads : pc'[u] = "idle" \/ Kept(u)
    BY <1>8 DEF Crash
  <2>2. saved' = saved /\ domains' = domains /\ runs' = runs
    BY <1>8 DEF Crash
  <2> QED
    BY <1>0, <2>1, <2>2 DEF WithRun
<1>9. CASE \/ \E w \in Workers : Shutdown(w) \/ Exit(w) \/ Restart(w)
           \/ UNCHANGED vars
  BY <1>0, <1>9 DEF Shutdown, Exit, Restart, vars
<1>10. CASE Cleanup
  <2>1. Len(runs') = Len(runs)
    BY <1>10, CleanedRows DEF Cleaned, TypeOK
  <2> QED
    BY <1>0, <1>10, <2>1 DEF Cleanup
<1> QED
  BY <1>3, <1>4, <1>5, <1>6, <1>7, <1>8, <1>9, <1>10 DEF Next

(* With one process, the results of a run never replace those of a later   *)
(* run on a domain that is still in the table.                             *)
THEOREM NewerStay ==
  ASSUME OneProcess
  PROVE  Spec => NewerResultsStay
<1>1. Init => LatestInv
  BY EmptySeq DEF Init, LatestInv, WithRun
<1>2. TypeOK /\ OneInside /\ LatestInv /\ [Next]_vars => LatestInv'
  BY LatestStep
<1>3. TypeOK /\ OneInside /\ LatestInv /\ [Next]_vars =>
        [\A d \in domains' : saved'[d] >= saved[d]]_vars
  BY LatestStep
<1> QED
  BY <1>1, <1>2, <1>3, TypeCorrect, LockExclusion, PTL DEF Spec, NewerResultsStay

-------------------------------------------------------------------------------
(* Any number of processes implement RunLog *)

(* What RunLog sees of check_runs and of the threads at work. *)
Statuses == [i \in DOMAIN runs |-> runs[i].status]
Jobs == {JobOf(t) : t \in {u \in Threads : pc[u] \in Checking}}

(* Rows whose status is not touched look the same. *)
LEMMA StatusesKept ==
  ASSUME SameStatus, Len(runs') = Len(runs), TypeOK, TypeOK'
  PROVE  Statuses' = Statuses
<1>1. DOMAIN runs = 1..Len(runs) /\ DOMAIN runs' = 1..Len(runs')
  BY LenProperties DEF TypeOK
<1> QED
  BY <1>1 DEF SameStatus, Statuses

(* No two threads have the same job. *)
LEMMA JobsDiffer ==
  ASSUME OwnedRuns, NEW t \in Threads, NEW u \in Threads, t # u,
         pc[t] \in Checking, pc[u] \in Checking
  PROVE  JobOf(t) # JobOf(u)
<1>1. run[t] # run[u]
  BY DEF OwnedRuns, WithRun, Checking
<1> QED
  BY <1>1 DEF JobOf

(* A step after which every job was there before, and nothing else shows,  *)
(* abandons jobs or is a stutter.                                          *)
LEMMA QuietLog ==
  ASSUME Statuses' = Statuses, UNCHANGED <<domains, saved, history>>,
         \A t \in Threads : pc'[t] \in Checking => pc[t] \in Checking /\ JobOf(t)' = JobOf(t)
  PROVE  Log!LNext
<1> DEFINE gone == Jobs \ Jobs'
<1>1. Jobs' \subseteq Jobs
  BY DEF Jobs
<1>2. Jobs' = Jobs \ gone /\ gone \in SUBSET Jobs
  BY <1>1
<1> HIDE DEF gone
<1>3. \E J \in SUBSET Jobs : Log!Abandon(J)
  BY <1>2 DEF Log!Abandon, Statuses, Jobs
<1> QED
  BY <1>3 DEF Log!LNext, Jobs

(* A thread that goes on from one stage of its job to the next.            *)
LEMMA JobAdvances ==
  ASSUME OwnedRuns, NEW t \in Threads, pc[t] \in Checking, pc'[t] \in Checking,
         run'[t] = run[t], snap'[t] = snap[t],
         \A u \in Threads \ {t} : pc'[u] = pc[u] /\ run'[u] = run[u] /\ snap'[u] = snap[u]
  PROVE  /\ JobOf(t) \in Jobs
         /\ Jobs' = (Jobs \ {JobOf(t)}) \cup {Log!Job(run[t], snap[t], NextOf(t)')}
<1>1. \A u \in Threads \ {t} : /\ pc'[u] \in Checking <=> pc[u] \in Checking
                               /\ JobOf(u)' = JobOf(u)
  BY DEF JobOf, NextOf
<1>2. \A u \in Threads \ {t} : pc[u] \in Checking => JobOf(u) # JobOf(t)
  BY JobsDiffer
<1>a. JobOf(t) \in Jobs
  BY DEF Jobs
<1>3. JobOf(t)' = Log!Job(run[t], snap[t], NextOf(t)')
  BY DEF JobOf, Log!Job
<1> QED
  BY <1>1, <1>2, <1>3, <1>a DEF Jobs

(* The rows a step has given up or begun, as RunLog sees them. *)
LEMMA RowsGivenUp ==
  ASSUME TypeOK, NEW S, DOMAIN runs' = DOMAIN runs,
         \A i \in DOMAIN runs : runs'[i].status = IF i \in S THEN "failed" ELSE runs[i].status
  PROVE  Statuses' = [i \in DOMAIN Statuses |-> IF i \in S THEN "failed" ELSE Statuses[i]]
BY DEF Statuses

LEMMA RowBegun ==
  ASSUME TypeOK, NEW t \in Threads, InsertRun(t)
  PROVE  /\ Statuses' = Append([i \in DOMAIN Statuses |->
                                  IF i \in staged[t] THEN "failed" ELSE Statuses[i]], "running")
         /\ Len(Statuses) = Len(runs)
<1> DEFINE n == Len(runs)
           given == [i \in 1..n |-> IF i \in staged[t] THEN "failed" ELSE Statuses[i]]
<1>0. /\ n \in Nat /\ DOMAIN runs = 1..n /\ \A i \in 1..n : runs[i] \in Row
  BY LenProperties DEF TypeOK
<1>1. /\ n \in Nat /\ DOMAIN runs = 1..n /\ \A i \in 1..n : runs[i].status \in Status
  BY <1>0 DEF Row
<1>2. Statuses \in [1..n -> Status] /\ given \in [1..n -> Status]
  BY <1>1 DEF Statuses, Status
<1>3. /\ given \in Seq(Status) /\ Len(given) = n /\ Len(Statuses) = n
  BY <1>1, <1>2, FunctionIsSeq
<1>4. runs'[n + 1].status = "running"
  <2> DEFINE new == [status |-> "running", age |-> 0]
  <2>1. /\ runs' = Append(Failed(staged[t]), new)
        /\ Failed(staged[t]) \in Seq(Row) /\ Len(Failed(staged[t])) = n
    BY FailedRows DEF InsertRun, TypeOK
  <2>2. runs'[n + 1] = new
    BY <1>1, <2>1
  <2> QED
    BY <2>2
<1>5. Statuses' = [i \in 1..(n + 1) |-> runs'[i].status]
  BY RunsWritten DEF Statuses
<1>6. \A i \in 1..n : runs'[i].status = given[i]
  BY <1>1, RunsWritten DEF Statuses
<1>7. Append(given, "running") = [i \in 1..(n + 1) |-> IF i = n + 1 THEN "running" ELSE given[i]]
  BY <1>1, <1>3
<1>8. Statuses' = Append(given, "running")
  BY <1>1, <1>4, <1>5, <1>6, <1>7
<1>9. DOMAIN Statuses = 1..n
  BY <1>2
<1> QED
  BY <1>3, <1>8, <1>9

(* Every step, of any process, is a step of the log or shows nothing. *)
LEMMA LogStep ==
  ASSUME TypeOK, TypeOK', StagedInv, OwnedRuns, [Next]_vars
  PROVE  [Log!LNext]_(Log!lvars)
<1> DEFINE Goal == [Log!LNext]_(Log!lvars)
           Kept(u) == pc'[u] = pc[u] /\ run'[u] = run[u] /\ snap'[u] = snap[u]
<1>0. ASSUME Statuses' = Statuses, UNCHANGED <<domains, saved, history>>,
             \A t \in Threads : pc'[t] \in Checking => pc[t] \in Checking /\ JobOf(t)' = JobOf(t)
      PROVE  Goal
  BY <1>0, QuietLog
<1>1. ASSUME NEW t \in Threads, FindRunning(t) PROVE Goal
  <2>1. /\ pc[t] = "start" /\ pc'[t] = "idle" /\ \A u \in Threads \ {t} : Kept(u)
        /\ UNCHANGED <<domains, saved, history>>
    BY <1>1 DEF FindRunning, Leave, TypeOK
  <2>2. /\ \A u \in Threads : pc'[u] \in Checking <=> pc[u] \in Checking
        /\ \A u \in Threads : pc[u] \in Checking => JobOf(u)' = JobOf(u)
    BY <2>1 DEF Checking, JobOf, NextOf
  <2>3. Jobs' = Jobs
    BY <2>2 DEF Jobs
  <2>4. /\ StaleRows \in SUBSET DOMAIN Statuses
        /\ \A i \in StaleRows : i \in DOMAIN Statuses /\ Statuses[i] = "running"
    BY DEF StaleRows, Running, Statuses
  <2>5. Statuses' = [i \in DOMAIN Statuses |->
                       IF i \in StaleRows THEN "failed" ELSE Statuses[i]]
    BY <1>1, RunsWritten, RowsGivenUp
  <2>6. \E S \in SUBSET DOMAIN Statuses : Log!GiveUp(S)
    BY <2>1, <2>3, <2>4, <2>5 DEF Log!GiveUp, Log!IsRunning, Log!GivenUp, Statuses, Jobs
  <2> QED
    BY <2>6 DEF Log!LNext, Statuses
<1>2. ASSUME NEW t \in Threads, InsertRun(t) PROVE Goal
  <2>1. /\ pc[t] = "insert" /\ pc'[t] = "probe" /\ run'[t] = Len(runs) + 1
        /\ \A u \in Threads \ {t} : Kept(u)
        /\ snap' = snap /\ snap[t] \in SUBSET Domains /\ UNCHANGED <<domains, saved, history>>
    BY <1>2 DEF InsertRun, Goto, TypeOK
  <2>2. /\ \A u \in Threads \ {t} : pc'[u] \in Checking <=> pc[u] \in Checking
        /\ \A u \in Threads \ {t} : JobOf(u)' = JobOf(u)
    BY <2>1 DEF JobOf, NextOf
  <2>3. JobOf(t)' = Log!Job(Len(Statuses) + 1, snap[t], "publish")
    BY <1>2, <2>1, RowBegun DEF JobOf, NextOf, Log!Job
  <2>4. Jobs' = Jobs \cup {Log!Job(Len(Statuses) + 1, snap[t], "publish")}
    BY <2>1, <2>2, <2>3 DEF Jobs, Checking
  <2>5. /\ staged[t] \in SUBSET DOMAIN Statuses
        /\ \A i \in staged[t] : i \in DOMAIN Statuses /\ Statuses[i] = "running"
    BY DEF StagedInv, Running, Statuses
  <2>6. \E S \in SUBSET DOMAIN Statuses, list \in SUBSET Domains : Log!Begin(S, list)
    <3>1. Log!Begin(staged[t], snap[t])
      BY <1>2, <2>1, <2>4, <2>5, RowBegun
         DEF Log!Begin, Log!IsRunning, Log!GivenUp, Statuses, Jobs
    <3> QED
      BY <2>1, <2>5, <3>1 DEF Log!Begin
  <2> QED
    BY <2>6 DEF Log!LNext, Statuses
<1>3. ASSUME NEW t \in Threads, SaveDomains(t) \/ SaveDomainsFails(t) PROVE Goal
  <2> DEFINE j == JobOf(t)
  <2>1. /\ pc[t] = "probe" /\ pc'[t] = "history" /\ run'[t] = run[t] /\ snap'[t] = snap[t]
        /\ \A u \in Threads \ {t} : Kept(u)
        /\ runs' = runs /\ domains' = domains /\ history' = history
        /\ \/ saved' = [d \in Domains |-> IF d \in snap[t] \cap domains THEN run[t] ELSE saved[d]]
           \/ saved' = saved
    BY <1>3 DEF SaveDomains, SaveDomainsFails, Goto, TypeOK
  <2>2. j \in Jobs /\ Jobs' = (Jobs \ {j}) \cup {Log!Job(run[t], snap[t], "record")}
    BY <2>1, JobAdvances DEF Checking, NextOf
  <2>3. j.next = "publish" /\ j.run = run[t] /\ j.list = snap[t]
    BY <2>1 DEF JobOf, NextOf
  <2>4. \E k \in Jobs : Log!Publish(k)
    <3>1. Log!Publish(j)
      BY <2>1, <2>2, <2>3 DEF Log!Publish, Log!Advance, Statuses, Jobs
    <3> QED
      BY <2>2, <3>1 DEF Log!Publish
  <2> QED
    BY <2>4 DEF Log!LNext, Jobs
<1>4. ASSUME NEW t \in Threads, SaveHistory(t) \/ SaveHistoryFails(t) PROVE Goal
  <2> DEFINE j == JobOf(t)
  <2>1. /\ pc[t] = "history" /\ pc'[t] = "logs" /\ run'[t] = run[t] /\ snap'[t] = snap[t]
        /\ \A u \in Threads \ {t} : Kept(u)
        /\ runs' = runs /\ domains' = domains /\ saved' = saved
        /\ \/ snap[t] \subseteq domains /\ history' = history \cup ({run[t]} \X snap[t])
           \/ history' = history
    BY <1>4 DEF SaveHistory, SaveHistoryFails, Goto, TypeOK
  <2>2. j \in Jobs /\ Jobs' = (Jobs \ {j}) \cup {Log!Job(run[t], snap[t], "close")}
    BY <2>1, JobAdvances DEF Checking, NextOf
  <2>3. j.next = "record" /\ j.run = run[t] /\ j.list = snap[t]
    BY <2>1 DEF JobOf, NextOf
  <2>4. \E k \in Jobs : Log!Record(k)
    <3>1. Log!Record(j)
      BY <2>1, <2>2, <2>3 DEF Log!Record, Log!Advance, Statuses, Jobs
    <3> QED
      BY <2>2, <3>1 DEF Log!Record
  <2> QED
    BY <2>4 DEF Log!LNext, Jobs
<1>5. ASSUME NEW t \in Threads, Complete(t) PROVE Goal
  <2> DEFINE j == JobOf(t)
  <2>1. /\ pc[t] = "complete" /\ pc'[t] = "snapshot"
        /\ \A u \in Threads \ {t} : Kept(u)
        /\ UNCHANGED <<domains, saved, history>>
    BY <1>5 DEF Complete, Goto, TypeOK
  <2>2. j.next = "close" /\ j.run = run[t]
    BY <2>1 DEF JobOf, NextOf
  <2>3. /\ \A u \in Threads \ {t} : /\ pc'[u] \in Checking <=> pc[u] \in Checking
                                    /\ JobOf(u)' = JobOf(u)
        /\ \A u \in Threads \ {t} : pc[u] \in Checking => JobOf(u) # j
    BY <2>1, JobsDiffer DEF JobOf, NextOf, Checking
  <2>4. j \in Jobs /\ Jobs' = Jobs \ {j}
    BY <2>1, <2>3 DEF Jobs, Checking
  <2>5. Statuses' = [Statuses EXCEPT ![run[t]] = "completed"]
    BY <1>5, RunsWritten DEF Statuses
  <2>6. \E k \in Jobs : Log!Close(k)
    <3>1. Log!Close(j)
      BY <2>1, <2>2, <2>4, <2>5 DEF Log!Close, Statuses, Jobs
    <3> QED
      BY <2>4, <3>1 DEF Log!Close
  <2> QED
    BY <2>6 DEF Log!LNext, Jobs
<1>6. ASSUME NEW t \in Threads, Leave(t), UNCHANGED <<runs, domains, saved, history>> PROVE Goal
  <2>1. pc'[t] = "idle" /\ \A u \in Threads \ {t} : Kept(u)
    BY <1>6 DEF Leave, TypeOK
  <2> QED
    BY <1>0, <1>6, <2>1 DEF Statuses, Checking, JobOf, NextOf
<1>7. ASSUME NEW t \in Threads, NEW from, NEW to, Goto(t, from, to),
             UNCHANGED <<run, runs, domains, saved, history>>,
             \/ to \notin Checking
             \/ from = "logs" /\ to = "complete" /\ snap' = snap,
             \A u \in Threads \ {t} : snap'[u] = snap[u]
      PROVE  Goal
  <2>1. pc'[t] = to /\ pc[t] = from /\ \A u \in Threads \ {t} : Kept(u)
    BY <1>7 DEF Goto, TypeOK
  <2> QED
    BY <1>0, <1>7, <2>1 DEF Statuses, Checking, JobOf, NextOf
<1>8. ASSUME NEW t \in Threads, Acquire(t) \/ Step(t), ~FindRunning(t), ~InsertRun(t),
             ~SaveDomains(t), ~SaveDomainsFails(t), ~SaveHistory(t), ~SaveHistoryFails(t),
             ~Complete(t)
      PROVE  Goal
  <2>1. CASE Refuse(t) \/ NothingToCheck(t) \/ LogsRejected(t) \/ Finish(t) \/ DbError(t)
    BY <2>1, <1>6 DEF Refuse, NothingToCheck, LogsRejected, Finish, DbError
  <2>2. CASE Acquire(t)
    BY <2>2, <1>7 DEF Acquire, Checking
  <2>3. CASE Admit(t) \/ GuardRaises(t)
    BY <2>3, <1>7 DEF Admit, GuardRaises, Checking
  <2>4. CASE ListDomains(t)
    <3>1. \A u \in Threads \ {t} : snap'[u] = snap[u]
      BY <2>4 DEF ListDomains, TypeOK
    <3> QED
      BY <2>4, <3>1, <1>7 DEF ListDomains, Checking
  <2>5. CASE FindNoRunning(t)
    BY <2>5, <1>7 DEF FindNoRunning, Checking
  <2>6. CASE SaveLogs(t)
    BY <2>6, <1>7 DEF SaveLogs
  <2> QED
    BY <1>8, <2>1, <2>2, <2>3, <2>4, <2>5, <2>6 DEF Step
<1>9. ASSUME NEW d \in Domains, DeleteDomain(d) PROVE Goal
  <2>1. /\ UNCHANGED <<pc, run, snap, runs>> /\ domains' = domains \ {d}
        /\ history' = {h \in history : h[2] # d} /\ saved' = [saved EXCEPT ![d] = 0]
    BY <1>9 DEF DeleteDomain
  <2>2. Jobs' = Jobs /\ Statuses' = Statuses
    BY <2>1 DEF Jobs, JobOf, NextOf, Statuses
  <2>3. \E e \in Domains : Log!Remove(e)
    BY <2>1, <2>2 DEF Log!Remove, Jobs, Statuses
  <2> QED
    BY <2>3 DEF Log!LNext
<1>10. ASSUME Tick PROVE Goal
  <2>1. UNCHANGED <<pc, run, snap, domains, saved, history>>
    BY <1>10 DEF Tick
  <2>2. Statuses' = Statuses
    BY <1>10, TickRows, StatusesKept
  <2> QED
    BY <1>0, <2>1, <2>2 DEF JobOf, NextOf
<1>11. ASSUME NEW w \in Workers, Crash(w) PROVE Goal
  <2>1. \A u \in Threads : pc'[u] = "idle" \/ Kept(u)
    BY <1>11 DEF Crash
  <2>2. UNCHANGED <<runs, domains, saved, history>>
    BY <1>11 DEF Crash
  <2> QED
    BY <1>0, <2>1, <2>2 DEF Statuses, Checking, JobOf, NextOf
<1>12. CASE \/ \E w \in Workers : Shutdown(w) \/ Exit(w) \/ Restart(w)
            \/ UNCHANGED vars
  <2>1. UNCHANGED <<pc, run, snap, runs, domains, saved, history>>
    BY <1>12 DEF Shutdown, Exit, Restart, vars
  <2> QED
    BY <1>0, <2>1 DEF Statuses, JobOf, NextOf
<1>13. CASE Cleanup
  <2>1. PICK k \in DOMAIN runs :
          /\ \A t \in Threads : run[t] \notin 1..k
          /\ runs' = [i \in DOMAIN runs |->
                       IF i <= k /\ runs[i].status = "completed"
                       THEN [runs[i] EXCEPT !.status = "removed"] ELSE runs[i]]
          /\ history' = {h \in history : h[1] > k}
    BY <1>13 DEF Cleanup
  <2>2. UNCHANGED <<pc, run, snap, domains, saved>>
    BY <1>13 DEF Cleanup
  <2>3. Len(runs) \in Nat /\ DOMAIN runs = 1..Len(runs) /\ \A i \in DOMAIN runs : runs[i] \in Row
    BY LenProperties DEF TypeOK
  <2>4. Jobs' = Jobs
    BY <2>2 DEF Jobs, JobOf, NextOf
  <2>5. \A j \in Jobs : j.run > k
    <3>1. ASSUME NEW t \in Threads, pc[t] \in Checking PROVE run[t] > k
      BY <2>1, <2>3, <3>1 DEF OwnedRuns, WithRun, Checking
    <3> QED
      BY <3>1 DEF Jobs, JobOf
  <2>6. \A i \in DOMAIN runs : [runs[i] EXCEPT !.status = "removed"].status = "removed"
    BY <2>3 DEF Row
  <2>7. Statuses' = [i \in DOMAIN Statuses |->
                       IF i <= k /\ Statuses[i] = "completed" THEN "removed" ELSE Statuses[i]]
    BY <2>1, <2>6 DEF Statuses
  <2>8. k \in DOMAIN Statuses
    BY DEF Statuses
  <2>9. Log!Expire(k)
    BY <2>1, <2>2, <2>4, <2>5, <2>7 DEF Log!Expire, Statuses, Jobs
  <2> QED
    BY <2>8, <2>9 DEF Log!LNext, Statuses
<1> QED
  BY <1>1, <1>2, <1>3, <1>4, <1>5, <1>8, <1>9, <1>10, <1>11, <1>12, <1>13 DEF Next

(* For every number of processes, whatever crashes, raises or is given up  *)
(* as stale while it is still at work: check_runs, check_results and       *)
(* domains show what RunLog promises.  Every check has a row of its own,   *)
(* records its whole list or nothing, once and before it is closed, and    *)
(* closes no other's row; no row comes back to 'running', and only rows    *)
(* long completed are removed.                                             *)
THEOREM LogRefinement == Spec => ImplementsLog
<1>1. Init => Log!LInit
  <2> SUFFICES ASSUME Init PROVE Log!LInit
    OBVIOUS
  <2>1. Statuses = <<>>
    <3>1. runs = <<>> /\ DOMAIN runs = {}
      BY EmptySeq DEF Init
    <3> QED
      BY <3>1 DEF Statuses
  <2>2. Jobs = {}
    BY DEF Init, Jobs, Checking
  <2> QED
    BY <2>1, <2>2 DEF Init, Log!LInit, Statuses, Jobs
<1>2. Init => StagedInv /\ JobRowStays /\ OwnedRuns /\ HistoryAllOrNothing
  BY DEF Init, StagedInv, JobRowStays, OwnedRuns, HistoryAllOrNothing, WithRun, Unsaved,
         Checking
<1>3. TypeOK /\ StagedInv /\ JobRowStays /\ [Next]_vars => StagedInv' /\ JobRowStays'
  BY StagedRowsStep, JobRowStep
<1>4. TypeOK /\ OwnedRuns /\ HistoryAllOrNothing /\ [Next]_vars
        => OwnedRuns' /\ HistoryAllOrNothing'
  BY HistoryStep
<1>5. TypeOK /\ TypeOK' /\ StagedInv /\ OwnedRuns /\ [Next]_vars => [Log!LNext]_(Log!lvars)
  BY LogStep
<1> QED
  BY <1>1, <1>2, <1>3, <1>4, <1>5, TypeCorrect, PTL DEF Spec, ImplementsLog, Log!LSpec
===============================================================================
