----------------------------- MODULE RunRegister -----------------------------
(***************************************************************************)
(* What the check-run guard promises, without threads, locks, processes or *)
(* SQL: check runs are numbered 1, 2, 3, ...; at most one of them is open; *)
(* a run is opened only when no run is open, or when the open one has been *)
(* open for longer than Stale and is thereby given up; and the only run    *)
(* that can be closed is the open one.                                     *)
(***************************************************************************)
EXTENDS Naturals

CONSTANT Stale  \* STALE_RUN_SECONDS, in clock ticks

VARIABLES
  last,  \* number of runs opened so far, which is the id of the latest run
  open,  \* the id of the open run, 0 when there is none
  age    \* ticks since the open run was opened, at most Stale + 1; 0 if none

rvars == <<last, open, age>>

RInit == last = 0 /\ open = 0 /\ age = 0

(* A run is opened; a stale one is given up by the same step. *)
Open ==
  /\ open = 0 \/ age > Stale
  /\ last' = last + 1
  /\ open' = last + 1
  /\ age' = 0

(* The open run is closed. *)
Close ==
  /\ open # 0
  /\ open' = 0
  /\ age' = 0
  /\ UNCHANGED last

(* Time passes while a run is open. *)
GrowOld ==
  /\ open # 0
  /\ age <= Stale
  /\ age' = age + 1
  /\ UNCHANGED <<last, open>>

RNext == Open \/ Close \/ GrowOld

RSpec == RInit /\ [][RNext]_rvars
==============================================================================
