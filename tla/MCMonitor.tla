------------------------------ MODULE MCMonitor ------------------------------
(* Monitor for TLC: the constants are given by each .cfg.  A run with      *)
(* several checkers, several targets and faults at once is too large, so   *)
(* OneOrSeveral keeps to two sides of it: checks of one web app that       *)
(* overlap, with faults, and lists of two targets, one after the other,    *)
(* without faults.                                                         *)
EXTENDS Monitor, TLC

CONSTANT Shared \* the web app that checks overlap about

Symmetry == Permutations(WebApps)
CheckerSymmetry == Permutations(Checkers)

Untouched(t) == t \in rows /\ t \notin muted /\ checks[t] = 0 /\ \A c \in Checkers : ~InHand(c, t)

Overlapping == \A t \in Targets \ {Shared} : Untouched(t)

OneByOne ==
  /\ Cardinality({c \in Checkers : pc[c] # "idle"}) <= 1
  /\ overlapped = {} /\ restarted = {}
  /\ Cardinality({t \in Targets : ~Untouched(t)}) <= 2
  /\ failures = 0 /\ crashes = 0

OneOrSeveral == Overlapping \/ OneByOne

OneOrSeveralSpec == Init /\ [][Next /\ OneOrSeveral']_vars
==============================================================================
