---------------------------- MODULE Monitor_proofs ----------------------------
(***************************************************************************)
(* Proofs about Monitor, for any number of checkers that overlap in any    *)
(* way, any number of targets and any bounds.                              *)
(***************************************************************************)
EXTENDS Monitor, FiniteSetTheorems, TLAPS

(* The three clauses of RowConsistent, of one row. *)
Consistent(r) ==
  /\ r.uptime = 0 \/ r.downtime = 0
  /\ r.uptime <= r.successful
  /\ r.successful <= r.total

(* No result of a probe takes a row out of its type. *)
LEMMA ResultsAreRows ==
  ASSUME NEW t \in Targets, NEW old \in Row, NEW new \in Results(t, old)
  PROVE  new \in Row /\ new.status \in Found
<1>1. CASE t \notin WebApps
  BY <1>1 DEF Results, Uncounted, Row, Status, Found, Up
<1>2. CASE t \in WebApps
  <2>1. CASE \E s \in Found : new = Counted(old, s)
    <3> PICK s \in Found : new = Counted(old, s)
      BY <2>1
    <3> QED
      BY DEF Counted, Row, Status, Found, Up
  <2>2. CASE new = Blocked(old)
    BY <2>2 DEF Blocked, Row, Status, Found
  <2>3. CASE new = Raised
    BY <2>3 DEF Raised, NewRow, Row, Status, Found, Up
  <2> QED
    BY <1>2, <2>1, <2>2, <2>3 DEF Results
<1> QED
  BY <1>1, <1>2

(* Counting on from a consistent row gives a consistent row. *)
LEMMA ResultsAreConsistent ==
  ASSUME NEW t \in Targets, NEW old \in Row, Consistent(old), NEW new \in Results(t, old)
  PROVE  Consistent(new)
<1>1. CASE t \notin WebApps
  BY <1>1 DEF Results, Uncounted, Consistent
<1>2. CASE t \in WebApps
  <2>1. CASE \E s \in Found : new = Counted(old, s)
    <3> PICK s \in Found : new = Counted(old, s)
      BY <2>1
    <3> QED
      BY DEF Counted, Row, Consistent
  <2>2. CASE new = Blocked(old)
    BY <2>2 DEF Blocked, Row, Consistent
  <2>3. CASE new = Raised
    BY <2>3 DEF Raised, NewRow, Consistent
  <2> QED
    BY <1>2, <2>1, <2>2, <2>3 DEF Results
<1> QED
  BY <1>1, <1>2

(* A result counts at most one check more than the row it started from,    *)
(* and a successful one only if it found the target up.                    *)
LEMMA ResultsCountOne ==
  ASSUME NEW t \in Targets, NEW old \in Row, NEW new \in Results(t, old)
  PROVE  /\ new.total <= old.total + 1
         /\ new.successful <= old.successful + (IF new.status = "up" THEN 1 ELSE 0)
<1>1. CASE t \notin WebApps
  BY <1>1 DEF Results, Uncounted, Row
<1>2. CASE t \in WebApps
  <2>1. CASE \E s \in Found : new = Counted(old, s)
    <3> PICK s \in Found : new = Counted(old, s)
      BY <2>1
    <3> QED
      BY DEF Counted, Row
  <2>2. CASE new = Blocked(old)
    BY <2>2 DEF Blocked, Row
  <2>3. CASE new = Raised
    BY <2>3 DEF Raised, NewRow, Row
  <2> QED
    BY <1>2, <2>1, <2>2, <2>3 DEF Results
<1> QED
  BY <1>1, <1>2

(* Writing a row keeps the types of the table and of the counts. *)
LEMMA WriteTyped ==
  ASSUME TypeOK, NEW t \in Targets, NEW new \in Row, Write(t, new)
  PROVE  /\ row' \in [Targets -> Row]
         /\ checks' \in [Targets -> Nat]
         /\ good' \in [Targets -> Nat]
         /\ restarted' \subseteq Targets
         /\ owed' \in [Targets -> {"none", "up", "down", "lost"}]
         /\ unposted' \in [Targets -> {"none", "up", "down"}]
<1>1. CASE t \in rows
  <2>1. row' \in [Targets -> Row]
    BY <1>1 DEF Write, TypeOK
  <2>2. checks' \in [Targets -> Nat]
    BY <1>1 DEF Write, TypeOK
  <2>3. good' \in [Targets -> Nat]
    BY <1>1 DEF Write, TypeOK
  <2>4. owed' \in [Targets -> {"none", "up", "down", "lost"}]
    BY <1>1 DEF Write, Due, TypeOK
  <2>6. unposted' \in [Targets -> {"none", "up", "down"}]
    BY <1>1 DEF Write, Due, TypeOK
  <2>5. restarted' \subseteq Targets
    BY <1>1 DEF Write, TypeOK
  <2> QED
    BY <2>1, <2>2, <2>3, <2>4, <2>5, <2>6
<1>2. CASE t \notin rows
  BY <1>2 DEF Write, TypeOK
<1> QED
  BY <1>1, <1>2

(* A post to a webhook is told of, or noted as a repeat. *)
LEMMA PostTyped ==
  ASSUME TypeOK, NEW t \in Targets, NEW s \in {"up", "down"}, Post(t, s) \/ UNCHANGED posts
  PROVE  /\ unposted' \in [Targets -> {"none", "up", "down"}]
         /\ repeats' \subseteq Targets \X {"up", "down"}
BY DEF Post, posts, TypeOK

(* The checks that miss their row in webapp_results can be counted. *)
LEMMA UnrecordedCounts ==
  ASSUME NEW t
  PROVE  IsFiniteSet(Unrecorded(t)) /\ Cardinality(Unrecorded(t)) \in Nat
<1>1. Unrecorded(t) \subseteq Checkers /\ IsFiniteSet(Checkers)
  BY MonitorAssumption DEF Unrecorded
<1> QED
  BY <1>1, FS_Subset, FS_CardinalityType

(* A checker past the first save is at a target. *)
AtTarget ==
  \A c \in Checkers :
    pc[c] \in {"history", "alert", "mail", "webhooks"} => cur[c] \in Targets

TypeInv == TypeOK /\ AtTarget

(* Types hold at first. *)
LEMMA TypeInit == Init => TypeInv
<1>1. NewRow \in Row
  BY DEF NewRow, Row, Status
<1> QED
  BY <1>1 DEF Init, TypeInv, TypeOK, AtTarget, Status

(* Every step of every checker keeps them. *)
LEMMA TypeStep == TypeInv /\ [Next]_vars => TypeInv'
<1> SUFFICES ASSUME TypeInv, [Next]_vars PROVE TypeInv'
  OBVIOUS
<1> USE DEF TypeInv
<1>0. NewRow \in Row
  BY DEF NewRow, Row, Status
<1>1. ASSUME NEW c \in Checkers, NEW S \in SUBSET Targets, List(c, S) PROVE TypeInv'
  BY <1>0, <1>1 DEF List, table, ghost, counts, posts, TypeOK, AtTarget
<1>2. ASSUME NEW c \in Checkers, NEW t \in Targets, Save(c, t) PROVE TypeInv'
  <2> PICK new \in Results(t, snap[c][t]) :
        Write(t, new) /\ found' = [found EXCEPT ![c] = new.status]
    BY <1>2 DEF Save
  <2>1. snap[c][t] \in Row
    BY DEF TypeOK
  <2>2. new \in Row /\ new.status \in Status
    BY <2>1, ResultsAreRows DEF Status
  <2>3. /\ row' \in [Targets -> Row] /\ checks' \in [Targets -> Nat]
        /\ good' \in [Targets -> Nat] /\ restarted' \subseteq Targets
        /\ owed' \in [Targets -> {"none", "up", "down", "lost"}]
        /\ unposted' \in [Targets -> {"none", "up", "down"}]
    BY <2>2, WriteTyped
  <2>4. TypeOK'
    BY <1>2, <2>2, <2>3 DEF Save, TypeOK
  <2>5. AtTarget'
    BY <1>2 DEF Save, TypeOK, AtTarget
  <2> QED
    BY <2>4, <2>5
<1>3. ASSUME NEW c \in Checkers, SaveResult(c) PROVE TypeInv'
  BY <1>3 DEF SaveResult, ghost, counts, posts, TypeOK, AtTarget
<1>4. ASSUME NEW c \in Checkers, Leave(c), UNCHANGED <<table, ghost, failures, crashes>>
      PROVE TypeInv'
  BY <1>0, <1>4 DEF Leave, table, ghost, counts, posts, Status, TypeOK, AtTarget
<1>5. ASSUME NEW c \in Checkers, NoAlert(c) PROVE TypeInv'
  BY <1>5 DEF NoAlert, Settle, Continue, table, counts, posts, Status, TypeOK, AtTarget
<1>6. ASSUME NEW c \in Checkers, Alert(c) PROVE TypeInv'
  BY <1>6 DEF Alert, table, ghost, counts, posts, TypeOK, AtTarget
<1>7. ASSUME NEW c \in Checkers, SendAlerts(c) PROVE TypeInv'
  <2>1. cur[c] \in Targets /\ Class(found[c]) \in {"up", "down"}
    BY <1>7 DEF SendAlerts, AtTarget, Class
  <2>2. owed' \in [Targets -> {"none", "up", "down", "lost"}]
    BY <1>7, <2>1 DEF SendAlerts, Settle, TypeOK
  <2>3. unfounded' \subseteq Targets \X {"up", "down"}
    BY <1>7, <2>1 DEF SendAlerts, TypeOK
  <2>6. /\ unposted' \in [Targets -> {"none", "up", "down"}]
        /\ repeats' \subseteq Targets \X {"up", "down"} /\ failures' \in Nat
    <3>1. TryPost(cur[c], Class(found[c]))
      BY <1>7 DEF SendAlerts
    <3> QED
      BY <2>1, <3>1, PostTyped DEF TryPost, TypeOK
  <2>4. TypeOK'
    BY <1>7, <2>2, <2>3, <2>6 DEF SendAlerts, table, counts, TypeOK
  <2>5. AtTarget'
    BY <1>7 DEF SendAlerts, TypeOK, AtTarget
  <2> QED
    BY <2>4, <2>5
<1>8. ASSUME NEW c \in Checkers, AlertsFail(c) PROVE TypeInv'
  <2>1. cur[c] \in Targets /\ Class(found[c]) \in {"up", "down"}
    BY <1>8 DEF AlertsFail, AtTarget, Class
  <2>2. /\ unposted' \in [Targets -> {"none", "up", "down"}]
        /\ repeats' \subseteq Targets \X {"up", "down"}
    BY <1>8, <2>1, PostTyped DEF AlertsFail
  <2>3. TypeOK'
    <3>1. owed' \in [Targets -> {"none", "up", "down", "lost"}]
      BY <1>8 DEF AlertsFail, TypeOK
    <3>2. failures' \in Nat /\ pc' \in [Checkers -> {"idle", "save", "history", "alert", "mail", "webhooks"}]
      BY <1>8 DEF AlertsFail, TypeOK
    <3> QED
      BY <1>8, <2>2, <3>1, <3>2 DEF AlertsFail, table, counts, TypeOK
  <2>4. AtTarget'
    BY <1>8 DEF AlertsFail, TypeOK, AtTarget
  <2> QED
    BY <2>3, <2>4
<1>9. ASSUME NEW c \in Checkers, SendWebhooks(c) PROVE TypeInv'
  <2>1. cur[c] \in Targets /\ Class(found[c]) \in {"up", "down"}
    BY <1>9 DEF SendWebhooks, AtTarget, Class
  <2>2. /\ unposted' \in [Targets -> {"none", "up", "down"}]
        /\ repeats' \subseteq Targets \X {"up", "down"} /\ failures' \in Nat
    <3>1. TryPost(cur[c], Class(found[c]))
      BY <1>9 DEF SendWebhooks
    <3> QED
      BY <2>1, <3>1, PostTyped DEF TryPost, TypeOK
  <2> QED
    BY <1>9, <2>2 DEF SendWebhooks, Continue, table, counts, Status, TypeOK, AtTarget
<1>10. ASSUME NEW t \in Targets, Delete(t) \/ Window(t) PROVE TypeInv'
  BY <1>10 DEF Delete, Window, local, ghost, counts, posts, TypeOK, AtTarget
<1>11. CASE Crash
  <2>1. dropped' \in [Targets -> Nat]
    <3>1. \A t \in Targets : Cardinality(Unrecorded(t)) \in Nat
      BY UnrecordedCounts
    <3> QED
      BY <1>11, <3>1 DEF Crash, TypeOK
  <2>2. owed' \in [Targets -> {"none", "up", "down", "lost"}]
    BY <1>11 DEF Crash, TypeOK
  <2>3. TypeOK'
    BY <1>0, <1>11, <2>1, <2>2 DEF Crash, table, posts, Status, TypeOK
  <2>4. AtTarget'
    BY <1>11 DEF Crash, AtTarget
  <2> QED
    BY <2>3, <2>4
<1>12. CASE UNCHANGED vars
  BY <1>12 DEF vars, table, local, ghost, counts, posts, TypeOK, AtTarget
<1> QED
  BY <1>1, <1>2, <1>3, <1>4, <1>5, <1>6, <1>7, <1>8, <1>9, <1>10, <1>11, <1>12
     DEF Next, Check, ResultRejected, Done

(* Type correctness, however checks overlap and wherever they end. *)
THEOREM TypeCorrect == Spec => []TypeOK
<1>1. TypeInv => TypeOK
  BY DEF TypeInv
<1> QED
  BY TypeInit, TypeStep, <1>1, PTL DEF Spec

-------------------------------------------------------------------------------
(* What steps do to the rows and to the rows checkers hold *)

(* A checker's row stems from the table, also the one it holds in snap. *)
AllConsistent ==
  /\ \A t \in Targets : Consistent(row[t])
  /\ \A c \in Checkers, t \in Targets : Consistent(snap[c][t])

(* The counts behind a row, or behind the copy of one, were all made. *)
AllCounted ==
  /\ \A t \in Targets : row[t].total <= checks[t] /\ row[t].successful <= good[t]
  /\ \A c \in Checkers, t \in Targets :
       snap[c][t].total <= checks[t] /\ snap[c][t].successful <= good[t]

(* A step saves one row, or copies rows to a checker, or leaves row and    *)
(* counts alone and at most empties copies.                                *)
LEMMA Steps ==
  ASSUME TypeInv, [Next]_vars
  PROVE  \/ \E c \in Checkers, t \in Targets : Save(c, t)
         \/ /\ UNCHANGED <<row, checks, good>>
            /\ snap' \in [Checkers -> [Targets -> Row]]
            /\ \A c \in Checkers, t \in Targets :
                 snap'[c][t] \in {snap[c][t], row[t], NewRow}
<1> USE DEF TypeInv
<1>0. snap' \in [Checkers -> [Targets -> Row]]
  BY TypeStep DEF TypeOK
<1>1. ASSUME NEW c \in Checkers, NEW S \in SUBSET Targets, List(c, S)
      PROVE  /\ UNCHANGED <<row, checks, good>>
             /\ \A d \in Checkers, t \in Targets : snap'[d][t] \in {snap[d][t], row[t], NewRow}
  BY <1>1 DEF List, table, counts, TypeOK
<1>2. ASSUME NEW c \in Checkers, Leave(c), UNCHANGED <<table, ghost, failures, crashes>>
      PROVE  /\ UNCHANGED <<row, checks, good>>
             /\ \A d \in Checkers, t \in Targets : snap'[d][t] \in {snap[d][t], row[t], NewRow}
  BY <1>2 DEF Leave, table, ghost, counts, posts, TypeOK
<1>3. CASE Crash
  BY <1>0, <1>3 DEF Crash, table, ghost, counts, posts
<1>4. ASSUME NEW c \in Checkers,
             \/ SaveResult(c) \/ NoAlert(c) \/ Alert(c)
             \/ SendAlerts(c) \/ AlertsFail(c) \/ SendWebhooks(c)
      PROVE  UNCHANGED <<row, checks, good, snap>>
  BY <1>4 DEF SaveResult, NoAlert, Alert, SendAlerts, AlertsFail, SendWebhooks, Continue,
              table, ghost, counts, posts
<1>5. ASSUME NEW t \in Targets, Delete(t) \/ Window(t)
      PROVE  UNCHANGED <<row, checks, good, snap>>
  BY <1>5 DEF Delete, Window, local, ghost, counts, posts
<1>6. CASE UNCHANGED vars
  BY <1>0, <1>6 DEF vars, table, local, ghost, counts, posts
<1> QED
  BY <1>0, <1>1, <1>2, <1>3, <1>4, <1>5, <1>6 DEF Next, Check, ResultRejected, Done

(* README.md's uptime: the counters of a row fit each other, whatever      *)
(* updates are lost when checks overlap.                                   *)
THEOREM RowsConsistent == Spec => []RowConsistent
<1> DEFINE Inv == TypeInv /\ AllConsistent
<1>0. Consistent(NewRow)
  BY DEF Consistent, NewRow
<1>1. Init => Inv
  <2> SUFFICES ASSUME Init PROVE Inv
    OBVIOUS
  <2> QED
    BY <1>0, TypeInit DEF Init, AllConsistent
<1>2. Inv /\ [Next]_vars => Inv'
  <2> SUFFICES ASSUME Inv, [Next]_vars PROVE AllConsistent'
    BY TypeStep
  <2>1. ASSUME NEW c \in Checkers, NEW t \in Targets, Save(c, t) PROVE AllConsistent'
    <3> PICK new \in Results(t, snap[c][t]) : Write(t, new)
      BY <2>1 DEF Save
    <3>1. Consistent(new)
      BY ResultsAreConsistent DEF AllConsistent, TypeInv, TypeOK
    <3>2. \A u \in Targets : row'[u] \in {row[u], new}
      BY DEF Write, TypeInv, TypeOK
    <3>3. snap' = snap
      BY <2>1 DEF Save
    <3> QED
      BY <3>1, <3>2, <3>3 DEF AllConsistent, Consistent
  <2>2. CASE /\ UNCHANGED <<row, checks, good>>
             /\ \A c \in Checkers, t \in Targets :
                  snap'[c][t] \in {snap[c][t], row[t], NewRow}
    BY <1>0, <2>2 DEF AllConsistent, Consistent
  <2> QED
    BY <2>1, <2>2, Steps
<1>3. Inv => RowConsistent
  BY DEF TypeInv, TypeOK, AllConsistent, Consistent, RowConsistent
<1> QED
  BY <1>1, <1>2, <1>3, PTL DEF Spec

(* No check is counted twice, however checks overlap: overlaps only lose   *)
(* counts.                                                                 *)
THEOREM NeverOvercounts == Spec => []NoOvercount
<1> DEFINE Inv == TypeInv /\ AllCounted
<1>1. Init => Inv
  <2> SUFFICES ASSUME Init PROVE AllCounted
    BY TypeInit
  <2> QED
    BY DEF Init, NewRow, AllCounted
<1>2. Inv /\ [Next]_vars => Inv'
  <2> SUFFICES ASSUME Inv, [Next]_vars PROVE AllCounted'
    BY TypeStep
  <2>0. /\ row \in [Targets -> Row] /\ checks \in [Targets -> Nat] /\ good \in [Targets -> Nat]
        /\ snap \in [Checkers -> [Targets -> Row]]
    BY DEF TypeInv, TypeOK
  <2>1. ASSUME NEW c \in Checkers, NEW t \in Targets, Save(c, t) PROVE AllCounted'
    <3> PICK new \in Results(t, snap[c][t]) : Write(t, new)
      BY <2>1 DEF Save
    <3>1. snap' = snap
      BY <2>1 DEF Save
    <3>2. CASE t \notin rows
      BY <3>1, <3>2 DEF Write, AllCounted
    <3>3. CASE t \in rows
      <4>1. /\ new \in Row
            /\ new.total <= snap[c][t].total + 1
            /\ new.successful <= snap[c][t].successful + (IF new.status = "up" THEN 1 ELSE 0)
        BY <2>0, ResultsAreRows, ResultsCountOne
      <4>2. /\ row' = [row EXCEPT ![t] = new]
            /\ checks' = [checks EXCEPT ![t] = @ + 1]
            /\ good' = [good EXCEPT ![t] = IF new.status = "up" THEN @ + 1 ELSE @]
        BY <3>3 DEF Write
      <4>3. snap[c][t].total <= checks[t] /\ snap[c][t].successful <= good[t]
        BY DEF AllCounted
      <4>4. new.total <= checks'[t] /\ new.successful <= good'[t]
        BY <2>0, <4>1, <4>2, <4>3 DEF Row
      <4>5. \A u \in Targets : checks[u] <= checks'[u] /\ good[u] <= good'[u]
        BY <2>0, <4>2
      <4>6. /\ row'[t] = new
            /\ \A u \in Targets \ {t} : row'[u] = row[u]
        BY <2>0, <4>2
      <4>7. \A u \in Targets : row'[u].total <= checks'[u] /\ row'[u].successful <= good'[u]
        BY <2>0, <4>2, <4>4, <4>6 DEF AllCounted
      <4>8. checks' \in [Targets -> Nat] /\ good' \in [Targets -> Nat]
        BY <2>0, <4>2
      <4>9. ASSUME NEW d \in Checkers, NEW u \in Targets
            PROVE  snap[d][u].total <= checks'[u] /\ snap[d][u].successful <= good'[u]
        <5>1. snap[d][u] \in Row
          BY <2>0
        <5> QED
          BY <2>0, <4>5, <4>8, <5>1 DEF AllCounted, Row
      <4> QED
        BY <3>1, <4>7, <4>9 DEF AllCounted
    <3> QED
      BY <3>2, <3>3
  <2>2. CASE /\ UNCHANGED <<row, checks, good>>
             /\ \A c \in Checkers, t \in Targets :
                  snap'[c][t] \in {snap[c][t], row[t], NewRow}
    <3>1. \A t \in Targets : NewRow.total <= checks[t] /\ NewRow.successful <= good[t]
      BY <2>0 DEF NewRow
    <3> QED
      BY <2>2, <3>1 DEF AllCounted
  <2> QED
    BY <2>1, <2>2, Steps
<1>3. Inv => NoOvercount
  BY DEF TypeInv, TypeOK, AllCounted, NoOvercount
<1> QED
  BY <1>1, <1>2, <1>3, PTL DEF Spec

-------------------------------------------------------------------------------
(* Checks beside each other *)

(* What two checks have in hand at once is noted. *)
Apart ==
  \A b, c \in Checkers : \A t \in Targets :
    b # c /\ InHand(b, t) /\ InHand(c, t) => t \in overlapped

(* What a check has still to save is as it read it, unless another check   *)
(* has it in hand, too.                                                    *)
SnapFresh ==
  \A c \in Checkers : \A t \in (todo[c] \cap rows) \ overlapped : snap[c][t] = row[t]

FreshInv == Apart /\ SnapFresh

(* A step of one check leaves the others where they are. *)
LEMMA OthersStay ==
  ASSUME TypeInv, NEW c \in Checkers, Check(c), NEW b \in Checkers, b # c
  PROVE  /\ pc'[b] = pc[b] /\ snap'[b] = snap[b] /\ todo'[b] = todo[b]
         /\ cur'[b] = cur[b] /\ found'[b] = found[b]
<1> USE DEF TypeInv, TypeOK
<1>1. CASE \E S \in SUBSET Targets : List(c, S)
  BY <1>1 DEF List
<1>2. CASE \E t \in Targets : Save(c, t)
  BY <1>2 DEF Save
<1>3. CASE ResultRejected(c) \/ Done(c)
  BY <1>3 DEF ResultRejected, Done, Leave
<1>4. CASE \/ SaveResult(c) \/ NoAlert(c) \/ Alert(c)
           \/ SendAlerts(c) \/ AlertsFail(c) \/ SendWebhooks(c)
  BY <1>4 DEF SaveResult, NoAlert, Alert, SendAlerts, AlertsFail, SendWebhooks, Continue
<1> QED
  BY <1>1, <1>2, <1>3, <1>4 DEF Check

(* Only a check that lists targets takes any in hand. *)
LEMMA HandStep ==
  ASSUME TypeInv, [Next]_vars
  PROVE  \/ \E c \in Checkers, S \in SUBSET Targets : List(c, S)
         \/ /\ overlapped' = overlapped
            /\ \A b \in Checkers, t \in Targets : InHand(b, t)' => InHand(b, t)
<1> USE DEF TypeInv, TypeOK, InHand
<1>1. ASSUME NEW c \in Checkers, NEW t \in Targets, Save(c, t)
      PROVE  /\ overlapped' = overlapped
             /\ \A b \in Checkers, u \in Targets : InHand(b, u)' => InHand(b, u)
  BY <1>1 DEF Save
<1>2. ASSUME NEW c \in Checkers, ResultRejected(c) \/ Done(c)
      PROVE  /\ overlapped' = overlapped
             /\ \A b \in Checkers, u \in Targets : InHand(b, u)' => InHand(b, u)
  BY <1>2, MonitorAssumption DEF ResultRejected, Done, Leave, ghost
<1>3. ASSUME NEW c \in Checkers,
             \/ SaveResult(c) \/ NoAlert(c) \/ Alert(c)
             \/ SendAlerts(c) \/ AlertsFail(c) \/ SendWebhooks(c)
      PROVE  /\ overlapped' = overlapped
             /\ \A b \in Checkers, u \in Targets : InHand(b, u)' => InHand(b, u)
  BY <1>3, MonitorAssumption
     DEF SaveResult, NoAlert, Alert, SendAlerts, AlertsFail, SendWebhooks, Continue, ghost
<1>4. ASSUME Crash
      PROVE  /\ overlapped' = overlapped
             /\ \A b \in Checkers, u \in Targets : InHand(b, u)' => InHand(b, u)
  BY <1>4, MonitorAssumption DEF Crash
<1>5. ASSUME (\E t \in Targets : Delete(t) \/ Window(t)) \/ UNCHANGED vars
      PROVE  UNCHANGED <<overlapped, todo, cur>>
  BY <1>5 DEF Delete, Window, vars, local, ghost
<1> QED
  BY <1>1, <1>2, <1>3, <1>4, <1>5 DEF Next, Check

(* A saved result is the row, if there still is one. *)
LEMMA WriteRow ==
  ASSUME TypeOK, NEW t \in Targets, NEW new \in Row, Write(t, new)
  PROVE  /\ \A u \in Targets \ {t} :
              /\ row'[u] = row[u] /\ checks'[u] = checks[u]
              /\ good'[u] = good[u] /\ owed'[u] = owed[u]
         /\ restarted \subseteq restarted'
         /\ t \notin rows => UNCHANGED <<row, checks, good, restarted, owed>>
         /\ t \in rows =>
              /\ row'[t] = new
              /\ new = Raised => t \in restarted'
              /\ checks'[t] = checks[t] + 1
              /\ good'[t] = IF new.status = "up" THEN good[t] + 1 ELSE good[t]
              /\ owed'[t] = LET due == Due(row[t].status, new.status)
                            IN  IF due = "none" THEN owed[t] ELSE due
<1>1. CASE t \in rows
  BY <1>1 DEF Write, Due, TypeOK, Up
<1>2. CASE t \notin rows
  BY <1>2 DEF Write
<1> QED
  BY <1>1, <1>2

(* Both parts of FreshInv, in every step. *)
LEMMA FreshStep ==
  ASSUME TypeInv, FreshInv, [Next]_vars
  PROVE  FreshInv'
<1> USE DEF TypeInv, TypeOK
<1>0. Apart /\ SnapFresh
  BY DEF FreshInv
<1>1. ASSUME NEW c \in Checkers, NEW S \in SUBSET Targets, List(c, S) PROVE FreshInv'
  <2>1. /\ pc[c] = "idle" /\ S \subseteq rows /\ UNCHANGED <<rows, row, cur>>
        /\ snap' = [snap EXCEPT ![c] = [t \in Targets |-> IF t \in S THEN row[t] ELSE NewRow]]
        /\ todo' = [todo EXCEPT ![c] = S]
        /\ overlapped' = overlapped \cup {t \in S : \E b \in Checkers \ {c} : InHand(b, t)}
    BY <1>1 DEF List, table
  <2>2. SnapFresh'
    BY <1>0, <2>1 DEF SnapFresh
  <2>3. \A b \in Checkers \ {c}, t \in Targets : InHand(b, t)' => InHand(b, t)
    BY <2>1 DEF InHand
  <2>4. \A t \in Targets : InHand(c, t)' => InHand(c, t) \/ t \in S
    BY <2>1 DEF InHand
  <2>5. Apart'
    BY <1>0, <2>1, <2>3, <2>4 DEF Apart
  <2> QED
    BY <2>2, <2>5 DEF FreshInv
<1>2. ASSUME /\ overlapped' = overlapped
             /\ \A b \in Checkers, t \in Targets : InHand(b, t)' => InHand(b, t)
      PROVE  Apart'
  BY <1>0, <1>2 DEF Apart
<1>3. ASSUME NEW c \in Checkers, NEW t \in Targets, Save(c, t) PROVE SnapFresh'
  <2>1. \A u \in Targets \ {t} : row'[u] = row[u]
    <3> PICK new \in Results(t, snap[c][t]) : Write(t, new)
      BY <1>3 DEF Save
    <3> QED
      BY DEF Write
  <2>2. /\ t \in todo[c] /\ UNCHANGED <<rows, snap, overlapped>>
        /\ todo' = [todo EXCEPT ![c] = @ \ {t}]
    BY <1>3 DEF Save
  <2>3. \A b \in Checkers : t \in todo'[b] => t \in overlapped
    BY <1>0, <2>2 DEF Apart, InHand
  <2> QED
    BY <1>0, <2>1, <2>2, <2>3 DEF SnapFresh
<1>4. ASSUME NEW c \in Checkers, ResultRejected(c) \/ Done(c) PROVE SnapFresh'
  <2>1. /\ todo' = [todo EXCEPT ![c] = {}] /\ UNCHANGED <<rows, row, overlapped>>
        /\ snap' = [snap EXCEPT ![c] = [t \in Targets |-> NewRow]]
    BY <1>4 DEF ResultRejected, Done, Leave, table, ghost
  <2> QED
    BY <1>0, <2>1 DEF SnapFresh
<1>5. ASSUME NEW c \in Checkers,
             \/ SaveResult(c) \/ NoAlert(c) \/ Alert(c)
             \/ SendAlerts(c) \/ AlertsFail(c) \/ SendWebhooks(c)
      PROVE  UNCHANGED <<rows, row, snap, todo, overlapped>>
  BY <1>5 DEF SaveResult, NoAlert, Alert, SendAlerts, AlertsFail, SendWebhooks, Continue,
              table, ghost
<1>6. ASSUME NEW t \in Targets, Delete(t) \/ Window(t)
      PROVE  rows' \subseteq rows /\ UNCHANGED <<row, snap, todo, overlapped>>
  BY <1>6 DEF Delete, Window, local, ghost
<1>7. ASSUME Crash PROVE SnapFresh'
  BY <1>7 DEF Crash, table, SnapFresh
<1>8. ASSUME UNCHANGED vars PROVE UNCHANGED <<rows, row, snap, todo, overlapped>>
  BY <1>8 DEF vars, table, local, ghost
<1>9. \/ \E c \in Checkers, S \in SUBSET Targets : List(c, S)
      \/ SnapFresh'
  BY <1>0, <1>3, <1>4, <1>5, <1>6, <1>7, <1>8 DEF Next, Check, SnapFresh
<1> QED
  BY <1>1, <1>2, <1>9, HandStep DEF FreshInv

(* ... and at first. *)
LEMMA FreshInit == Init => FreshInv
  BY MonitorAssumption DEF Init, FreshInv, Apart, SnapFresh, InHand

-------------------------------------------------------------------------------
(* Counters and history *)

(* What no row in webapp_results stands for yet is in the hands of a check, *)
(* or went with the process.                                               *)
HistoryInv ==
  \A t \in rows \cap WebApps :
    checks[t] = entries[t] + dropped[t] + Cardinality(Unrecorded(t))

(* A result of a web app counts exactly one check more than the row it     *)
(* started from, unless the check raised.                                  *)
LEMMA ResultsCountExactly ==
  ASSUME NEW t \in WebApps, NEW old \in Row, NEW new \in Results(t, old), new # Raised
  PROVE  /\ new.total = old.total + 1
         /\ new.successful = old.successful + (IF new.status = "up" THEN 1 ELSE 0)
<1>1. CASE \E s \in Found : new = Counted(old, s)
  <2> PICK s \in Found : new = Counted(old, s)
    BY <1>1
  <2> QED
    BY DEF Counted, Row
<1>2. CASE new = Blocked(old)
  BY <1>2 DEF Blocked, Row
<1> QED
  BY <1>1, <1>2 DEF Results

(* A check counts on from the row there is, so none is lost. *)
LEMMA CountStep ==
  ASSUME TypeInv, FreshInv, CountsExact, [Next]_vars
  PROVE  CountsExact'
<1> USE DEF TypeInv, TypeOK
<1>1. ASSUME NEW c \in Checkers, NEW t \in Targets, Save(c, t) PROVE CountsExact'
  <2> PICK new \in Results(t, snap[c][t]) : Write(t, new)
    BY <1>1 DEF Save
  <2>1. new \in Row
    BY ResultsAreRows
  <2>2. t \in todo[c] /\ UNCHANGED <<rows, overlapped>>
    BY <1>1 DEF Save
  <2>3. ASSUME t \in (rows \cap WebApps) \ (overlapped \cup restarted')
        PROVE  row'[t].total = checks'[t] /\ row'[t].successful = good'[t]
    <3>1. restarted \subseteq restarted' /\ new # Raised
      BY <2>1, <2>3, WriteRow
    <3>2. snap[c][t] = row[t] /\ row[t].total = checks[t] /\ row[t].successful = good[t]
      BY <2>2, <2>3, <3>1 DEF FreshInv, SnapFresh, CountsExact
    <3>3. /\ new.total = row[t].total + 1
          /\ new.successful = row[t].successful + (IF new.status = "up" THEN 1 ELSE 0)
      BY <2>3, <3>1, <3>2, ResultsCountExactly
    <3>4. good[t] + 0 = good[t]
      OBVIOUS
    <3> QED
      BY <2>1, <2>3, <3>2, <3>3, <3>4, WriteRow
  <2>4. ASSUME NEW u \in (rows \cap WebApps) \ (overlapped \cup restarted'), u # t
        PROVE  row'[u].total = checks'[u] /\ row'[u].successful = good'[u]
    BY <2>1, <2>4, WriteRow DEF CountsExact
  <2> QED
    BY <2>2, <2>3, <2>4 DEF CountsExact
<1>2. ASSUME NEW c \in Checkers, NEW S \in SUBSET Targets, List(c, S)
      PROVE  overlapped \subseteq overlapped' /\ UNCHANGED <<rows, row, checks, good, restarted>>
  BY <1>2 DEF List, table, counts
<1>3. ASSUME NEW c \in Checkers,
             \/ SaveResult(c) \/ ResultRejected(c) \/ NoAlert(c) \/ Alert(c)
             \/ SendAlerts(c) \/ AlertsFail(c) \/ SendWebhooks(c) \/ Done(c)
      PROVE  UNCHANGED <<rows, row, checks, good, restarted, overlapped>>
  BY <1>3 DEF SaveResult, ResultRejected, NoAlert, Alert, SendAlerts, AlertsFail,
              SendWebhooks, Done, table, ghost, counts, posts
<1>4. ASSUME (\E t \in Targets : Delete(t) \/ Window(t)) \/ Crash \/ UNCHANGED vars
      PROVE  rows' \subseteq rows /\ UNCHANGED <<row, checks, good, restarted, overlapped>>
  BY <1>4 DEF Delete, Window, Crash, vars, table, ghost, counts, posts
<1> QED
  BY <1>1, <1>2, <1>3, <1>4 DEF Next, Check, CountsExact

(* A target is between its two transactions as long as its checks are.     *)
LEMMA StillUnrecorded ==
  ASSUME NEW t,
         \A b \in Checkers : pc'[b] = "history" /\ cur'[b] = t <=> pc[b] = "history" /\ cur[b] = t
  PROVE  Unrecorded(t)' = Unrecorded(t)
BY DEF Unrecorded

(* The history misses what a check has between its two transactions. *)
LEMMA HistoryStep ==
  ASSUME TypeInv, HistoryInv, [Next]_vars
  PROVE  HistoryInv'
<1> USE DEF TypeInv, TypeOK
<1>1. ASSUME NEW c \in Checkers, NEW t \in Targets, Save(c, t) PROVE HistoryInv'
  <2>1. /\ pc[c] = "save" /\ UNCHANGED <<rows, entries, dropped>>
        /\ cur' = [cur EXCEPT ![c] = t]
        /\ pc' = [pc EXCEPT ![c] = IF t \in WebApps THEN "history" ELSE "alert"]
    BY <1>1 DEF Save
  <2>2. ASSUME NEW u \in rows \cap WebApps, u # t
        PROVE  checks'[u] = checks[u] /\ Unrecorded(u)' = Unrecorded(u)
    <3>1. checks'[u] = checks[u]
      BY <1>1, <2>2 DEF Save, Write
    <3> QED
      BY <2>1, <2>2, <3>1, StillUnrecorded
  <2>3. ASSUME t \in rows \cap WebApps
        PROVE  /\ checks'[t] = checks[t] + 1
               /\ Unrecorded(t)' = Unrecorded(t) \cup {c} /\ c \notin Unrecorded(t)
    <3>1. checks'[t] = checks[t] + 1
      BY <1>1, <2>3 DEF Save, Write
    <3> QED
      BY <2>1, <2>3, <3>1 DEF Unrecorded
  <2>4. t \in rows \cap WebApps =>
          Cardinality(Unrecorded(t)') = Cardinality(Unrecorded(t)) + 1
    <3>1. IsFiniteSet(Unrecorded(t))
      BY UnrecordedCounts
    <3>2. c \notin Unrecorded(t) =>
            Cardinality(Unrecorded(t) \cup {c}) = Cardinality(Unrecorded(t)) + 1
      BY <3>1, FS_AddElement
    <3> QED
      BY <2>3, <3>2
  <2>5. ASSUME NEW u \in rows \cap WebApps
        PROVE  checks'[u] = entries'[u] + dropped'[u] + Cardinality(Unrecorded(u)')
    <3>1. CASE u # t
      BY <2>1, <2>2, <3>1 DEF HistoryInv
    <3>2. CASE u = t
      <4>1. checks[t] = entries[t] + dropped[t] + Cardinality(Unrecorded(t))
        BY <2>5, <3>2 DEF HistoryInv
      <4>2. /\ entries[t] \in Nat /\ dropped[t] \in Nat /\ Cardinality(Unrecorded(t)) \in Nat
        BY UnrecordedCounts
      <4> QED
        BY <2>1, <2>3, <2>4, <2>5, <3>2, <4>1, <4>2
    <3> QED
      BY <3>1, <3>2
  <2> QED
    BY <2>1, <2>5 DEF HistoryInv
<1>2. ASSUME NEW c \in Checkers, SaveResult(c) PROVE HistoryInv'
  <2>1. /\ pc[c] = "history" /\ cur[c] \in rows /\ UNCHANGED <<rows, checks, dropped, cur>>
        /\ entries' = [entries EXCEPT ![cur[c]] = @ + 1]
        /\ pc' = [pc EXCEPT ![c] = "alert"]
    BY <1>2 DEF SaveResult, ghost, counts, posts
  <2>2. \A u \in rows : u # cur[c] => Unrecorded(u)' = Unrecorded(u)
    BY <2>1, StillUnrecorded
  <2> PICK t \in rows : t = cur[c]
    BY <2>1
  <2>3. Unrecorded(t)' = Unrecorded(t) \ {c} /\ c \in Unrecorded(t)
    BY <2>1 DEF Unrecorded
  <2>4. Cardinality(Unrecorded(t)) = Cardinality(Unrecorded(t)') + 1
    <3>1. Cardinality(Unrecorded(t) \ {c}) = Cardinality(Unrecorded(t)) - 1
      BY <2>3, UnrecordedCounts, FS_RemoveElement
    <3> QED
      BY <2>3, <3>1, UnrecordedCounts
  <2>5. ASSUME NEW u \in rows \cap WebApps
        PROVE  checks'[u] = entries'[u] + dropped'[u] + Cardinality(Unrecorded(u)')
    <3>1. CASE u # t
      BY <2>1, <2>2, <3>1 DEF HistoryInv
    <3>2. CASE u = t
      <4>1. checks[t] = entries[t] + dropped[t] + Cardinality(Unrecorded(t))
        BY <2>5, <3>2 DEF HistoryInv
      <4>2. entries'[t] = entries[t] + 1 /\ dropped'[t] = dropped[t] /\ checks'[t] = checks[t]
        BY <2>1
      <4>3. PICK n : n = Cardinality(Unrecorded(t)')
        OBVIOUS
      <4>4. n \in Nat
        <5>1. IsFiniteSet(Unrecorded(t) \ {c})
          BY UnrecordedCounts, FS_RemoveElement
        <5> QED
          BY <2>3, <4>3, <5>1, FS_CardinalityType
      <4>5. checks[t] = entries[t] + dropped[t] + (n + 1)
        BY <2>4, <4>1, <4>3
      <4>6. entries[t] \in Nat /\ dropped[t] \in Nat
        OBVIOUS
      <4>7. (entries[t] + 1) + dropped[t] + n = entries[t] + dropped[t] + (n + 1)
        BY <4>4, <4>6
      <4>8. checks'[t] = entries'[t] + dropped'[t] + n
        BY <4>2, <4>5, <4>7
      <4> QED
        BY <3>2, <4>3, <4>8
    <3> QED
      BY <3>1, <3>2
  <2> QED
    BY <2>1, <2>5 DEF HistoryInv
<1>3. ASSUME NEW c \in Checkers, ResultRejected(c) PROVE HistoryInv'
  <2>1. /\ cur[c] \notin rows /\ UNCHANGED <<rows, checks, entries, dropped>>
        /\ pc' = [pc EXCEPT ![c] = "idle"] /\ cur' = [cur EXCEPT ![c] = None]
    BY <1>3 DEF ResultRejected, Leave, table, ghost, counts, posts
  <2>2. \A u \in rows : Unrecorded(u)' = Unrecorded(u)
    BY <2>1, StillUnrecorded
  <2> QED
    BY <2>1, <2>2 DEF HistoryInv
<1>4. ASSUME NEW c \in Checkers,
             \/ \E S \in SUBSET Targets : List(c, S)
             \/ NoAlert(c) \/ Alert(c) \/ SendAlerts(c) \/ AlertsFail(c)
             \/ SendWebhooks(c) \/ Done(c)
      PROVE  HistoryInv'
  <2>1. UNCHANGED <<rows, checks, entries, dropped>>
    BY <1>4 DEF List, NoAlert, Alert, SendAlerts, AlertsFail, SendWebhooks, Done,
                table, ghost, counts, posts
  <2>2. pc[c] # "history" /\ pc'[c] # "history"
    BY <1>4 DEF List, NoAlert, Alert, SendAlerts, AlertsFail, SendWebhooks, Done, Continue, Leave
  <2>3. \A b \in Checkers \ {c} : pc'[b] = pc[b] /\ cur'[b] = cur[b]
    BY <1>4, OthersStay DEF Check
  <2>4. \A u \in rows : Unrecorded(u)' = Unrecorded(u)
    BY <2>2, <2>3, StillUnrecorded
  <2> QED
    BY <2>1, <2>4 DEF HistoryInv
<1>5. ASSUME NEW t \in Targets, Delete(t) PROVE HistoryInv'
  <2>1. \A u \in rows : Unrecorded(u)' = Unrecorded(u)
    BY <1>5, StillUnrecorded DEF Delete, local
  <2> QED
    BY <1>5, <2>1 DEF Delete, ghost, counts, posts, HistoryInv
<1>6. ASSUME Crash PROVE HistoryInv'
  <2>1. /\ UNCHANGED <<rows, entries, checks>> /\ pc' = [c \in Checkers |-> "idle"]
        /\ dropped' = [t \in Targets |-> dropped[t] + Cardinality(Unrecorded(t))]
    BY <1>6 DEF Crash, table
  <2>2. \A u \in rows : Unrecorded(u)' = {}
    BY <2>1 DEF Unrecorded
  <2>3. Cardinality({}) = 0
    BY FS_EmptySet
  <2>4. ASSUME NEW u \in rows \cap WebApps
        PROVE  checks'[u] = entries'[u] + dropped'[u] + Cardinality(Unrecorded(u)')
    <3>1. checks[u] = entries[u] + dropped[u] + Cardinality(Unrecorded(u))
      BY DEF HistoryInv
    <3>2. entries[u] \in Nat /\ dropped[u] \in Nat /\ Cardinality(Unrecorded(u)) \in Nat
      BY UnrecordedCounts
    <3>3. PICK n : n = Cardinality(Unrecorded(u))
      OBVIOUS
    <3>4. /\ dropped'[u] = dropped[u] + n /\ entries'[u] = entries[u] /\ checks'[u] = checks[u]
      BY <2>1, <3>3
    <3>5. checks'[u] = entries'[u] + dropped'[u] + 0
      BY <3>1, <3>2, <3>3, <3>4
    <3>6. Cardinality(Unrecorded(u)') = 0
      BY <2>2, <2>3
    <3> QED
      BY <3>5, <3>6
  <2> QED
    BY <2>1, <2>4 DEF HistoryInv
<1>7. ASSUME (\E t \in Targets : Window(t)) \/ UNCHANGED vars PROVE HistoryInv'
  <2>1. UNCHANGED <<rows, entries, checks, dropped, pc, cur>>
    BY <1>7 DEF Window, vars, table, local, ghost, counts, posts
  <2>2. \A u \in rows : Unrecorded(u)' = Unrecorded(u)
    BY <2>1, StillUnrecorded
  <2> QED
    BY <2>1, <2>2 DEF HistoryInv
<1> QED
  BY <1>1, <1>2, <1>3, <1>4, <1>5, <1>6, <1>7 DEF Next, Check

(* The totals behind the uptime in percent and the rows of webapp_results  *)
(* tell the checks that were saved, no more and no less, whatever is       *)
(* deleted in the middle of a list and wherever the process dies: the      *)
(* history of every web app, and the counters of one that no two checks    *)
(* had in hand at once, until a check of it raises.                        *)
THEOREM ChecksAreRecorded == Spec => []ChecksRecorded
<1> DEFINE Inv == FreshInv /\ CountsExact /\ HistoryInv
<1>1. Init => Inv
  <2> SUFFICES ASSUME Init PROVE CountsExact /\ HistoryInv
    BY FreshInit
  <2>1. \A t \in Targets : Unrecorded(t) = {}
    BY DEF Init, Unrecorded
  <2>2. Cardinality({}) = 0
    BY FS_EmptySet
  <2>3. HistoryInv
    <3> SUFFICES ASSUME NEW t \in Targets
                 PROVE  checks[t] = entries[t] + dropped[t] + Cardinality(Unrecorded(t))
      BY MonitorAssumption DEF HistoryInv
    <3>1. checks[t] = 0 /\ entries[t] = 0 /\ dropped[t] = 0
      BY DEF Init
    <3>2. Cardinality(Unrecorded(t)) = 0
      BY <2>1, <2>2
    <3> QED
      BY <3>1, <3>2
  <2> QED
    BY <2>3, MonitorAssumption DEF Init, NewRow, CountsExact
<1>2. TypeInv /\ Inv /\ [Next]_vars => Inv'
  BY FreshStep, CountStep, HistoryStep
<1>3. TypeInv /\ Inv => ChecksRecorded
  <2> SUFFICES ASSUME TypeInv, Inv, \A c \in Checkers : pc[c] = "idle",
                      NEW t \in rows \cap WebApps
               PROVE  entries[t] + dropped[t] = checks[t]
    BY DEF ChecksRecorded, HistoryMatches
  <2>1. Cardinality(Unrecorded(t)) = 0
    <3>1. Unrecorded(t) = {}
      BY DEF Unrecorded
    <3> QED
      BY <3>1, FS_EmptySet
  <2> QED
    BY <2>1 DEF HistoryInv, TypeInv, TypeOK
<1> QED
  BY TypeInit, TypeStep, <1>1, <1>2, <1>3, PTL DEF Spec

-------------------------------------------------------------------------------
(* Alerts *)

(* Check c has saved t and not yet tried to tell of it. *)
At(c, t) == Pending(c) /\ cur[c] = t

(* Nobody is owed anything about t. *)
Quiet(t) == owed[t] \in {"none", "lost"}

(* A check goes to the mail about a transition from the status it read to  *)
(* the one it found.                                                       *)
FoundInv ==
  \A c \in Checkers : Pending(c) =>
    /\ found[c] \in Found
    /\ pc[c] = "mail" => Transition(snap[c][cur[c]].status, found[c])

(* The check at t knows of a transition of its row what the table knows.   *)
Knows(c, t) ==
  LET due == Due(snap[c][t].status, found[c])
  IN  IF due = "none" THEN Quiet(t) ELSE owed[t] = due

(* DownMailsFounded and TransitionsMailed are not inductive: what is   *)
(* owed about a row is what the one check that is at it will say.          *)
OwedInv ==
  \A t \in rows \ overlapped :
    /\ (\A c \in Checkers : ~At(c, t)) => Quiet(t)
    /\ \A c \in Checkers : At(c, t) => Knows(c, t)

AlertInv == FoundInv /\ OwedInv /\ DownMailsFounded

(* What is said of a target is what was due. *)
LEMMA DueIsSaid ==
  ASSUME NEW before \in Status, NEW after \in Found
  PROVE  /\ Due(before, after) \in {"none", Class(after)}
         /\ Class(after) \in {"up", "down"}
         /\ ~Transition(before, after) => Due(before, after) = "none"
         /\ Transition(before, after) /\ Class(after) = "down" => Due(before, after) = "down"
BY DEF Due, Class, Transition, Status, Found, Up

(* A step that changes neither who is at a row nor what is owed about it.  *)
LEMMA StillOwed ==
  ASSUME OwedInv, rows' \subseteq rows, overlapped \subseteq overlapped', owed' = owed,
         \A c \in Checkers, t \in rows' :
           /\ At(c, t)' <=> At(c, t)
           /\ At(c, t) => snap'[c][t] = snap[c][t] /\ found'[c] = found[c]
  PROVE  OwedInv'
BY DEF OwedInv, Knows, Quiet

(* A step of check c, at d, that leaves what is owed about d as it should. *)
LEMMA OwedAfter ==
  ASSUME TypeInv, FreshInv, OwedInv, NEW c \in Checkers, Check(c), NEW d \in Targets,
         rows' = rows, overlapped' = overlapped, InHand(c, d),
         \A t \in rows \ {d} : owed'[t] = owed[t] /\ ~At(c, t) /\ ~At(c, t)',
         d \in rows \ overlapped => IF At(c, d)' THEN Knows(c, d)' ELSE Quiet(d)'
  PROVE  OwedInv'
<1> SUFFICES ASSUME NEW t \in rows \ overlapped
             PROVE  /\ (\A b \in Checkers : ~At(b, t)') => Quiet(t)'
                    /\ \A b \in Checkers : At(b, t)' => Knows(b, t)'
  BY DEF OwedInv
<1>0. \A b \in Checkers \ {c} :
        /\ At(b, t)' <=> At(b, t)
        /\ snap'[b] = snap[b] /\ found'[b] = found[b]
  BY OthersStay DEF At, Pending
<1>1. CASE t # d
  <2>1. owed'[t] = owed[t] /\ ~At(c, t) /\ ~At(c, t)'
    BY <1>1
  <2> QED
    BY <1>0, <2>1 DEF OwedInv, Knows, Quiet
<1>2. CASE t = d
  <2>1. \A b \in Checkers \ {c} : ~At(b, t)
    BY <1>2 DEF FreshInv, Apart, At, InHand
  <2> QED
    BY <1>0, <1>2, <2>1
<1> QED
  BY <1>1, <1>2

(* What a check found, and that it alerts about transitions only. *)
LEMMA FoundStep ==
  ASSUME TypeInv, FoundInv, [Next]_vars
  PROVE  FoundInv'
<1> USE DEF TypeInv, TypeOK
<1>1. ASSUME NEW c \in Checkers, Check(c) PROVE FoundInv'
  <2>1. ASSUME Pending(c)'
        PROVE  /\ found'[c] \in Found
               /\ pc'[c] = "mail" => Transition(snap'[c][cur'[c]].status, found'[c])
    <3>1. ASSUME NEW t \in Targets, Save(c, t) PROVE found'[c] \in Found /\ pc'[c] # "mail"
      BY <3>1, ResultsAreRows DEF Save
    <3>2. ASSUME SaveResult(c) \/ Alert(c)
          PROVE  /\ Pending(c) /\ UNCHANGED <<snap, cur, found>>
                 /\ pc'[c] = "mail" => Transition(snap[c][cur[c]].status, found[c])
      BY <3>2 DEF SaveResult, Alert, Alerts, Pending
    <3>3. ASSUME \/ \E S \in SUBSET Targets : List(c, S)
                 \/ ResultRejected(c) \/ NoAlert(c) \/ SendAlerts(c)
                 \/ AlertsFail(c) \/ SendWebhooks(c) \/ Done(c)
          PROVE  FALSE
      BY <2>1, <3>3 DEF List, ResultRejected, NoAlert, SendAlerts, AlertsFail, SendWebhooks,
                        Done, Leave, Continue, Pending
    <3> QED
      BY <1>1, <3>1, <3>2, <3>3 DEF Check, FoundInv
  <2> QED
    BY <1>1, <2>1, OthersStay DEF FoundInv, Pending
<1>2. CASE Crash
  BY <1>2 DEF Crash, FoundInv, Pending
<1>3. ASSUME (\E t \in Targets : Delete(t) \/ Window(t)) \/ UNCHANGED vars
      PROVE  UNCHANGED local
  BY <1>3 DEF Delete, Window, vars
<1> QED
  BY <1>1, <1>2, <1>3 DEF Next, local, FoundInv, Pending

(* What is owed about a row is what the check at it will say. *)
LEMMA OwedStep ==
  ASSUME TypeInv, FreshInv, FoundInv, OwedInv, [Next]_vars
  PROVE  OwedInv'
<1> USE DEF TypeInv, TypeOK
<1>1. ASSUME NEW c \in Checkers, NEW t \in Targets, Save(c, t) PROVE OwedInv'
  <2> PICK new \in Results(t, snap[c][t]) :
        Write(t, new) /\ found' = [found EXCEPT ![c] = new.status]
    BY <1>1 DEF Save
  <2>1. new \in Row
    BY ResultsAreRows
  <2>2. /\ pc[c] = "save" /\ t \in todo[c] /\ UNCHANGED <<rows, snap, overlapped>>
        /\ cur' = [cur EXCEPT ![c] = t]
        /\ pc' = [pc EXCEPT ![c] = IF t \in WebApps THEN "history" ELSE "alert"]
    BY <1>1 DEF Save
  <2>3. ASSUME t \in rows \ overlapped PROVE Knows(c, t)'
    <3>1. \A b \in Checkers : ~At(b, t)
      BY <2>2, <2>3 DEF FreshInv, Apart, At, InHand, Pending
    <3>2. Quiet(t)
      BY <2>3, <3>1 DEF OwedInv
    <3>3. snap[c][t] = row[t]
      BY <2>2, <2>3 DEF FreshInv, SnapFresh
    <3>4. found'[c] = new.status /\ snap'[c][t] = row[t]
      BY <2>2, <3>3
    <3>5. owed'[t] = IF Due(row[t].status, new.status) = "none" THEN owed[t]
                     ELSE Due(row[t].status, new.status)
      BY <2>1, <2>3, WriteRow
    <3> QED
      BY <3>2, <3>4, <3>5 DEF Knows, Quiet
  <2>4. \A u \in rows \ {t} : owed'[u] = owed[u] /\ ~At(c, u) /\ ~At(c, u)'
    BY <2>1, <2>2, WriteRow DEF At, Pending
  <2>5. At(c, t)' /\ InHand(c, t)
    BY <2>2 DEF At, Pending, InHand
  <2> QED
    BY <1>1, <2>2, <2>3, <2>4, <2>5, OwedAfter DEF Check
<1>2. ASSUME NEW c \in Checkers,
             \/ \E S \in SUBSET Targets : List(c, S)
             \/ SaveResult(c) \/ ResultRejected(c) \/ Alert(c) \/ SendWebhooks(c) \/ Done(c)
      PROVE  OwedInv'
  <2>1. rows' = rows /\ owed' = owed /\ overlapped \subseteq overlapped'
    BY <1>2 DEF List, SaveResult, ResultRejected, Alert, SendWebhooks, Done, table, ghost
  <2>2. \A u \in rows : (At(c, u)' <=> At(c, u)) /\
                        (At(c, u) => snap'[c] = snap[c] /\ found'[c] = found[c])
    BY <1>2, MonitorAssumption
       DEF List, SaveResult, ResultRejected, Alert, SendWebhooks, Done, Leave, Continue,
           At, Pending
  <2>3. \A b \in Checkers \ {c} : \A u \in rows : (At(b, u)' <=> At(b, u))
                          /\ snap'[b] = snap[b] /\ found'[b] = found[b]
    BY <1>2, OthersStay DEF Check, At, Pending
  <2>4. \A b \in Checkers, u \in rows' :
          /\ At(b, u)' <=> At(b, u)
          /\ At(b, u) => snap'[b][u] = snap[b][u] /\ found'[b] = found[b]
    BY <2>1, <2>2, <2>3
  <2> QED
    BY <2>1, <2>4, StillOwed
<1>3. ASSUME NEW c \in Checkers, NoAlert(c) \/ SendAlerts(c) \/ AlertsFail(c) PROVE OwedInv'
  <2>0. /\ Pending(c) /\ ~Pending(c)' /\ rows' = rows /\ overlapped' = overlapped
        /\ cur[c] \in Targets
    BY <1>3 DEF NoAlert, SendAlerts, AlertsFail, Continue, Pending, AtTarget, table
  <2> PICK d \in Targets : d = cur[c]
    BY <2>0
  <2>1. \/ owed' = owed /\ ~Transition(snap[c][d].status, found[c])
        \/ owed' = [owed EXCEPT ![d] = IF @ = Class(found[c]) THEN "none" ELSE @]
        \/ owed' = [owed EXCEPT ![d] = "lost"]
    BY <1>3 DEF NoAlert, SendAlerts, AlertsFail, Alerts, Settle
  <2>2. \A u \in rows \ {d} : owed'[u] = owed[u] /\ ~At(c, u) /\ ~At(c, u)'
    BY <2>0, <2>1 DEF At
  <2>3. ASSUME d \in rows \ overlapped PROVE Quiet(d)'
    <3>1. found[c] \in Found /\ snap[c][d].status \in Status
      BY <2>0 DEF FoundInv, Row
    <3>2. Knows(c, d)
      BY <2>0, <2>3 DEF OwedInv, At
    <3>3. /\ Due(snap[c][d].status, found[c]) \in {"none", Class(found[c])}
          /\ Class(found[c]) \in {"up", "down"}
          /\ ~Transition(snap[c][d].status, found[c]) => Due(snap[c][d].status, found[c]) = "none"
      BY <3>1, DueIsSaid
    <3> QED
      BY <2>1, <2>3, <3>2, <3>3 DEF Knows, Quiet
  <2>4. InHand(c, d) /\ ~At(c, d)' /\ Check(c)
    BY <1>3, <2>0 DEF InHand, At, Check
  <2> QED
    BY <2>0, <2>2, <2>3, <2>4, OwedAfter
<1>4. ASSUME (\E t \in Targets : Delete(t) \/ Window(t)) \/ UNCHANGED vars PROVE OwedInv'
  <2>1. rows' \subseteq rows /\ UNCHANGED <<owed, overlapped, pc, cur, snap, found>>
    BY <1>4 DEF Delete, Window, vars, table, local, ghost
  <2> QED
    BY <2>1, StillOwed DEF At, Pending
<1>5. ASSUME Crash PROVE OwedInv'
  <2>1. /\ UNCHANGED <<rows, overlapped>> /\ \A c \in Checkers : ~Pending(c)'
        /\ owed' = [t \in Targets |-> IF \E c \in Checkers : At(c, t) THEN "lost" ELSE owed[t]]
    BY <1>5 DEF Crash, table, Pending, At
  <2> QED
    BY <2>1 DEF OwedInv, Quiet, At
<1> QED
  BY <1>1, <1>2, <1>3, <1>4, <1>5 DEF Next, Check

(* A "down" alert goes out for what is owed. *)
LEMMA FoundedStep ==
  ASSUME TypeInv, AlertInv, [Next]_vars
  PROVE  DownMailsFounded'
<1> USE DEF TypeInv, TypeOK
<1>0. FoundInv /\ OwedInv /\ DownMailsFounded
  BY DEF AlertInv
<1>1. ASSUME NEW c \in Checkers, SendAlerts(c) PROVE DownMailsFounded'
  <2>1. /\ pc[c] = "mail" /\ UNCHANGED <<rows, overlapped>> /\ Pending(c) /\ cur[c] \in Targets
    BY <1>1 DEF SendAlerts, table, Pending, AtTarget
  <2> PICK d \in Targets : d = cur[c]
    BY <2>1
  <2> DEFINE s == Class(found[c])
  <2>2. unfounded' = IF owed[d] = s THEN unfounded ELSE unfounded \cup {<<d, s>>}
    BY <1>1 DEF SendAlerts
  <2>3. ASSUME d \in rows \ overlapped, s = "down" PROVE owed[d] = s
    <3>1. /\ found[c] \in Found /\ snap[c][d].status \in Status
          /\ Transition(snap[c][d].status, found[c])
      BY <1>0, <2>1 DEF FoundInv, Row
    <3>2. Knows(c, d)
      BY <1>0, <2>1, <2>3 DEF OwedInv, At
    <3>3. Due(snap[c][d].status, found[c]) = "down"
      BY <2>3, <3>1, DueIsSaid
    <3> QED
      BY <2>3, <3>2, <3>3 DEF Knows
  <2> HIDE DEF s
  <2> QED
    BY <1>0, <2>1, <2>2, <2>3 DEF DownMailsFounded
<1>2. ASSUME NEW c \in Checkers,
             \/ \E S \in SUBSET Targets : List(c, S)
             \/ \E t \in Targets : Save(c, t)
             \/ SaveResult(c) \/ ResultRejected(c) \/ NoAlert(c) \/ Alert(c)
             \/ AlertsFail(c) \/ SendWebhooks(c) \/ Done(c)
      PROVE  rows' = rows /\ overlapped \subseteq overlapped' /\ unfounded' = unfounded
  BY <1>2 DEF List, Save, SaveResult, ResultRejected, NoAlert, Alert, AlertsFail,
              SendWebhooks, Done, table, ghost
<1>3. ASSUME (\E t \in Targets : Delete(t) \/ Window(t)) \/ Crash \/ UNCHANGED vars
      PROVE  rows' \subseteq rows /\ UNCHANGED <<overlapped, unfounded>>
  BY <1>3 DEF Delete, Window, Crash, vars, table, ghost
<1> QED
  BY <1>0, <1>1, <1>2, <1>3 DEF Next, Check, DownMailsFounded

(* README.md: "Webapp down alerts - Sent on transition from up->down",     *)
(* "Webapp recovery alerts - Sent on transition from down->up", of mails:  *)
(* for every target that no two checks had in hand at once, a "down" mail  *)
(* tells of a transition of the row, and once, whatever fails to be sent   *)
(* and however often the process dies; and when no check is in progress, a *)
(* mail has told of every transition, but for those a window covered,      *)
(* whose mail failed or that died with the process: also of the targets    *)
(* after one that was deleted in the middle of a list.  Posts to webhooks  *)
(* are no part of it: they go out twice (WebhooksOnce).                    *)
THEOREM MailsAreTransitions == Spec => []MailsMatchTransitions
<1> DEFINE Inv == FreshInv /\ AlertInv
<1>1. Init => Inv
  <2> SUFFICES ASSUME Init PROVE AlertInv
    BY FreshInit
  <2> QED
    BY DEF Init, AlertInv, FoundInv, OwedInv, DownMailsFounded, At, Pending, Quiet
<1>2. TypeInv /\ Inv /\ [Next]_vars => Inv'
  BY FreshStep, FoundStep, OwedStep, FoundedStep DEF AlertInv
<1>3. Inv => MailsMatchTransitions
  BY DEF AlertInv, OwedInv, At, Pending, Quiet, MailsMatchTransitions, TransitionsMailed
<1> QED
  BY TypeInit, TypeStep, <1>1, <1>2, <1>3, PTL DEF Spec

-------------------------------------------------------------------------------
(* The exceptions *)

(* The exceptions of the properties above are rare: a check that nothing   *)
(* runs beside shares no target, and no counter starts again unless the    *)
(* headers of the web app can make its check raise.                        *)
THEOREM JobNeedsNoException ==
  ASSUME \A b, c \in Checkers : b = c
  PROVE  Spec => [](overlapped = {} /\ restarted \subseteq Malformed)
<1> DEFINE Inv == overlapped = {} /\ restarted \subseteq Malformed
<1>1. Init => Inv
  BY DEF Init
<1>2. TypeInv /\ Inv /\ [Next]_vars => Inv'
  <2> SUFFICES ASSUME TypeInv, Inv, [Next]_vars PROVE Inv'
    OBVIOUS
  <2>1. ASSUME NEW c \in Checkers, NEW t \in Targets, Save(c, t) PROVE Inv'
    <3> PICK new \in Results(t, snap[c][t]) : Write(t, new)
      BY <2>1 DEF Save
    <3>1. snap[c][t] \in Row
      BY DEF TypeInv, TypeOK
    <3>2. new = Raised => t \in Malformed
      <4>1. ASSUME NEW s \in Found, new = Counted(snap[c][t], s) PROVE new # Raised
        BY <3>1, <4>1 DEF Counted, Raised, Row
      <4>2. ASSUME new = Blocked(snap[c][t]) PROVE new # Raised
        BY <3>1, <4>2 DEF Blocked, Raised, Row
      <4>3. ASSUME NEW s, new = Uncounted(s) PROVE new # Raised
        BY <4>3 DEF Uncounted, Raised
      <4> QED
        BY <4>1, <4>2, <4>3 DEF Results
    <3>3. restarted' \subseteq restarted \cup (IF new = Raised THEN {t} ELSE {})
      BY DEF Write
    <3>4. overlapped' = overlapped
      BY <2>1 DEF Save
    <3> QED
      BY <3>2, <3>3, <3>4
  <2>2. ASSUME NEW c \in Checkers, NEW S \in SUBSET Targets, List(c, S) PROVE Inv'
    BY <2>2 DEF List, counts
  <2>3. ASSUME NEW c \in Checkers,
               \/ SaveResult(c) \/ ResultRejected(c) \/ NoAlert(c) \/ Alert(c)
               \/ SendAlerts(c) \/ AlertsFail(c) \/ SendWebhooks(c) \/ Done(c)
        PROVE  Inv'
    BY <2>3 DEF SaveResult, ResultRejected, NoAlert, Alert, SendAlerts, AlertsFail,
                SendWebhooks, Done, ghost, counts, posts
  <2>4. ASSUME (\E t \in Targets : Delete(t) \/ Window(t)) \/ Crash \/ UNCHANGED vars
        PROVE  Inv'
    BY <2>4 DEF Delete, Window, Crash, vars, ghost, counts, posts
  <2> QED
    BY <2>1, <2>2, <2>3, <2>4 DEF Next, Check
<1> QED
  BY TypeInit, TypeStep, <1>1, <1>2, PTL DEF Spec
==============================================================================
