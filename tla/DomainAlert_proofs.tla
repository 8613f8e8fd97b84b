-------------------------- MODULE DomainAlert_proofs --------------------------
(***************************************************************************)
(* Proofs about DomainAlert, for any number of requests, domains and       *)
(* channels, any cooldown and any bounds.                                  *)
(***************************************************************************)
EXTENDS DomainAlert, TLAPS

(* A checker that sends is sending about a domain. *)
AtDomain == \A c \in Checkers : pc[c] = "send" => cur[c] \in Domains

TypeInv == TypeOK /\ AtDomain

(* Ages grow up to Cooldown, where they stay. *)
LEMMA OlderAges ==
  ASSUME NEW a \in Ages
  PROVE  /\ Older(a) \in Ages
         /\ Older(a) >= a
         /\ Older(a) < Cooldown => a < Cooldown
         /\ \A b \in Ages : a <= b => Older(a) <= Older(b)
BY DomainAlertAssumption DEF Older, Ages

(* A checker that leaves keeps nothing of its check. *)
LEMMA LeaveTyped ==
  ASSUME TypeInv, NEW c \in Checkers, Leave(c)
  PROVE  /\ pc' \in [Checkers -> {"idle", "probe", "alert", "send"}]
         /\ seen' \in [Checkers -> [Domains -> Ages]]
         /\ todo' \in [Checkers -> SUBSET Domains]
         /\ cur' \in [Checkers -> Domains \cup {None}]
         /\ at' \in [Checkers -> 1..(Channels + 1)]
         /\ errors' \in [Checkers -> SUBSET AllChannels]
         /\ got' \in [Checkers -> SUBSET AllChannels]
         /\ AtDomain'
<1>1. Cooldown \in Ages /\ 1 \in 1..(Channels + 1)
  BY DomainAlertAssumption DEF Ages
<1> QED
  BY <1>1 DEF Leave, TypeInv, TypeOK, AtDomain

(* Types hold at first ... *)
LEMMA TypeInit == Init => TypeInv
<1>1. Cooldown \in Ages /\ 1 \in 1..(Channels + 1)
  BY DomainAlertAssumption DEF Ages
<1> QED
  BY <1>1 DEF Init, TypeInv, TypeOK, AtDomain, Conditions

(* ... and after every step. *)
LEMMA TypeStep == TypeInv /\ [Next]_vars => TypeInv'
<1> SUFFICES ASSUME TypeInv, [Next]_vars PROVE TypeInv'
  OBVIOUS
<1> USE DEF TypeInv
<1>1. ASSUME NEW c \in Checkers, ListAll(c) PROVE TypeInv'
  BY <1>1 DEF ListAll, table, TypeOK, AtDomain
<1>2. ASSUME NEW c \in Requests, NEW d \in Domains, ListOne(c, d) PROVE TypeInv'
  <2>1. c \in Checkers
    BY DEF Checkers
  <2> QED
    BY <1>2, <2>1 DEF ListOne, table, TypeOK, AtDomain
<1>3. ASSUME NEW c \in Checkers, Probe(c) PROVE TypeInv'
  <2>1. PICK alarms \in SUBSET todo[c] : todo' = [todo EXCEPT ![c] = alarms]
    <3>1. PICK S : S \subseteq todo[c] /\ todo' = [todo EXCEPT ![c] = S]
      BY <1>3 DEF Probe
    <3> QED
      BY <3>1
  <2>2. todo' \in [Checkers -> SUBSET Domains]
    BY <2>1 DEF TypeOK
  <2> QED
    BY <1>3, <2>2 DEF Probe, Release, table, ghost, TypeOK, AtDomain
<1>4. ASSUME NEW c \in Checkers, SaveRejected(c) PROVE TypeInv'
  BY <1>4, LeaveTyped DEF SaveRejected, Release, table, ghost, TypeOK
<1>5. ASSUME NEW c \in Checkers, NEW d \in Domains, Skip(c, d) \/ Send(c, d) PROVE TypeInv'
  <2>1. CASE Skip(c, d)
    BY <2>1 DEF Skip, table, ghost, TypeOK, AtDomain
  <2>2. CASE Send(c, d)
    BY <2>2 DEF Send, table, ghost, TypeOK, AtDomain
  <2> QED
    BY <1>5, <2>1, <2>2
<1>6. ASSUME NEW c \in Checkers, Deliver(c) PROVE TypeInv'
  <2>1. cur[c] \in Domains /\ at[c] \in AllChannels
    BY <1>6 DEF Deliver, TypeOK, AtDomain, AllChannels
  <2>2. 0 \in Ages /\ at[c] + 1 \in 1..(Channels + 1)
    BY <2>1, DomainAlertAssumption DEF Ages, AllChannels
  <2>3. heard' \in [Domains -> [AllChannels -> Ages]]
    BY <1>6, <2>1, <2>2 DEF Deliver, TypeOK
  <2>4. at' \in [Checkers -> 1..(Channels + 1)]
    BY <1>6, <2>2 DEF Deliver, TypeOK
  <2> QED
    BY <1>6, <2>3, <2>4 DEF Deliver, table, TypeOK, AtDomain
<1>7. ASSUME NEW c \in Checkers, DeliverFails(c) PROVE TypeInv'
  <2>1. at[c] \in AllChannels /\ at[c] + 1 \in 1..(Channels + 1)
    BY <1>7, DomainAlertAssumption DEF DeliverFails, TypeOK, AllChannels
  <2>2. cur[c] \in Domains
    BY <1>7 DEF DeliverFails, AtDomain
  <2> QED
    BY <1>7, <2>1, <2>2 DEF DeliverFails, table, TypeOK, AtDomain
<1>8. ASSUME NEW c \in Checkers, Record(c) \/ Report(c) PROVE TypeInv'
  <2>1. 0 \in Ages /\ 1 \in 1..(Channels + 1)
    BY DomainAlertAssumption DEF Ages
  <2>2. since' \in [Domains -> Ages] /\ reached' \in [Domains -> SUBSET AllChannels]
    <3>1. CASE Record(c)
      BY <2>1, <3>1 DEF Record, TypeOK
    <3>2. CASE Report(c)
      BY <3>2 DEF Report, TypeOK
    <3> QED
      BY <1>8, <3>1, <3>2
  <2>3. EndSending(c)
    BY <1>8 DEF Record, Report
  <2>4. excused' \subseteq Domains
    BY <1>8 DEF Record, Report, TypeOK
  <2> QED
    BY <2>1, <2>2, <2>3, <2>4 DEF EndSending, TypeOK, AtDomain
<1>9. ASSUME NEW c \in Checkers, LogRejected(c) \/ Done(c) PROVE TypeInv'
  BY <1>9, LeaveTyped DEF LogRejected, Done, table, ghost, TypeOK
<1>10. ASSUME NEW d \in Domains, Approach(d) \/ Renew(d) \/ Window(d) PROVE TypeInv'
  BY <1>10 DEF Approach, Renew, Window, local, ghost, TypeOK, AtDomain, Conditions
<1>11. ASSUME NEW d \in Domains, DeleteDomain(d) PROVE TypeInv'
  <2>1. Cooldown \in Ages
    BY DomainAlertAssumption DEF Ages
  <2> QED
    BY <1>11, <2>1 DEF DeleteDomain, local, ghost, TypeOK, AtDomain
<1>12. CASE Tick
  BY <1>12, OlderAges DEF Tick, TypeOK, AtDomain
<1>13. CASE Crash
  <2>1. Cooldown \in Ages /\ 1 \in 1..(Channels + 1)
    BY DomainAlertAssumption DEF Ages
  <2> QED
    BY <1>13, <2>1 DEF Crash, table, TypeOK, AtDomain
<1>14. CASE UNCHANGED vars
  BY <1>14 DEF vars, table, local, ghost, TypeOK, AtDomain
<1> QED
  BY <1>1, <1>2, <1>3, <1>4, <1>5, <1>6, <1>7, <1>8, <1>9, <1>10, <1>11, <1>12, <1>13, <1>14
     DEF Next, Check, Alert

(* Types hold with every number of checkers, channels and domains: no      *)
(* failure, deletion or crash in the middle of a sending leaves a checker  *)
(* at a channel or a domain that does not exist.                           *)
THEOREM TypeCorrect == Spec => []TypeOK
<1>1. TypeInv => TypeOK
  BY DEF TypeInv
<1> QED
  BY TypeInit, TypeStep, <1>1, PTL DEF Spec

-------------------------------------------------------------------------------
(* A fresh last_alerted *)

(* A sending has tried the channels before the next one, and each of them  *)
(* has either delivered or is on the list of errors.                       *)
TriedInv ==
  \A c \in Checkers :
    /\ pc[c] = "send" => got[c] \cup errors[c] = 1..(at[c] - 1)
    /\ pc[c] # "send" => at[c] = 1 /\ got[c] = {} /\ errors[c] = {}

LEMMA TriedInit == Init => TriedInv
BY DEF Init, TriedInv

LEMMA TriedStep == TypeInv /\ TriedInv /\ [Next]_vars => TriedInv'
<1> SUFFICES ASSUME TypeInv, TriedInv, [Next]_vars PROVE TriedInv'
  OBVIOUS
<1>a. /\ Channels \in Nat
      /\ pc \in [Checkers -> {"idle", "probe", "alert", "send"}]
      /\ at \in [Checkers -> 1..(Channels + 1)]
      /\ errors \in [Checkers -> SUBSET AllChannels] /\ got \in [Checkers -> SUBSET AllChannels]
  BY DomainAlertAssumption DEF TypeInv, TypeOK
<1>1. ASSUME NEW c \in Checkers, NEW to \in {"probe", "alert"}, pc[c] # "send",
             pc' = [pc EXCEPT ![c] = to], UNCHANGED <<at, errors, got>>
      PROVE  TriedInv'
  BY <1>1, <1>a DEF TriedInv
<1>2. ASSUME NEW c \in Checkers, NEW to \in {"idle", "alert"}, pc' = [pc EXCEPT ![c] = to],
             at' = [at EXCEPT ![c] = 1], errors' = [errors EXCEPT ![c] = {}],
             got' = [got EXCEPT ![c] = {}]
      PROVE  TriedInv'
  BY <1>2, <1>a DEF TriedInv
<1>3. ASSUME NEW c \in Checkers, NEW d \in Domains, Send(c, d) PROVE TriedInv'
  <2>1. got[c] = {} /\ errors[c] = {} /\ at[c] = 1 /\ 1..(1 - 1) = {}
    BY <1>3 DEF Send, TriedInv
  <2> QED
    BY <1>3, <1>a, <2>1 DEF Send, TriedInv
<1>4. ASSUME NEW c \in Checkers, Deliver(c) \/ DeliverFails(c) PROVE TriedInv'
  <2> DEFINE k == at[c]
  <2>1. /\ pc[c] = "send" /\ k \in 1..(Channels + 1) /\ pc' = pc
        /\ got[c] \cup errors[c] = 1..(k - 1) /\ at' = [at EXCEPT ![c] = k + 1]
    BY <1>4, <1>a DEF Deliver, DeliverFails, TriedInv
  <2>2. \A b \in Checkers \ {c} : got'[b] = got[b] /\ errors'[b] = errors[b] /\ at'[b] = at[b]
    BY <1>4, <1>a DEF Deliver, DeliverFails
  <2>3. got'[c] \cup errors'[c] = got[c] \cup errors[c] \cup {k}
    BY <1>4, <1>a DEF Deliver, DeliverFails
  <2>4. at'[c] = k + 1
    BY <1>a, <2>1
  <2>5. 1..((k + 1) - 1) = 1..(k - 1) \cup {k}
    BY <2>1, <1>a
  <2> QED
    BY <2>1, <2>2, <2>3, <2>4, <2>5 DEF TriedInv
<1>5. ASSUME NEW c \in Checkers, ListAll(c) \/ Check(c) PROVE TriedInv'
  <2>1. CASE ListAll(c)
    BY <2>1, <1>1 DEF ListAll
  <2>2. CASE Probe(c)
    BY <2>2, <1>1 DEF Probe
  <2>3. CASE SaveRejected(c) \/ LogRejected(c) \/ Done(c)
    BY <2>3, <1>2 DEF SaveRejected, LogRejected, Done, Leave
  <2>4. CASE \E d \in Domains : Skip(c, d) \/ Send(c, d)
    BY <2>4, <1>3 DEF Skip, TriedInv
  <2>5. CASE Record(c) \/ Report(c)
    BY <2>5, <1>2 DEF Record, Report, EndSending
  <2> QED
    BY <1>4, <1>5, <2>1, <2>2, <2>3, <2>4, <2>5 DEF Check, Alert
<1>6. ASSUME NEW c \in Requests, NEW d \in Domains, ListOne(c, d) PROVE TriedInv'
  <2>1. c \in Checkers
    BY DEF Checkers
  <2> QED
    BY <1>6, <1>1, <2>1 DEF ListOne
<1>7. CASE Crash
  BY <1>7 DEF Crash, TriedInv
<1>8. CASE \/ \E d \in Domains : Approach(d) \/ Renew(d) \/ Window(d) \/ DeleteDomain(d)
           \/ Tick \/ UNCHANGED vars
  BY <1>8 DEF Approach, Renew, Window, DeleteDomain, Tick, vars, local, TriedInv
<1> QED
  BY <1>5, <1>6, <1>7, <1>8 DEF Next

(* A round that went through every channel and met no error has delivered  *)
(* the mail on every channel (Record in alert.py:38-50).                   *)
LEMMA WholeRound ==
  ASSUME TypeInv, TriedInv, NEW c \in Checkers, pc[c] = "send", errors[c] = {}, at[c] > Channels
  PROVE  got[c] = AllChannels
<1>1. at[c] \in 1..(Channels + 1) /\ Channels \in Nat
  BY DomainAlertAssumption DEF TypeInv, TypeOK
<1>2. at[c] - 1 = Channels
  BY <1>1
<1>3. got[c] \cup errors[c] = 1..(at[c] - 1)
  BY DEF TriedInv
<1> QED
  BY <1>2, <1>3 DEF AllChannels

(* For any number of channels, requests and domains: a domain is kept      *)
(* silent for a day only by an alert that every channel has delivered,     *)
(* whichever checks overlapped, failed or were killed while they sent it.  *)
(* What it rests on is that no failure is lost on the way (TriedInv): the  *)
(* list of errors is all that update_last_alerted depends on.              *)
THEOREM SilenceIsEarned == Spec => []SilencedMeansHeard
<1>1. Init => SilencedMeansHeard
  BY DomainAlertAssumption DEF Init, SilencedMeansHeard
<1>2. TypeInv /\ TriedInv /\ SilencedMeansHeard /\ [Next]_vars => SilencedMeansHeard'
  <2> SUFFICES ASSUME TypeInv, TriedInv, SilencedMeansHeard, [Next]_vars
               PROVE  SilencedMeansHeard'
    OBVIOUS
  <2> USE DEF SilencedMeansHeard, TypeInv, TypeOK
  <2>1. CASE UNCHANGED <<rows, since, reached>>
    BY <2>1
  <2>2. ASSUME NEW c \in Checkers, ListAll(c) \/ Check(c), ~Record(c)
        PROVE  UNCHANGED <<rows, since, reached>>
    BY <2>2 DEF ListAll, Check, Probe, SaveRejected, Alert, Skip, Send, Deliver,
                DeliverFails, Report, EndSending, LogRejected, Done, table, ghost
  <2>3. ASSUME NEW c \in Checkers, Record(c) PROVE SilencedMeansHeard'
    <3>1. at[c] > Channels /\ pc[c] = "send" /\ errors[c] = {}
      BY <2>3 DEF Record, EndSending
    <3>2. got[c] = AllChannels
      BY <3>1, WholeRound
    <3>3. /\ rows' = rows
          /\ since' = [since EXCEPT ![cur[c]] = 0]
          /\ reached' = [reached EXCEPT ![cur[c]] = AllChannels]
      BY <2>3, <3>2 DEF Record, EndSending
    <3> QED
      BY <3>3
  <2>4. ASSUME NEW d \in Domains, DeleteDomain(d) PROVE SilencedMeansHeard'
    BY <2>4 DEF DeleteDomain, ghost
  <2>5. CASE Tick
    BY <2>5, OlderAges DEF Tick
  <2>6. CASE \/ \E c \in Requests, d \in Domains : ListOne(c, d)
             \/ \E d \in Domains : Approach(d) \/ Renew(d) \/ Window(d)
             \/ Crash
             \/ UNCHANGED vars
    BY <2>6, <2>1 DEF ListOne, Approach, Renew, Window, Crash, vars, table, ghost
  <2> QED
    BY <2>1, <2>2, <2>3, <2>4, <2>5, <2>6 DEF Next
<1> QED
  BY <1>1, <1>2, TypeInit, TypeStep, TriedInit, TriedStep, PTL DEF Spec

-------------------------------------------------------------------------------
(* The cooldown *)

(* RateLimited is not inductive: that the channels a sending has still to  *)
(* reach have been silent for a day follows from what the check read when  *)
(* it listed the domain.  That age bounds what each channel last delivered *)
(* from below (SeenIsHeard), because the column does (SinceIsHeard) except *)
(* about a domain that is being sent, which is on no other list, because   *)
(* one check at a time has it in hand (HandedOnce).  All this is said of   *)
(* each domain without an excuse, whatever happens to the others.          *)
LocalsInv ==
  \A c \in Checkers :
    /\ pc[c] = "idle" => todo[c] = {}
    /\ pc[c] # "send" => cur[c] = None /\ at[c] = 1 /\ errors[c] = {}
    /\ cur[c] \notin todo[c]

HandedOnce ==
  \A d \in Domains \ excused : \A b, c \in Checkers : InHand(b, d) /\ InHand(c, d) => b = c

SinceIsHeard ==
  \A d \in rows \ excused : (\A c \in Checkers : cur[c] # d) =>
    \A k \in AllChannels : since[d] <= heard[d][k]

SeenIsHeard ==
  \A c \in Checkers : \A d \in todo[c] \ excused, k \in AllChannels : seen[c][d] <= heard[d][k]

SendingOnce ==
  \A c \in Checkers : cur[c] \in Domains \ excused =>
    /\ errors[c] = {}
    /\ \A k \in AllChannels : k >= at[c] => heard[cur[c]][k] = Cooldown

RateInv ==
  TypeInv /\ LocalsInv /\ HandedOnce /\ SinceIsHeard /\ SeenIsHeard /\ SendingOnce

(* The invariant holds at first ... *)
LEMMA RateInit == Init => RateInv
<1> SUFFICES ASSUME Init PROVE RateInv
  OBVIOUS
<1>1. TypeInv
  BY TypeInit
<1>2. None \notin Domains
  BY DomainAlertAssumption
<1> QED
  BY <1>1, <1>2, DomainAlertAssumption
     DEF Init, RateInv, LocalsInv, HandedOnce, InHand, SinceIsHeard, SeenIsHeard, SendingOnce

(* A checker that leaves keeps what concerns checkers.                     *)
LEMMA LeaveBounded ==
  ASSUME RateInv, NEW c \in Checkers, Leave(c), UNCHANGED <<rows, since, heard, excused>>,
         cur[c] \notin rows
  PROVE  LocalsInv' /\ HandedOnce' /\ SinceIsHeard' /\ SeenIsHeard' /\ SendingOnce'
<1>1. /\ pc' = [pc EXCEPT ![c] = "idle"] /\ todo' = [todo EXCEPT ![c] = {}]
      /\ cur' = [cur EXCEPT ![c] = None] /\ at' = [at EXCEPT ![c] = 1]
      /\ errors' = [errors EXCEPT ![c] = {}]
      /\ seen' = [seen EXCEPT ![c] = [d \in Domains |-> Cooldown]]
  BY DEF Leave
<1>2. /\ pc \in [Checkers -> {"idle", "probe", "alert", "send"}]
      /\ todo \in [Checkers -> SUBSET Domains] /\ cur \in [Checkers -> Domains \cup {None}]
      /\ at \in [Checkers -> 1..(Channels + 1)] /\ errors \in [Checkers -> SUBSET AllChannels]
      /\ seen \in [Checkers -> [Domains -> Ages]] /\ None \notin Domains
  BY DomainAlertAssumption DEF RateInv, TypeInv, TypeOK
<1>3. \A b \in Checkers : /\ todo'[b] \subseteq todo[b]
                          /\ b # c => /\ pc'[b] = pc[b] /\ todo'[b] = todo[b] /\ cur'[b] = cur[b]
                                      /\ at'[b] = at[b] /\ errors'[b] = errors[b] /\ seen'[b] = seen[b]
  BY <1>1, <1>2
<1>4. pc'[c] = "idle" /\ todo'[c] = {} /\ cur'[c] = None /\ at'[c] = 1 /\ errors'[c] = {}
  BY <1>1, <1>2
<1>5. LocalsInv'
  BY <1>3, <1>4 DEF RateInv, LocalsInv
<1>6. HandedOnce'
  BY <1>2, <1>3, <1>4 DEF RateInv, HandedOnce, InHand
<1>7. SinceIsHeard'
  BY <1>3, <1>4 DEF RateInv, SinceIsHeard
<1>8. SeenIsHeard'
  BY <1>3, <1>4 DEF RateInv, SeenIsHeard
<1>9. SendingOnce'
  BY <1>2, <1>3, <1>4 DEF RateInv, SendingOnce
<1> QED
  BY <1>5, <1>6, <1>7, <1>8, <1>9

(* A check lists domains: what others have in hand is excused, and of the  *)
(* rest the column it reads is a bound.                                    *)
LEMMA ListBounded ==
  ASSUME RateInv, NEW c \in Checkers, NEW S \in SUBSET rows,
         pc[c] = "idle", pc' = [pc EXCEPT ![c] = "probe"],
         seen' = [seen EXCEPT ![c] = since], todo' = [todo EXCEPT ![c] = S],
         excused' = excused \cup {d \in S : OthersAt(c, d)},
         UNCHANGED <<rows, since, heard, cur, at, errors>>
  PROVE  LocalsInv' /\ HandedOnce' /\ SinceIsHeard' /\ SeenIsHeard' /\ SendingOnce'
<1>1. /\ pc \in [Checkers -> {"idle", "probe", "alert", "send"}]
      /\ todo \in [Checkers -> SUBSET Domains] /\ cur \in [Checkers -> Domains \cup {None}]
      /\ seen \in [Checkers -> [Domains -> Ages]] /\ None \notin Domains /\ rows \subseteq Domains
  BY DomainAlertAssumption DEF RateInv, TypeInv, TypeOK
<1>2. \A b \in Checkers : b # c => pc'[b] = pc[b] /\ todo'[b] = todo[b] /\ seen'[b] = seen[b]
  BY <1>1
<1>3. pc'[c] = "probe" /\ todo'[c] = S /\ seen'[c] = since /\ todo[c] = {} /\ cur[c] = None /\ at[c] = 1
  BY <1>1 DEF RateInv, LocalsInv
<1>4. \A d \in S \ excused', b \in Checkers : b # c => ~InHand(b, d)
  BY DEF OthersAt
<1>5. LocalsInv'
  BY <1>1, <1>2, <1>3 DEF RateInv, LocalsInv
<1>6. HandedOnce'
  <2> SUFFICES ASSUME NEW d \in Domains \ excused', NEW a \in Checkers, NEW b \in Checkers,
                      InHand(a, d)', InHand(b, d)'
               PROVE  a = b
    BY DEF HandedOnce
  <2>1. \A e \in Checkers : InHand(e, d)' => (IF e = c THEN d \in S ELSE InHand(e, d))
    BY <1>1, <1>2, <1>3 DEF InHand
  <2> QED
    BY <2>1, <1>4 DEF RateInv, HandedOnce
<1>7. SinceIsHeard'
  BY DEF RateInv, SinceIsHeard
<1>8. SeenIsHeard'
  <2>1. \A d \in S \ excused', k \in AllChannels : since[d] <= heard[d][k]
    <3>1. \A d \in S \ excused', b \in Checkers : cur[b] # d
      BY <1>1, <1>3, <1>4 DEF InHand
    <3> QED
      BY <3>1 DEF RateInv, SinceIsHeard
  <2> QED
    BY <1>2, <1>3, <2>1 DEF RateInv, SeenIsHeard
<1>9. SendingOnce'
  BY DEF RateInv, SendingOnce
<1> QED
  BY <1>5, <1>6, <1>7, <1>8, <1>9

(* ... and after every step. *)
LEMMA RateStep == RateInv /\ [Next]_vars => RateInv'
<1> SUFFICES ASSUME RateInv, [Next]_vars PROVE RateInv'
  OBVIOUS
<1> DEFINE Kept == (LocalsInv /\ HandedOnce /\ SinceIsHeard /\ SeenIsHeard /\ SendingOnce)'
<1>a. TypeInv /\ TypeInv'
  BY TypeStep DEF RateInv
<1>b. LocalsInv /\ HandedOnce /\ SinceIsHeard /\ SeenIsHeard /\ SendingOnce
  BY DEF RateInv
<1>c. /\ rows \subseteq Domains /\ excused \subseteq Domains /\ None \notin Domains
      /\ pc \in [Checkers -> {"idle", "probe", "alert", "send"}]
      /\ todo \in [Checkers -> SUBSET Domains] /\ cur \in [Checkers -> Domains \cup {None}]
      /\ at \in [Checkers -> 1..(Channels + 1)] /\ errors \in [Checkers -> SUBSET AllChannels]
      /\ since \in [Domains -> Ages] /\ seen \in [Checkers -> [Domains -> Ages]]
      /\ heard \in [Domains -> [AllChannels -> Ages]]
  BY <1>a, DomainAlertAssumption DEF TypeInv, TypeOK
<1>d. Kept => RateInv'
  BY <1>a DEF RateInv
<1>1. CASE UNCHANGED <<rows, since, pc, seen, todo, cur, at, errors, heard, excused>>
  BY <1>1, <1>a, <1>b
     DEF RateInv, LocalsInv, HandedOnce, InHand, SinceIsHeard, SeenIsHeard, SendingOnce
<1>2. ASSUME NEW c \in Checkers, ListAll(c) PROVE Kept
  BY <1>2, ListBounded DEF ListAll, table
<1>3. ASSUME NEW c \in Requests, NEW d \in Domains, ListOne(c, d) PROVE Kept
  <2>1. c \in Checkers /\ {d} \in SUBSET rows
    BY <1>3 DEF Checkers, ListOne
  <2>2. excused' = excused \cup {e \in {d} : OthersAt(c, e)}
    BY <1>3 DEF ListOne
  <2> QED
    BY <1>3, <2>1, <2>2, ListBounded DEF ListOne, table
<1>4. ASSUME NEW c \in Checkers, Probe(c) PROVE Kept
  <2>1. PICK S : S \subseteq todo[c] /\ todo' = [todo EXCEPT ![c] = S]
    BY <1>4 DEF Probe
  <2>2. \A b \in Checkers : todo'[b] \subseteq todo[b]
    BY <2>1, <1>c
  <2>3. /\ pc[c] = "probe" /\ pc' = [pc EXCEPT ![c] = "alert"]
        /\ UNCHANGED <<rows, since, seen, cur, at, errors, heard, excused>>
    BY <1>4 DEF Probe, table, ghost
  <2>4. LocalsInv'
    BY <1>b, <1>c, <2>2, <2>3 DEF LocalsInv
  <2>5. HandedOnce'
    BY <1>b, <2>2, <2>3 DEF HandedOnce, InHand
  <2>6. SinceIsHeard' /\ SendingOnce'
    BY <1>b, <2>3 DEF SinceIsHeard, SendingOnce
  <2>7. SeenIsHeard'
    BY <1>b, <2>2, <2>3 DEF SeenIsHeard
  <2> QED
    BY <2>4, <2>5, <2>6, <2>7
<1>5. ASSUME NEW c \in Checkers, SaveRejected(c) \/ Done(c) \/ LogRejected(c) PROVE Kept
  <2>1. Leave(c) /\ UNCHANGED <<rows, since, heard, excused>>
    BY <1>5 DEF SaveRejected, Done, LogRejected, table, ghost
  <2>2. cur[c] \notin rows
    BY <1>5, <1>b, <1>c DEF SaveRejected, Done, LogRejected, LocalsInv
  <2> QED
    BY <2>1, <2>2, LeaveBounded
<1>6. ASSUME NEW c \in Checkers, NEW d \in Domains, Skip(c, d) PROVE Kept
  <2>1. /\ pc[c] = "alert" /\ todo' = [todo EXCEPT ![c] = todo[c] \ {d}]
        /\ UNCHANGED <<rows, since, pc, seen, cur, at, errors, heard, excused>>
    BY <1>6 DEF Skip, table, ghost
  <2>2. \A b \in Checkers : todo'[b] \subseteq todo[b]
    BY <2>1, <1>c
  <2>3. LocalsInv' /\ HandedOnce'
    BY <1>b, <1>c, <2>1, <2>2 DEF LocalsInv, HandedOnce, InHand
  <2>4. SinceIsHeard' /\ SeenIsHeard' /\ SendingOnce'
    BY <1>b, <2>1, <2>2 DEF SinceIsHeard, SeenIsHeard, SendingOnce
  <2> QED
    BY <2>3, <2>4
<1>7. ASSUME NEW c \in Checkers, NEW d \in Domains, Send(c, d) PROVE Kept
  <2>1. /\ pc[c] = "alert" /\ d \in todo[c]
        /\ pc' = [pc EXCEPT ![c] = "send"]
        /\ todo' = [todo EXCEPT ![c] = todo[c] \ {d}]
        /\ cur' = [cur EXCEPT ![c] = d]
        /\ UNCHANGED <<rows, since, seen, at, errors, heard, excused>>
    BY <1>7 DEF Send, table, ghost
  <2>2. cur[c] = None /\ cur'[c] = d /\ todo'[c] = todo[c] \ {d} /\ pc'[c] = "send"
    BY <1>b, <1>c, <2>1 DEF LocalsInv
  <2>3. \A b \in Checkers : b # c => pc'[b] = pc[b] /\ todo'[b] = todo[b] /\ cur'[b] = cur[b]
    BY <1>c, <2>1
  <2>4. d \notin excused => \A k \in AllChannels : heard[d][k] = Cooldown
    <3>1. seen[c][d] \in Ages /\ ~(seen[c][d] < Cooldown)
      BY <1>7, <1>c DEF Send, Silenced
    <3>2. seen[c][d] = Cooldown
      BY <3>1, DomainAlertAssumption DEF Ages
    <3> QED
      BY <1>b, <1>c, <2>1, <3>2, DomainAlertAssumption DEF SeenIsHeard, Ages
  <2>5. LocalsInv'
    BY <1>b, <2>1, <2>2, <2>3 DEF LocalsInv
  <2>6. HandedOnce'
    <3>1. \A e \in Domains, b \in Checkers : InHand(b, e)' => InHand(b, e)
      BY <2>1, <2>2, <2>3 DEF InHand
    <3> QED
      BY <1>b, <2>1, <3>1 DEF HandedOnce
  <2>7. SinceIsHeard'
    <3>1. \A e \in Domains : (\A b \in Checkers : cur'[b] # e) => (\A b \in Checkers : cur[b] # e)
      BY <1>c, <2>2, <2>3
    <3> QED
      BY <1>b, <1>c, <2>1, <3>1 DEF SinceIsHeard
  <2>8. SeenIsHeard'
    BY <1>b, <2>1, <2>2, <2>3 DEF SeenIsHeard
  <2>9. SendingOnce'
    <3>1. errors[c] = {}
      BY <1>b, <2>1 DEF LocalsInv
    <3> QED
      BY <1>b, <2>1, <2>2, <2>3, <2>4, <3>1 DEF SendingOnce
  <2> QED
    BY <2>5, <2>6, <2>7, <2>8, <2>9
<1>8. ASSUME NEW c \in Checkers, Deliver(c) PROVE Kept
  <2> DEFINE d == cur[c]
             k == at[c]
  <2>1. /\ d \in Domains /\ k \in AllChannels
        /\ heard' = [heard EXCEPT ![d][k] = 0]
        /\ at' = [at EXCEPT ![c] = k + 1] /\ pc[c] = "send"
        /\ UNCHANGED <<rows, since, pc, seen, todo, cur, errors, excused>>
    BY <1>8, <1>a, <1>c DEF Deliver, TypeInv, AtDomain, AllChannels, table
  <2>2. \A e \in Domains \ {d} : heard'[e] = heard[e]
    BY <1>c, <2>1
  <2>3. \A l \in AllChannels \ {k} : heard'[d][l] = heard[d][l]
    BY <1>c, <2>1
  <2>4. \A b \in Checkers : b # c => at'[b] = at[b]
    BY <1>c, <2>1
  <2>5. d \notin excused => \A b \in Checkers : d \notin todo[b] /\ (b # c => cur[b] # d)
    BY <1>b, <2>1 DEF HandedOnce, InHand, LocalsInv
  <2>6. LocalsInv'
    BY <1>b, <2>1, <2>4 DEF LocalsInv
  <2>7. HandedOnce'
    BY <1>b, <2>1 DEF HandedOnce, InHand
  <2>8. SinceIsHeard'
    BY <1>b, <1>c, <2>1, <2>2 DEF SinceIsHeard
  <2>9. SeenIsHeard'
    BY <1>b, <1>c, <2>1, <2>2, <2>5 DEF SeenIsHeard
  <2>10. SendingOnce'
    <3>1. \A l \in AllChannels : l >= k + 1 => l >= k /\ l # k
      BY <2>1 DEF AllChannels
    <3>2. at'[c] = k + 1
      BY <1>c, <2>1
    <3>3. cur[c] \in Domains \ excused => errors'[c] = {} /\ \A l \in AllChannels : l >= at'[c] => heard'[d][l] = Cooldown
      BY <1>b, <2>1, <2>3, <3>1, <3>2 DEF SendingOnce
    <3>4. \A b \in Checkers : b # c /\ cur[b] \in Domains \ excused => cur[b] # d
      BY <2>5
    <3> QED
      BY <1>b, <2>1, <2>2, <2>4, <3>3, <3>4 DEF SendingOnce
  <2> QED
    BY <2>6, <2>7, <2>8, <2>9, <2>10
<1>9. ASSUME NEW c \in Checkers, DeliverFails(c) PROVE Kept
  <2>1. /\ pc[c] = "send" /\ excused' = excused \cup {cur[c]}
        /\ at' = [at EXCEPT ![c] = at[c] + 1] /\ errors' = [errors EXCEPT ![c] = errors[c] \cup {at[c]}]
        /\ UNCHANGED <<rows, since, pc, seen, todo, cur, heard>>
    BY <1>9 DEF DeliverFails, table
  <2>2. \A b \in Checkers : b # c => at'[b] = at[b] /\ errors'[b] = errors[b]
    BY <1>c, <2>1
  <2>3. LocalsInv' /\ HandedOnce'
    BY <1>b, <2>1, <2>2 DEF LocalsInv, HandedOnce, InHand
  <2>4. SinceIsHeard' /\ SeenIsHeard'
    BY <1>b, <2>1 DEF SinceIsHeard, SeenIsHeard
  <2>5. SendingOnce'
    BY <1>b, <2>1, <2>2 DEF SendingOnce
  <2> QED
    BY <2>3, <2>4, <2>5
<1>10. ASSUME NEW c \in Checkers, Record(c) \/ Report(c) PROVE Kept
  <2>0. PICK d \in Domains : d = cur[c]
    BY <1>10, <1>c DEF Record, Report, EndSending
  <2>1. /\ pc[c] = "send" /\ cur[c] = d /\ d \in rows
        /\ pc' = [pc EXCEPT ![c] = "alert"] /\ cur' = [cur EXCEPT ![c] = None]
        /\ at' = [at EXCEPT ![c] = 1] /\ errors' = [errors EXCEPT ![c] = {}]
        /\ UNCHANGED <<rows, seen, todo, heard>>
    BY <1>10, <2>0 DEF Record, Report, EndSending
  <2>2. \A b \in Checkers : b # c =>
          pc'[b] = pc[b] /\ cur'[b] = cur[b] /\ at'[b] = at[b] /\ errors'[b] = errors[b]
    BY <1>c, <2>1
  <2>3. pc'[c] = "alert" /\ cur'[c] = None /\ at'[c] = 1 /\ errors'[c] = {}
    BY <1>c, <2>1
  <2>4. /\ d \notin excused' => since'[d] = 0 /\ \A b \in Checkers : ~InHand(b, d)'
        /\ \A e \in Domains \ {d} : since'[e] = since[e] /\ (e \in excused' <=> e \in excused)
    <3>1. CASE Record(c)
      <4>1. /\ since' = [since EXCEPT ![d] = 0]
            /\ excused' = IF OthersAt(c, d) THEN excused ELSE excused \ {d}
        BY <3>1, <2>1 DEF Record
      <4>2. d \notin excused => ~OthersAt(c, d)
        BY <1>b, <2>1 DEF HandedOnce, OthersAt, InHand
      <4>3. ~OthersAt(c, d) => \A b \in Checkers : ~InHand(b, d)'
        <5>1. d \notin todo[c]
          BY <1>b, <2>1 DEF LocalsInv
        <5> QED
          BY <1>c, <2>1, <2>2, <2>3, <5>1 DEF OthersAt, InHand
      <4> QED
        BY <1>c, <2>1, <4>1, <4>2, <4>3
    <3>2. CASE Report(c)
      <4>1. d \in excused
        BY <1>b, <2>1, <3>2 DEF Report, SendingOnce
      <4> QED
        BY <3>2, <4>1 DEF Report
    <3> QED
      BY <1>10, <3>1, <3>2
  <2>5. LocalsInv'
    BY <1>b, <1>c, <2>1, <2>2, <2>3 DEF LocalsInv
  <2>6. HandedOnce'
    <3>1. \A e \in Domains, b \in Checkers : InHand(b, e)' => InHand(b, e)
      BY <1>c, <2>1, <2>2, <2>3 DEF InHand
    <3> QED
      BY <1>b, <2>4, <3>1 DEF HandedOnce
  <2>7. SinceIsHeard'
    <3> SUFFICES ASSUME NEW e \in rows \ excused', \A b \in Checkers : cur'[b] # e, NEW l \in AllChannels
                 PROVE  since'[e] <= heard[e][l]
      BY <2>1 DEF SinceIsHeard
    <3>1. CASE e = d
      BY <1>c, <2>1, <2>4, <3>1, DomainAlertAssumption DEF Ages
    <3>2. CASE e # d
      <4>1. \A b \in Checkers : cur[b] # e
        BY <2>1, <2>2, <3>2
      <4> QED
        BY <1>b, <1>c, <2>4, <3>2, <4>1 DEF SinceIsHeard
    <3> QED
      BY <3>1, <3>2
  <2>8. SeenIsHeard'
    <3>1. \A b \in Checkers : \A e \in todo[b] \ excused' : e \notin excused
      BY <1>c, <2>1, <2>4 DEF InHand
    <3> QED
      BY <1>b, <2>1, <3>1 DEF SeenIsHeard
  <2>9. SendingOnce'
    <3>1. \A b \in Checkers : cur'[b] \in Domains \ excused' => b # c /\ cur[b] \notin excused
      BY <1>c, <2>1, <2>2, <2>3, <2>4 DEF InHand
    <3> QED
      BY <1>b, <1>c, <2>1, <2>2, <3>1 DEF SendingOnce
  <2> QED
    BY <2>5, <2>6, <2>7, <2>8, <2>9
<1>11. ASSUME NEW e \in Domains, DeleteDomain(e) PROVE Kept
  <2>1. /\ rows' = rows \ {e} /\ since' = [since EXCEPT ![e] = Cooldown]
        /\ UNCHANGED <<pc, seen, todo, cur, at, errors, heard, excused>>
    BY <1>11 DEF DeleteDomain, local, ghost
  <2>2. SinceIsHeard'
    BY <1>b, <1>c, <2>1 DEF SinceIsHeard
  <2> QED
    BY <1>b, <2>1, <2>2 DEF LocalsInv, HandedOnce, InHand, SeenIsHeard, SendingOnce
<1>12. CASE Tick
  <2>1. /\ since' = [d \in Domains |-> Older(since[d])]
        /\ seen' = [c \in Checkers |-> [d \in Domains |-> Older(seen[c][d])]]
        /\ heard' = [d \in Domains |-> [k \in AllChannels |-> Older(heard[d][k])]]
        /\ UNCHANGED <<rows, pc, todo, cur, at, errors>>
    BY <1>12 DEF Tick
  <2>2. Older(Cooldown) = Cooldown
    BY DomainAlertAssumption DEF Older
  <2>3. \A d \in Domains, k \in AllChannels : since[d] <= heard[d][k] => since'[d] <= heard'[d][k]
    BY <1>c, <2>1, OlderAges
  <2>4. \A c \in Checkers, d \in Domains, k \in AllChannels :
          seen[c][d] <= heard[d][k] => seen'[c][d] <= heard'[d][k]
    BY <1>c, <2>1, OlderAges
  <2>5. \A d \in Domains, k \in AllChannels : heard[d][k] = Cooldown => heard'[d][k] = Cooldown
    BY <2>1, <2>2
  <2>6. excused' \subseteq excused
    BY <1>12 DEF Tick
  <2>7. \A d \in excused \ excused', c \in Checkers : d \notin todo[c] /\ cur[c] # d
    <3>1. \A d \in excused : (\E c \in Checkers : InHand(c, d)) => d \in excused'
      BY <1>12 DEF Tick
    <3> QED
      BY <3>1 DEF InHand
  <2>8. \A d \in excused \ excused', k \in AllChannels : since'[d] <= heard'[d][k]
    <3>1. \A d \in excused \ excused', k \in AllChannels : ~(heard'[d][k] < Cooldown)
      BY <1>12 DEF Tick
    <3>2. \A d \in Domains, k \in AllChannels : since'[d] \in 0..Cooldown /\ heard'[d][k] \in 0..Cooldown
      BY <1>a DEF TypeInv, TypeOK, Ages
    <3> QED
      BY <1>c, <3>1, <3>2, DomainAlertAssumption
  <2>9. LocalsInv'
    BY <1>b, <2>1 DEF LocalsInv
  <2>10. HandedOnce'
    BY <1>b, <2>1, <2>7 DEF HandedOnce, InHand
  <2>11. SinceIsHeard'
    BY <1>b, <1>c, <2>1, <2>3, <2>8 DEF SinceIsHeard
  <2>12. SeenIsHeard'
    <3>1. \A c \in Checkers : \A d \in todo[c] \ excused' : d \in Domains /\ d \notin excused
      BY <1>c, <2>7
    <3> QED
      BY <1>b, <2>1, <2>4, <3>1 DEF SeenIsHeard
  <2>13. SendingOnce'
    <3>1. \A c \in Checkers : cur[c] \in Domains \ excused' => cur[c] \notin excused
      BY <2>7
    <3>2. UNCHANGED <<cur, at, errors>>
      BY <2>1
    <3> QED
      BY <1>b, <2>5, <3>1, <3>2 DEF SendingOnce
  <2> QED
    BY <2>9, <2>10, <2>11, <2>12, <2>13, <1>d
<1>13. CASE Crash
  <2>1. /\ pc' = [c \in Checkers |-> "idle"] /\ todo' = [c \in Checkers |-> {}]
        /\ cur' = [c \in Checkers |-> None] /\ at' = [c \in Checkers |-> 1]
        /\ errors' = [c \in Checkers |-> {}]
        /\ UNCHANGED <<rows, since, heard>>
        /\ excused' = excused \cup {d \in Domains : \E c \in Checkers : cur[c] = d}
    BY <1>13 DEF Crash, table
  <2>2. LocalsInv'
    BY <2>1 DEF LocalsInv
  <2>3. HandedOnce' /\ SeenIsHeard' /\ SendingOnce'
    <3>1. \A c \in Checkers : todo'[c] = {} /\ cur'[c] \notin Domains
      BY <1>c, <2>1
    <3> QED
      BY <3>1 DEF HandedOnce, InHand, SeenIsHeard, SendingOnce
  <2>4. SinceIsHeard'
    BY <1>b, <1>c, <2>1 DEF SinceIsHeard
  <2> QED
    BY <2>2, <2>3, <2>4, <1>d
<1>14. CASE \/ \E d \in Domains : Approach(d) \/ Renew(d) \/ Window(d)
            \/ UNCHANGED vars
  BY <1>14, <1>1 DEF Approach, Renew, Window, vars, table, local, ghost
<1> QED
  BY <1>2, <1>3, <1>4, <1>5, <1>6, <1>7, <1>8, <1>9, <1>10, <1>11, <1>12, <1>13, <1>14, <1>d
     DEF Next, Check, Alert

(* README.md: "Alerts are rate-limited to once per 24 hours per            *)
(* domain/webapp".  However many requests check beside the job, whatever   *)
(* fails, dies or is deleted: about a domain without an excuse no channel  *)
(* delivers twice within the cooldown.                                     *)
THEOREM CooldownIsKept == Spec => RateLimited
<1>1. RateInv => \A c \in Checkers :
        Deliver(c) /\ cur[c] \notin excused => heard[cur[c]][at[c]] = Cooldown
  <2> SUFFICES ASSUME RateInv, NEW c \in Checkers, Deliver(c), cur[c] \notin excused
               PROVE  heard[cur[c]][at[c]] = Cooldown
    OBVIOUS
  <2>1. cur[c] \in Domains /\ at[c] \in AllChannels
    BY DEF Deliver, RateInv, TypeInv, TypeOK, AtDomain, AllChannels
  <2>2. at[c] >= at[c]
    BY <2>1 DEF AllChannels
  <2> QED
    BY <2>1, <2>2 DEF RateInv, SendingOnce
<1> QED
  BY <1>1, RateInit, RateStep, PTL DEF Spec, RateLimited

(* The job alone, with deliveries that succeed and no crash, needs no      *)
(* excuse: it repeats no alert within the cooldown, through deletions,     *)
(* renewals and maintenance windows.                                       *)
Unexcused == Requests = {} /\ failures = 0 /\ crashes = 0 => excused = {}

THEOREM JobNeedsNoExcuse == Spec => []Unexcused
<1>1. Init => Unexcused
  BY DEF Init, Unexcused
<1>2. TypeInv /\ Unexcused /\ [Next]_vars => Unexcused'
  <2> SUFFICES ASSUME TypeInv, Unexcused, [Next]_vars, Requests = {}, failures' = 0, crashes' = 0
               PROVE  excused' = {}
    BY DEF Unexcused
  <2>1. \A b, c \in Checkers : b = c
    BY DEF Checkers
  <2>2. failures \in Nat /\ crashes \in Nat
    BY DEF TypeInv, TypeOK
  <2>3. CASE UNCHANGED <<excused, failures, crashes>>
    BY <2>3 DEF Unexcused
  <2>4. ASSUME NEW c \in Checkers, ListAll(c) PROVE excused' = {}
    BY <2>1, <2>4 DEF ListAll, OthersAt, Unexcused
  <2>5. ASSUME NEW c \in Checkers, DeliverFails(c) \/ Crash PROVE FALSE
    BY <2>2, <2>5 DEF DeliverFails, Crash
  <2>6. ASSUME NEW c \in Checkers, Record(c) PROVE excused' = {}
    BY <2>6 DEF Record, EndSending, Unexcused
  <2>7. CASE Tick
    BY <2>7 DEF Tick, Unexcused
  <2>8. ASSUME NEW c \in Checkers,
               \/ Probe(c) \/ SaveRejected(c) \/ \E d \in Domains : Skip(c, d) \/ Send(c, d)
               \/ Deliver(c) \/ Report(c) \/ LogRejected(c) \/ Done(c)
        PROVE  UNCHANGED <<excused, failures, crashes>>
    BY <2>8 DEF Probe, SaveRejected, Skip, Send, Deliver, Report, EndSending, LogRejected, Done, ghost
  <2>9. CASE \/ \E d \in Domains : Approach(d) \/ Renew(d) \/ Window(d) \/ DeleteDomain(d)
             \/ UNCHANGED vars
    BY <2>9, <2>3 DEF Approach, Renew, Window, DeleteDomain, vars, ghost
  <2>10. Sched \in Checkers
    BY DEF Checkers
  <2> QED
    BY <2>3, <2>4, <2>5, <2>6, <2>7, <2>8, <2>9, <2>10 DEF Next, Check, Alert
<1> QED
  BY <1>1, <1>2, TypeInit, TypeStep, PTL DEF Spec
===============================================================================
