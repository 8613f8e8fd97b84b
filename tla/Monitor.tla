-------------------------------- MODULE Monitor --------------------------------
(***************************************************************************)
(* Checks of web apps, DNS records and ports: the three follow one         *)
(* pattern.  A check reads rows, probes their targets, and then, for one   *)
(* target after the other, saves the result and sends an alert if the      *)
(* status made a transition.  Counters and transition are both computed    *)
(* from the row as it was read before the probe, and no lock keeps checks  *)
(* of one target apart: the scheduled job, the manual check and the bulk   *)
(* checks overlap.                                                         *)
(*                                                                         *)
(* What only web apps have: a status 'slow' that counts as up, counters,   *)
(* and a history in webapp_results with a foreign key that rejects results *)
(* of a deleted row.                                                       *)
(***************************************************************************)
EXTENDS Naturals, FiniteSets

CONSTANTS
  Checkers,    \* the scheduler's job and the request threads
  Targets,     \* rows of webapps, dns_checks and port_checks at the start
  WebApps,     \* ... those of webapps
  Malformed,   \* web apps with headers that can make a check raise
  None,        \* no target
  MaxChecks,   \* bound: a target with this many checks is not listed again
  MaxFailures, \* bound: deliveries that fail
  MaxCrashes   \* bound: crashes of the process

ASSUME MonitorAssumption ==
  /\ WebApps \subseteq Targets
  /\ Malformed \subseteq WebApps
  /\ None \notin Targets
  /\ IsFiniteSet(Checkers)
  /\ MaxChecks \in Nat
  /\ MaxFailures \in Nat
  /\ MaxCrashes \in Nat

VARIABLES
  rows,      \* ids in the table
  row,       \* status and counters of each id
  muted,     \* targets a maintenance window covers
  pc,        \* where each checker is
  snap,      \* the rows as it read them
  todo,      \* targets it has still to save
  cur,       \* the target it is at
  found,     \* the status it found there
  entries,   \* rows of webapp_results of each target
  checks,    \* checks saved since the target was added
  good,      \* ... that found it up
  restarted, \* targets whose counters a check that raised set to 0
  dropped,   \* saved checks whose result went with the process
  owed,      \* the transition of the row no mail told of yet, "none", or
             \* "lost" when its delivery failed or the process died first
  unfounded, \* <<target, status>> of mails about no transition of the row
  unposted,  \* the transition of the row no webhook was told of yet, or "none"
  repeats,   \* <<target, status>> of posts to a webhook about none
  overlapped, \* targets two checks had in hand at once
  failures, crashes

table == <<rows, row, muted, entries>>
local == <<pc, snap, todo, cur, found>>
counts == <<checks, good, restarted, dropped>>
posts == <<unposted, repeats>>
ghost == <<counts, owed, unfounded, posts, overlapped>>
vars == <<table, local, ghost, failures, crashes>>

Up == {"up", "slow"}
Found == Up \cup {"down"}
Status == Found \cup {"unknown"}

Row == [status : Status, total : Nat, successful : Nat, uptime : Nat, downtime : Nat]
NewRow == [status |-> "unknown", total |-> 0, successful |-> 0, uptime |-> 0, downtime |-> 0]

TypeOK ==
  /\ rows \subseteq Targets
  /\ row \in [Targets -> Row]
  /\ muted \subseteq Targets
  /\ pc \in [Checkers -> {"idle", "save", "history", "alert", "mail", "webhooks"}]
  /\ snap \in [Checkers -> [Targets -> Row]]
  /\ todo \in [Checkers -> SUBSET Targets]
  /\ cur \in [Checkers -> Targets \cup {None}]
  /\ found \in [Checkers -> Status]
  /\ entries \in [Targets -> Nat]
  /\ checks \in [Targets -> Nat]
  /\ good \in [Targets -> Nat]
  /\ restarted \subseteq Targets
  /\ dropped \in [Targets -> Nat]
  /\ owed \in [Targets -> {"none", "up", "down", "lost"}]
  /\ overlapped \subseteq Targets
  /\ unfounded \subseteq Targets \X {"up", "down"}
  /\ unposted \in [Targets -> {"none", "up", "down"}]
  /\ repeats \subseteq Targets \X {"up", "down"}
  /\ failures \in Nat
  /\ crashes \in Nat

Init ==
  /\ rows = Targets
  /\ row = [t \in Targets |-> NewRow]
  /\ muted = {}
  /\ pc = [c \in Checkers |-> "idle"]
  /\ snap = [c \in Checkers |-> [t \in Targets |-> NewRow]]
  /\ todo = [c \in Checkers |-> {}]
  /\ cur = [c \in Checkers |-> None]
  /\ found = [c \in Checkers |-> "unknown"]
  /\ entries = [t \in Targets |-> 0]
  /\ checks = [t \in Targets |-> 0]
  /\ good = [t \in Targets |-> 0]
  /\ restarted = {}
  /\ dropped = [t \in Targets |-> 0]
  /\ owed = [t \in Targets |-> "none"]
  /\ unfounded = {}
  /\ unposted = [t \in Targets |-> "none"]
  /\ repeats = {}
  /\ overlapped = {}
  /\ failures = 0
  /\ crashes = 0

-------------------------------------------------------------------------------
(* The probe's result *)

(* Mutant: an up check does not end the streak of failures. *)
CountedWithoutReset(old, s) ==
  [status |-> s, total |-> old.total + 1,
   successful |-> IF s = "up" THEN old.successful + 1 ELSE old.successful,
   uptime |-> IF s = "up" THEN old.uptime + 1 ELSE 0,
   downtime |-> IF s = "up" THEN old.downtime ELSE old.downtime + 1]

(* Mutant: the repeated attempt is counted, too. *)
CountedPerAttempt(old, s) ==
  [status |-> s, total |-> old.total + IF s = "down" THEN 2 ELSE 1,
   successful |-> IF s = "up" THEN old.successful + 1 ELSE old.successful,
   uptime |-> IF s = "up" THEN old.uptime + 1 ELSE 0,
   downtime |-> IF s = "up" THEN 0 ELSE old.downtime + 1]

(* check_webapp counts on from the row it was given; 'slow' counts as a    *)
(* check that did not succeed.                                             *)
Counted(old, s) ==
  [status |-> s, total |-> old.total + 1,
   successful |-> IF s = "up" THEN old.successful + 1 ELSE old.successful,
   uptime |-> IF s = "up" THEN old.uptime + 1 ELSE 0,
   downtime |-> IF s = "up" THEN 0 ELSE old.downtime + 1]

(* The early return for a host with a private address. *)
Blocked(old) ==
  [status |-> "down", total |-> old.total + 1, successful |-> old.successful,
   uptime |-> old.uptime, downtime |-> old.downtime]

(* run_check_for_webapp after an exception: the result has no totals, and  *)
(* save_webapp_check writes 0 for what is missing.                         *)
Raised == [status |-> "down", total |-> 0, successful |-> 0, uptime |-> 0, downtime |-> 1]

(* The status a DNS or port check writes; these keep no counters. *)
Uncounted(s) == [status |-> s, total |-> 0, successful |-> 0, uptime |-> 0, downtime |-> 0]

(* The rows a check of t, read as old, may write.  A check that finds the  *)
(* target down is repeated once, which adds no other result.               *)
Results(t, old) ==
  IF t \notin WebApps THEN {Uncounted(s) : s \in {"up", "down"}}
  ELSE {Counted(old, s) : s \in Found} \cup {Blocked(old)}
         \cup (IF t \in Malformed THEN {Raised} ELSE {})

-------------------------------------------------------------------------------
(* A check *)

InHand(c, t) == t \in todo[c] \/ cur[c] = t

(* Between the save of a target and the first attempt to tell of it. *)
Pending(c) == pc[c] \in {"history", "alert", "mail"}

(* The checks of t that are saved, but not yet in webapp_results. *)
Unrecorded(t) == {c \in Checkers : pc[c] = "history" /\ cur[c] = t}

Leave(c) ==
  /\ pc' = [pc EXCEPT ![c] = "idle"]
  /\ snap' = [snap EXCEPT ![c] = [t \in Targets |-> NewRow]]
  /\ todo' = [todo EXCEPT ![c] = {}]
  /\ cur' = [cur EXCEPT ![c] = None]
  /\ found' = [found EXCEPT ![c] = "unknown"]

(* To the next target. *)
Continue(c) ==
  /\ pc' = [pc EXCEPT ![c] = "save"]
  /\ cur' = [cur EXCEPT ![c] = None]
  /\ found' = [found EXCEPT ![c] = "unknown"]
  /\ UNCHANGED <<snap, todo>>

(* A job lists the active rows of its table whose interval has passed, the *)
(* routes one row, the selected rows or all.                               *)
List(c, S) ==
  /\ pc[c] = "idle"
  /\ S \subseteq rows /\ S # {}
  /\ S \subseteq WebApps \/ S \cap WebApps = {}
  /\ \A t \in S : checks[t] < MaxChecks
  /\ pc' = [pc EXCEPT ![c] = "save"]
  /\ snap' = [snap EXCEPT ![c] = [t \in Targets |-> IF t \in S THEN row[t] ELSE NewRow]]
  /\ todo' = [todo EXCEPT ![c] = S]
  /\ overlapped' = overlapped \cup {t \in S : \E b \in Checkers \ {c} : InHand(b, t)}
  /\ UNCHANGED <<table, cur, found, counts, owed, unfounded, posts, failures, crashes>>

(* What there is to tell of a row that goes from one status to another. *)
Due(before, after) ==
  IF before \in Up /\ after = "down" THEN "down"
  ELSE IF before = "down" /\ after \in Up THEN "up" ELSE "none"

(* What save_webapp_check, save_dns_check and save_port_check do to the    *)
(* row: the UPDATE finds none if the target was deleted.                   *)
Write(t, new) ==
  IF t \in rows
  THEN /\ row' = [row EXCEPT ![t] = new]
       /\ checks' = [checks EXCEPT ![t] = @ + 1]
       /\ good' = [good EXCEPT ![t] = IF new.status = "up" THEN @ + 1 ELSE @]
       /\ restarted' = IF new = Raised THEN restarted \cup {t} ELSE restarted
       /\ LET due == Due(row[t].status, new.status)
          IN  /\ owed' = [owed EXCEPT ![t] = IF due = "none" THEN @ ELSE due]
              /\ unposted' = [unposted EXCEPT ![t] = IF due = "none" THEN @ ELSE due]
  ELSE UNCHANGED <<row, checks, good, restarted, owed, unposted>>

Save(c, t) ==
  /\ pc[c] = "save"
  /\ t \in todo[c]
  /\ \E new \in Results(t, snap[c][t]) :
       /\ Write(t, new)
       /\ found' = [found EXCEPT ![c] = new.status]
  /\ pc' = [pc EXCEPT ![c] = IF t \in WebApps THEN "history" ELSE "alert"]
  /\ todo' = [todo EXCEPT ![c] = @ \ {t}]
  /\ cur' = [cur EXCEPT ![c] = t]
  /\ UNCHANGED <<rows, muted, entries, snap, dropped, unfounded, repeats, overlapped,
                 failures, crashes>>

(* Mutant: only a change of the status goes into the history. *)
SaveResultOnChange(c) ==
  /\ pc[c] = "history"
  /\ cur[c] \in rows
  /\ entries' = [entries EXCEPT ![cur[c]] =
                    IF found[c] = snap[c][cur[c]].status THEN @ ELSE @ + 1]
  /\ pc' = [pc EXCEPT ![c] = "alert"]
  /\ UNCHANGED <<rows, row, muted, snap, todo, cur, found, ghost, failures, crashes>>

(* save_webapp_check_result, a transaction of its own. *)
SaveResult(c) ==
  /\ pc[c] = "history"
  /\ cur[c] \in rows
  /\ entries' = [entries EXCEPT ![cur[c]] = @ + 1]
  /\ pc' = [pc EXCEPT ![c] = "alert"]
  /\ UNCHANGED <<rows, row, muted, snap, todo, cur, found, ghost, failures, crashes>>

(* The foreign key rejects it if the web app was deleted, and the          *)
(* exception drops the rest of the list.                                   *)
ResultRejected(c) ==
  /\ pc[c] = "history"
  /\ cur[c] \notin rows
  /\ Leave(c)
  /\ UNCHANGED <<table, ghost, failures, crashes>>

-------------------------------------------------------------------------------
(* The alert *)

(* Mutant: every check that finds the target down alerts. *)
TransitionWhileDown(before, after) ==
  \/ after = "down"
  \/ after \in Up /\ before \in {"down", "unknown"}

(* A transition from the status that was read before the probe to the one  *)
(* found; a target whose status is still unknown counts as down.  Nothing  *)
(* reads last_alerted: there is no cooldown.                               *)
Transition(before, after) ==
  \/ after = "down" /\ before \in Up
  \/ after \in Up /\ before \in {"down", "unknown"}

(* Mutant: the status is read again after the save. *)
AlertsReadAgain(c) == Transition(row[cur[c]].status, found[c]) /\ cur[c] \notin muted

Alerts(c) == Transition(snap[c][cur[c]].status, found[c]) /\ cur[c] \notin muted

(* What was owed about t has been said, or kept back by a window. *)
Settle(t, s) == owed' = [owed EXCEPT ![t] = IF @ = s THEN "none" ELSE @]
Class(s) == IF s \in Up THEN "up" ELSE "down"

NoAlert(c) ==
  /\ pc[c] = "alert"
  /\ ~Alerts(c)
  /\ IF cur[c] \in muted THEN Settle(cur[c], Class(found[c])) ELSE UNCHANGED owed
  /\ Continue(c)
  /\ UNCHANGED <<table, counts, unfounded, posts, overlapped, failures, crashes>>

Alert(c) ==
  /\ pc[c] = "alert"
  /\ Alerts(c)
  /\ pc' = [pc EXCEPT ![c] = "mail"]
  /\ UNCHANGED <<table, snap, todo, cur, found, ghost, failures, crashes>>

(* A post to a webhook, which may fail. *)
Post(t, s) ==
  /\ unposted' = [unposted EXCEPT ![t] = IF @ = s THEN "none" ELSE @]
  /\ repeats' = IF unposted[t] = s THEN repeats ELSE repeats \cup {<<t, s>>}

TryPost(t, s) ==
  \/ Post(t, s) /\ UNCHANGED failures
  \/ failures < MaxFailures /\ failures' = failures + 1 /\ UNCHANGED posts

(* send_alerts: the mail and, for the first time, the webhooks. *)
SendAlerts(c) ==
  /\ pc[c] = "mail"
  /\ LET t == cur[c]
         s == Class(found[c])
     IN /\ Settle(t, s)
        /\ unfounded' = IF owed[t] = s THEN unfounded ELSE unfounded \cup {<<t, s>>}
        /\ TryPost(t, s)
  /\ pc' = [pc EXCEPT ![c] = "webhooks"]
  /\ UNCHANGED <<table, snap, todo, cur, found, counts, overlapped, crashes>>

(* The mail fails; the webhooks are tried all the same, and nobody tries   *)
(* the mail again.                                                         *)
AlertsFail(c) ==
  /\ pc[c] = "mail"
  /\ failures < MaxFailures
  /\ failures' = failures + 1
  /\ owed' = [owed EXCEPT ![cur[c]] = "lost"]
  /\ Post(cur[c], Class(found[c])) \/ UNCHANGED posts
  /\ pc' = [pc EXCEPT ![c] = "webhooks"]
  /\ UNCHANGED <<table, snap, todo, cur, found, counts, unfounded, overlapped, crashes>>

(* send_webhook_alerts, which send_alerts has called already, posts to the *)
(* webhooks for the second time, whether the first time failed or not; the *)
(* log entry names no row, and last_alerted, which no code reads, is       *)
(* written.                                                                *)
SendWebhooks(c) ==
  /\ pc[c] = "webhooks"
  /\ TryPost(cur[c], Class(found[c]))
  /\ Continue(c)
  /\ UNCHANGED <<table, counts, owed, unfounded, overlapped, crashes>>

Done(c) ==
  /\ pc[c] = "save"
  /\ todo[c] = {}
  /\ Leave(c)
  /\ UNCHANGED <<table, ghost, failures, crashes>>

-------------------------------------------------------------------------------
(* The environment *)

Delete(t) ==
  /\ t \in rows
  /\ rows' = rows \ {t}
  /\ entries' = [entries EXCEPT ![t] = 0]
  /\ UNCHANGED <<row, muted, local, ghost, failures, crashes>>

(* A maintenance window over t begins or ends. *)
Window(t) ==
  /\ muted' = IF t \in muted THEN muted \ {t} ELSE muted \cup {t}
  /\ UNCHANGED <<rows, row, entries, local, ghost, failures, crashes>>

(* The process dies and is started again. *)
Crash ==
  /\ crashes < MaxCrashes
  /\ crashes' = crashes + 1
  /\ pc' = [c \in Checkers |-> "idle"]
  /\ snap' = [c \in Checkers |-> [t \in Targets |-> NewRow]]
  /\ todo' = [c \in Checkers |-> {}]
  /\ cur' = [c \in Checkers |-> None]
  /\ found' = [c \in Checkers |-> "unknown"]
  /\ dropped' = [t \in Targets |-> dropped[t] + Cardinality(Unrecorded(t))]
  /\ owed' = [t \in Targets |-> IF \E c \in Checkers : Pending(c) /\ cur[c] = t
                                THEN "lost" ELSE owed[t]]
  /\ UNCHANGED <<table, checks, good, restarted, unfounded, posts, overlapped, failures>>

Check(c) ==
  \/ \E S \in SUBSET Targets : List(c, S)
  \/ \E t \in Targets : Save(c, t)
  \/ SaveResult(c) \/ ResultRejected(c)
  \/ NoAlert(c) \/ Alert(c) \/ SendAlerts(c) \/ AlertsFail(c) \/ SendWebhooks(c)
  \/ Done(c)

Next ==
  \/ \E c \in Checkers : Check(c)
  \/ \E t \in Targets : Delete(t) \/ Window(t)
  \/ Crash

Spec == Init /\ [][Next]_vars

-------------------------------------------------------------------------------
(* Properties of overlapping checks *)

(* Whatever is lost when checks overlap, the counters a row carries fit    *)
(* each other: streaks exclude each other, and the uptime in percent is    *)
(* at most 100.                                                            *)
RowConsistent ==
  \A t \in rows :
    /\ row[t].uptime = 0 \/ row[t].downtime = 0
    /\ row[t].uptime <= row[t].successful
    /\ row[t].successful <= row[t].total

(* No check is counted twice, by a retry, a bulk check or an overlap. *)
NoOvercount ==
  \A t \in rows : row[t].total <= checks[t] /\ row[t].successful <= good[t]

(* No check is lost: the totals behind the uptime in percent are exact for *)
(* every web app that no two checks had in hand at once and whose checks   *)
(* did not raise, after crashes and deletions in the middle of a list too. *)
CountsExact ==
  \A t \in (rows \cap WebApps) \ (overlapped \cup restarted) :
    row[t].total = checks[t] /\ row[t].successful = good[t]

(* When no check is in progress, every saved check has its row in          *)
(* webapp_results, overlapping ones too, whichever targets were deleted in *)
(* the middle of the list: only the process dying between the two          *)
(* transactions keeps a row back.                                          *)
HistoryMatches ==
  (\A c \in Checkers : pc[c] = "idle")
    => \A t \in rows \cap WebApps : entries[t] + dropped[t] = checks[t]

(* README.md: "Webapp down alerts - Sent on transition from up->down": a   *)
(* mail on nothing else, and once for a transition.                        *)
DownMailsFounded == \A t \in rows \ overlapped : <<t, "down">> \notin unfounded

(* README.md: "Webapp recovery alerts - Sent on transition from down->up", *)
(* and the same of down alerts: when no check is in progress, a mail went  *)
(* out about every transition of a row, unless a window covered it, its    *)
(* delivery failed or the process died before it.                          *)
TransitionsMailed ==
  (\A c \in Checkers : pc[c] = "idle")
    => \A t \in rows \ overlapped : owed[t] \in {"none", "lost"}

(* Totals and history tell the checks that were saved, no more, no less.   *)
ChecksRecorded == CountsExact /\ HistoryMatches

(* Mails and transitions go one to one, but for targets that two checks    *)
(* had in hand at once.  That webhooks are posted to twice is the subject  *)
(* of WebhooksOnce.                                                        *)
MailsMatchTransitions == DownMailsFounded /\ TransitionsMailed

(* README.md, of every channel: "Webapp down alerts - Sent on transition   *)
(* from up->down".  A webhook is told of a transition to "down" once, of   *)
(* whatever target one check at a time has in hand.  Not so.               *)
WebhooksOnce == \A t \in rows \ overlapped : <<t, "down">> \notin repeats
===============================================================================
