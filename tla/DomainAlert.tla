------------------------------ MODULE DomainAlert ------------------------------
(***************************************************************************)
(* Alerts about domains: from the list of domains a check starts with,     *)
(* through the probes, to _maybe_send_alert of app.py, the channels of     *)
(* alert.py and webhook.py, and the last_alerted column that is meant to   *)
(* keep a day between two alerts about a domain.                           *)
(*                                                                         *)
(* The cooldown is decided on the last_alerted that was read with the list *)
(* of domains, before the probes; the column is written after the last     *)
(* channel, and only if none failed.  Full checks exclude each other up to *)
(* the end of the probes, not while they send; checks of a single domain   *)
(* exclude nothing.                                                        *)
(*                                                                         *)
(* Times are ages in clock ticks; ages of Cooldown and more, and "never",  *)
(* are not told apart and are all written Cooldown.                        *)
(***************************************************************************)
EXTENDS Naturals

CONSTANTS
  Sched,       \* the scheduler's job, check_all_background
  Requests,    \* request threads: check_all and manual_check
  Domains,     \* ids of the domains in the table at the start
  Channels,    \* number of channels set up: SMTP, Slack, Zulip, ...; may be none
  Cooldown,    \* ALERT_COOLDOWN_SECONDS, in clock ticks
  None,        \* no checker, no domain
  MaxFailures, \* bound: deliveries that fail
  MaxCrashes   \* bound: crashes of the process

ASSUME DomainAlertAssumption ==
  /\ Channels \in Nat
  /\ Cooldown \in Nat \ {0}
  /\ MaxFailures \in Nat
  /\ MaxCrashes \in Nat
  /\ Sched \notin Requests
  /\ None \notin Requests \cup {Sched} \cup Domains

Checkers == Requests \cup {Sched}

VARIABLES
  rows,     \* ids in the table domains
  since,    \* age of last_alerted of each row
  cond,     \* what a probe of the domain that gets an answer would find
  quiet,    \* domains an active maintenance window covers
  holder,   \* the checker that holds _check_lock, or None
  pc,       \* where each checker is
  seen,     \* age of the last_alerted it read with its list of domains
  todo,     \* domains it has still to probe, then to decide about
  cur, at,  \* the domain it is sending about and the next channel
  errors,   \* channels that have failed in this sending
  got,      \* ghost: channels that have delivered in this sending
  heard,    \* age of the last alert each channel delivered about a domain
  reached,  \* channels that delivered in the sending last_alerted is from
  excused,  \* domains an alert may be repeated about: see RateLimited
  failures, crashes

table == <<rows, since, cond, quiet>>
local == <<pc, seen, todo, cur, at, errors, got>>
ghost == <<heard, reached, excused>>
vars == <<table, holder, local, ghost, failures, crashes>>

Ages == 0..Cooldown
AllChannels == 1..Channels
Conditions == {"good", "near", "expired"}

(* Results check_all and manual_check alert about; the third status in     *)
(* their list, 'expiring_soon', is one that no check returns.              *)
Alarming == {"expired", "error"}

TypeOK ==
  /\ rows \subseteq Domains
  /\ since \in [Domains -> Ages]
  /\ cond \in [Domains -> Conditions]
  /\ quiet \subseteq Domains
  /\ holder \in Checkers \cup {None}
  /\ pc \in [Checkers -> {"idle", "probe", "alert", "send"}]
  /\ seen \in [Checkers -> [Domains -> Ages]]
  /\ todo \in [Checkers -> SUBSET Domains]
  /\ cur \in [Checkers -> Domains \cup {None}]
  /\ at \in [Checkers -> 1..(Channels + 1)]
  /\ errors \in [Checkers -> SUBSET AllChannels]
  /\ got \in [Checkers -> SUBSET AllChannels]
  /\ heard \in [Domains -> [AllChannels -> Ages]]
  /\ reached \in [Domains -> SUBSET AllChannels]
  /\ excused \subseteq Domains
  /\ failures \in Nat
  /\ crashes \in Nat

Init ==
  /\ rows = Domains
  /\ since = [d \in Domains |-> Cooldown]
  /\ cond = [d \in Domains |-> "good"]
  /\ quiet = {}
  /\ holder = None
  /\ pc = [c \in Checkers |-> "idle"]
  /\ seen = [c \in Checkers |-> [d \in Domains |-> Cooldown]]
  /\ todo = [c \in Checkers |-> {}]
  /\ cur = [c \in Checkers |-> None]
  /\ at = [c \in Checkers |-> 1]
  /\ errors = [c \in Checkers |-> {}]
  /\ got = [c \in Checkers |-> {}]
  /\ heard = [d \in Domains |-> [k \in AllChannels |-> Cooldown]]
  /\ reached = [d \in Domains |-> {}]
  /\ excused = {}
  /\ failures = 0
  /\ crashes = 0

-------------------------------------------------------------------------------
(* A check has the domain on its list, or is sending about it.             *)
InHand(c, d) == d \in todo[c] \/ cur[c] = d
OthersAt(c, d) == \E b \in Checkers \ {c} : InHand(b, d)

Release(c) == holder' = IF holder = c THEN None ELSE holder

(* The check returns or raises; its locals are gone. *)
Leave(c) ==
  /\ pc' = [pc EXCEPT ![c] = "idle"]
  /\ seen' = [seen EXCEPT ![c] = [d \in Domains |-> Cooldown]]
  /\ todo' = [todo EXCEPT ![c] = {}]
  /\ cur' = [cur EXCEPT ![c] = None]
  /\ at' = [at EXCEPT ![c] = 1]
  /\ errors' = [errors EXCEPT ![c] = {}]
  /\ got' = [got EXCEPT ![c] = {}]

(* A check of all domains: _check_lock, then get_domains. *)
ListAll(c) ==
  /\ pc[c] = "idle"
  /\ holder = None
  /\ rows # {}
  /\ holder' = c
  /\ pc' = [pc EXCEPT ![c] = "probe"]
  /\ seen' = [seen EXCEPT ![c] = since]
  /\ todo' = [todo EXCEPT ![c] = rows]
  /\ excused' = excused \cup {d \in rows : OthersAt(c, d)}
  /\ UNCHANGED <<table, cur, at, errors, got, heard, reached, failures, crashes>>

(* manual_check of one domain: get_domain, no lock. *)
ListOne(c, d) ==
  /\ pc[c] = "idle"
  /\ d \in rows
  /\ pc' = [pc EXCEPT ![c] = "probe"]
  /\ seen' = [seen EXCEPT ![c] = since]
  /\ todo' = [todo EXCEPT ![c] = {d}]
  /\ excused' = IF OthersAt(c, d) THEN excused \cup {d} ELSE excused
  /\ UNCHANGED <<table, holder, cur, at, errors, got, heard, reached, failures, crashes>>

(* The probes have answered (any may have failed, which is the result      *)
(* 'error') and the results are saved.  The log entries of alarming        *)
(* results are rejected if their domain is gone, and so is the history row *)
(* of a check of one domain: see SaveRejected.                             *)
Probe(c) ==
  /\ pc[c] = "probe"
  /\ holder # c => todo[c] \subseteq rows
  /\ \E failed \in SUBSET todo[c] :
       LET result == [d \in todo[c] |-> IF d \in failed THEN "error" ELSE cond[d]]
           alarms == {d \in todo[c] : result[d] \in Alarming}
       IN /\ alarms \subseteq rows
          /\ todo' = [todo EXCEPT ![c] = alarms]
  /\ pc' = [pc EXCEPT ![c] = "alert"]
  /\ Release(c)
  /\ UNCHANGED <<table, seen, cur, at, errors, got, ghost, failures, crashes>>

(* Mutant: no finally clause, the exception keeps the lock. *)
SaveRejectedKeepingLock(c) ==
  /\ pc[c] = "probe"
  /\ ~(todo[c] \subseteq rows)
  /\ Leave(c)
  /\ UNCHANGED <<table, holder, ghost, failures, crashes>>

(* A domain was deleted since it was listed, a foreign key rejects what    *)
(* the check writes about it, and the exception ends the check.            *)
SaveRejected(c) ==
  /\ pc[c] = "probe"
  /\ ~(todo[c] \subseteq rows)
  /\ Leave(c)
  /\ Release(c)
  /\ UNCHANGED <<table, ghost, failures, crashes>>

(* Mutant: a requested check alerts whatever has been recorded. *)
SilencedForJobOnly(c, d) == d \in quiet \/ (c = Sched /\ seen[c][d] < Cooldown)

(* _maybe_send_alert, for one domain after the other in the order in which *)
(* the probes answered: no alert in a maintenance window or soon after one *)
(* that had been recorded when the check began.                            *)
Silenced(c, d) == d \in quiet \/ seen[c][d] < Cooldown

Skip(c, d) ==
  /\ pc[c] = "alert"
  /\ d \in todo[c]
  /\ Silenced(c, d)
  /\ todo' = [todo EXCEPT ![c] = @ \ {d}]
  /\ UNCHANGED <<table, holder, pc, seen, cur, at, errors, got, ghost, failures, crashes>>

Send(c, d) ==
  /\ pc[c] = "alert"
  /\ d \in todo[c]
  /\ ~Silenced(c, d)
  /\ pc' = [pc EXCEPT ![c] = "send"]
  /\ todo' = [todo EXCEPT ![c] = @ \ {d}]
  /\ cur' = [cur EXCEPT ![c] = d]
  /\ UNCHANGED <<table, holder, seen, at, errors, got, ghost, failures, crashes>>

(* send_alerts: each channel delivers or adds to the list of errors, and   *)
(* the next one is tried.                                                  *)
Deliver(c) ==
  /\ pc[c] = "send"
  /\ at[c] <= Channels
  /\ heard' = [heard EXCEPT ![cur[c]][at[c]] = 0]
  /\ got' = [got EXCEPT ![c] = @ \cup {at[c]}]
  /\ at' = [at EXCEPT ![c] = @ + 1]
  /\ UNCHANGED <<table, holder, pc, seen, todo, cur, errors, reached, excused, failures, crashes>>

(* Mutant: the exception of a channel is caught and not added to the list. *)
DeliverFailsQuietly(c) ==
  /\ pc[c] = "send"
  /\ at[c] <= Channels
  /\ failures < MaxFailures
  /\ failures' = failures + 1
  /\ at' = [at EXCEPT ![c] = @ + 1]
  /\ excused' = excused \cup {cur[c]}
  /\ UNCHANGED <<table, holder, pc, seen, todo, cur, errors, got, heard, reached, crashes>>

DeliverFails(c) ==
  /\ pc[c] = "send"
  /\ at[c] <= Channels
  /\ failures < MaxFailures
  /\ failures' = failures + 1
  /\ errors' = [errors EXCEPT ![c] = @ \cup {at[c]}]
  /\ at' = [at EXCEPT ![c] = @ + 1]
  /\ excused' = excused \cup {cur[c]}
  /\ UNCHANGED <<table, holder, pc, seen, todo, cur, got, heard, reached, crashes>>

EndSending(c) ==
  /\ pc[c] = "send"
  /\ at[c] > Channels
  /\ cur[c] \in rows
  /\ pc' = [pc EXCEPT ![c] = "alert"]
  /\ cur' = [cur EXCEPT ![c] = None]
  /\ at' = [at EXCEPT ![c] = 1]
  /\ errors' = [errors EXCEPT ![c] = {}]
  /\ got' = [got EXCEPT ![c] = {}]
  /\ UNCHANGED <<rows, cond, quiet, holder, seen, todo, heard, failures, crashes>>

(* No error, be it because there was no channel: the log entry 'alert',    *)
(* which says "Alert sent", and update_last_alerted.                       *)
Record(c) ==
  /\ errors[c] = {}
  /\ EndSending(c)
  /\ since' = [since EXCEPT ![cur[c]] = 0]
  /\ reached' = [reached EXCEPT ![cur[c]] = got[c]]
  /\ excused' = IF OthersAt(c, cur[c]) THEN excused ELSE excused \ {cur[c]}

(* Errors: log entries 'alert_error', and last_alerted stays. *)
Report(c) ==
  /\ errors[c] # {}
  /\ EndSending(c)
  /\ UNCHANGED <<since, reached, excused>>

(* The domain was deleted while the alert was sent: the foreign key        *)
(* rejects the log entry and the rest of the list gets no alerts.          *)
LogRejected(c) ==
  /\ pc[c] = "send"
  /\ at[c] > Channels
  /\ cur[c] \notin rows
  /\ Leave(c)
  /\ UNCHANGED <<table, holder, ghost, failures, crashes>>

Done(c) ==
  /\ pc[c] = "alert"
  /\ todo[c] = {}
  /\ Leave(c)
  /\ UNCHANGED <<table, holder, ghost, failures, crashes>>

-------------------------------------------------------------------------------
(* The environment *)

(* The clock: expiry dates come near and pass. *)
Approach(d) ==
  /\ cond[d] # "expired"
  /\ cond' = [cond EXCEPT ![d] = IF @ = "good" THEN "near" ELSE "expired"]
  /\ UNCHANGED <<rows, since, quiet, holder, local, ghost, failures, crashes>>

(* A certificate or a registration is renewed. *)
Renew(d) ==
  /\ cond[d] # "good"
  /\ cond' = [cond EXCEPT ![d] = "good"]
  /\ UNCHANGED <<rows, since, quiet, holder, local, ghost, failures, crashes>>

Older(age) == IF age < Cooldown THEN age + 1 ELSE age

Tick ==
  /\ since' = [d \in Domains |-> Older(since[d])]
  /\ seen' = [c \in Checkers |-> [d \in Domains |-> Older(seen[c][d])]]
  /\ heard' = [d \in Domains |-> [k \in AllChannels |-> Older(heard[d][k])]]
  /\ excused' = {d \in excused : \/ \E c \in Checkers : InHand(c, d)
                                 \/ \E k \in AllChannels : heard'[d][k] < Cooldown}
  /\ UNCHANGED <<rows, cond, quiet, holder, pc, todo, cur, at, errors, got,
                 reached, failures, crashes>>

(* A maintenance window over d begins or ends. *)
Window(d) ==
  /\ quiet' = IF d \in quiet THEN quiet \ {d} ELSE quiet \cup {d}
  /\ UNCHANGED <<rows, since, cond, holder, local, ghost, failures, crashes>>

DeleteDomain(d) ==
  /\ d \in rows
  /\ rows' = rows \ {d}
  /\ since' = [since EXCEPT ![d] = Cooldown]
  /\ UNCHANGED <<cond, quiet, holder, local, ghost, failures, crashes>>

(* The process dies and is started again. *)
Crash ==
  /\ crashes < MaxCrashes
  /\ crashes' = crashes + 1
  /\ holder' = None
  /\ pc' = [c \in Checkers |-> "idle"]
  /\ seen' = [c \in Checkers |-> [d \in Domains |-> Cooldown]]
  /\ todo' = [c \in Checkers |-> {}]
  /\ cur' = [c \in Checkers |-> None]
  /\ at' = [c \in Checkers |-> 1]
  /\ errors' = [c \in Checkers |-> {}]
  /\ got' = [c \in Checkers |-> {}]
  /\ excused' = excused \cup {d \in Domains : \E c \in Checkers : cur[c] = d}
  /\ UNCHANGED <<table, heard, reached, failures>>

-------------------------------------------------------------------------------
Alert(c) ==
  \/ \E d \in Domains : Skip(c, d) \/ Send(c, d)
  \/ Deliver(c) \/ DeliverFails(c)
  \/ Record(c) \/ Report(c) \/ LogRejected(c) \/ Done(c)

Check(c) == Probe(c) \/ SaveRejected(c) \/ Alert(c)

Next ==
  \/ \E c \in Checkers : ListAll(c) \/ Check(c)
  \/ \E c \in Requests, d \in Domains : ListOne(c, d)
  \/ \E d \in Domains : Approach(d) \/ Renew(d) \/ Window(d) \/ DeleteDomain(d)
  \/ Tick
  \/ Crash

Spec == Init /\ [][Next]_vars

(* The scheduled job fires again and again, and a check goes on: probes    *)
(* and deliveries have timeouts.  Requests need not come.                  *)
Fairness ==
  /\ WF_vars(ListAll(Sched))
  /\ \A c \in Checkers : WF_vars(Check(c))

FairSpec == Spec /\ Fairness

-------------------------------------------------------------------------------
(* Properties *)

(* A fresh last_alerted silences a domain for a day; it is there only if   *)
(* every channel set up had delivered the alert it stands for, whichever   *)
(* failed, overlapped or were tried again.  (With no channel set up that   *)
(* is nobody: the domain is recorded as alerted and kept silent, too.)     *)
SilencedMeansHeard ==
  \A d \in rows : since[d] < Cooldown => reached[d] = AllChannels

(* At most one alert per channel, domain and cooldown, as README.md says   *)
(* ("Alerts are rate-limited to once per 24 hours per domain/webapp"):     *)
(* across checks, renewals, deletions and windows, whatever happens to     *)
(* other domains.  What excuses a repetition is that two checks had the    *)
(* domain in hand at a time, that a channel failed, or that the process    *)
(* died sending, and that excuse ends with the next alert that one check   *)
(* alone records, or with a cooldown in which no channel said anything.    *)
RateLimited ==
  [][\A c \in Checkers :
       Deliver(c) /\ cur[c] \notin excused => heard[cur[c]][at[c]] = Cooldown]_vars

(* What a domain that is in the given condition can expect: an alert, in   *)
(* the end, unless it is renewed, deleted or put under maintenance first.  *)
IsAlerted(condition) ==
  \A d \in Domains :
    (d \in rows /\ cond[d] = condition /\ d \notin quiet)
      ~> \/ since[d] < Cooldown
         \/ d \notin rows \/ cond[d] # condition \/ d \in quiet

(* An expired domain is alerted about, whatever failed, died or was        *)
(* deleted before.                                                         *)
ExpiredIsAlerted == IsAlerted("expired")

(* "SSL alert threshold - Days before SSL expiry to trigger alert" says    *)
(* README.md: so is one with fewer days left than the threshold.           *)
NearIsAlerted == IsAlerted("near")
===============================================================================
