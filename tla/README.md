# Verification of Vigil (SSL, domain and web app monitor)

This directory holds TLA+ specifications of Vigil, the program under `src/`,
their TLC configurations and TLAPS proofs. Definitions are translated from the
source code; `PROJECT.json` maps each of them to the lines it stands for.
`app.js` and `login.js` below are the files of `src/ssl_domain_checker/static/`,
the Python files those of `src/ssl_domain_checker/`.

## 1. The system

Vigil is one Flask process (gunicorn, `workers = 1`, four request threads) over
a PostgreSQL database. The same process runs APScheduler, whose jobs check
domains, web apps, DNS records and ports. A check probes the network from a
thread pool, writes what it found to tables, and may send alerts by mail and
webhooks. Request threads, scheduler threads and, during a reload, a second
process share the database (each request or job has one connection; a function
of `models.py` commits one or more times) and a few module-level objects
(`_check_lock`, the WHOIS cache, the connection pool).

The browser client is one page without a framework: `app.js` keeps lists, forms,
selections and caches in global variables, in the document and in
`sessionStorage` and `localStorage`. Every operation is an `await` or a `.then`
over a request; between a request and its answer the user can start anything
else, and answers come in any order. Client and server share the session cookie
and the CSRF token derived from it, which changes with every change made.

### Server

| Component | State | Operations | What makes it correct |
|---|---|---|---|
| Full check (`app.py` `_acquire_check_run`, `_run_full_check`; `models.py` `start_check_run`) | `_check_lock`, `_shutdown_event`, table `check_runs`, results in `domains`, `check_results`, `logs` | start, list, probe, save, complete; refused when one is running; shutdown, crash, restart | one run at a time; no run is declared failed while it goes on; a dead run does not block checks forever; results of a run all or none; no older result over a newer one |
| Domain alerts (`_maybe_send_alert`, `alert.py`, `webhook.py`) | `domains.last_alerted`, maintenance windows | decide, send per channel, record | at most one alert a day; silenced only after an alert got through; every expired domain is alerted about |
| Web app checks (`webapp_checker.py`, `_maybe_send_webapp_alert`), DNS and port checks | counters and status of the row, `webapp_results` | check with a retry, save, save history, alert on transition | counters match the history; one mail, and one post to each webhook, for one transition |
| WHOIS lookups (`checker.py`) | ordered cache, lock, executor of four | look up, time out, retry once, evict | answers no older than their lifetime; cache bounded |
| Scheduler (`scheduler.py`), database access (`db.py`) | lock file, jobs; pool of 2 to 10 | start, fire; get, return | one scheduler; no connection lost or shared |
| Login, users, invites | `rate_limits`, `users`, `invite_tokens`, signed session | attempt, lock; create, change, delete, invite | no more attempts than the limit; always an admin; an invite is used once |
| Backups, settings, windows, statistics | files, rows of `settings` and `maintenance_windows` | create, rotate, restore; read, update; classify | a backup listed can be restored; no lost update |

### Client

| Component | State | Operations | What makes it correct |
|---|---|---|---|
| Domain list | rows, filters, page, selection, boxes, preferences | load, filter, search, sort, page, tick, bulk | no empty page; what is ticked is what is selected; a filter holds |
| Domain operations | `_cachedDomains`, the copy in `sessionStorage`, check locks and queue | check, delete, bulk, save, import | the list ends as the server's; nothing hidden by the copy; one queue loop; all ends |
| Monitor pages | lists, filters, layouts, selection | the same for web apps, DNS records, ports | the same |
| Settings forms | four forms, `_settingsOriginal`, dirty flags, cached copy | load, edit, reset, delta save, import | no edit without a warning; what looks saved is stored; only changes are sent |
| Administration lists | keys, users, backups, log | load, search, page, tick, delete | lists current; pages not empty; boxes true |
| Editors | template memory and form; form of a window | tab, edit, save, restore | an unmarked template is the stored one; a window is saved to its own row |
| Confirmation dialog | target, typed name, button | ask, type, delete, cancel | a user is deleted only after its name was typed |
| Shell and dashboard | view, address, refresh timer, cache | go, hashchange, refresh, load | address and view agree; the cache is young |
| Login page and session | cookie, nonce, token, error timer | submit, api(), token, logout | an answer heals the token; an error goes after its time |

The behaviours that are hard to test, each at its line, are the `hazards` of
`PROJECT.json`: interleaved transactions, decisions on rows read before minutes
of probing, exceptions between two commits, process death at any point; in the
client late and overtaking answers, timers that fire into another state, and
copies of one fact in memory, storage and document.

## 2. Modules

### `RunRegister`: what the check-run guard promises

An abstract specification with three variables: the number of runs opened so
far, the id of the open run and its age. A run is opened when none is open or
when the open one is stale and thereby given up; only the open one is closed.

### `RunLog`: what full checks promise to those who read the tables

An abstract specification of `check_runs`, `check_results` and the results shown in
`domains`, for any number of processes. A check is a job with a row, a list of
domains and a next step. `Begin` adds a row (and may give up running ones),
`Publish` shows the results of the domains that still exist, `Record` writes the
whole list into the history or nothing, `Close` completes the job's own row,
`Abandon` stops any jobs at any point, as an exception or the death of a process
does, and `Expire` removes completed rows and old results up to a run that is
before all jobs at work. There are no processes, threads, locks, transactions or ages in it.

### `CheckRun`: a full check from guard to end

State: per process `up`, `stopping` (`_shutdown_event`), `locked`
(`_check_lock`); per thread `pc`, its local `run` id, its local list of domains
`snap` and the rows its uncommitted UPDATE holds (`staged`); the history variable
`leaked`, the processes whose guard raised with the lock in its hands; the tables
`check_runs` (`runs`), `domains`, the last saved results (`saved`) and
`check_results` (`history`). The actions are the statement groups between two
commits, in the order of the code:

| Action | Code |
|---|---|
| `Acquire`, `Refuse`, `Admit`, `GuardRaises` | `_acquire_check_run`: the lock, then the query for the last row, which refuses, admits or raises |
| `ListDomains`, `NothingToCheck` | `get_domains` |
| `FindRunning`, `FindNoRunning`, `InsertRun` | `start_check_run`: UPDATE and SELECT, then INSERT and commit. The UPDATE waits for rows locked by another transaction |
| `SaveDomains`, `SaveDomainsFails` | `save_domain_checks_batch` |
| `SaveHistory`, `SaveHistoryFails` | `save_check_results_batch`, with its foreign key and rollback |
| `SaveLogs`, `LogsRejected` | `add_logs_batch`, whose foreign key error nothing catches |
| `Complete`, `Finish` | `update_check_run`, then the snapshot and the certificate logs, then the `finally` |
| `DbError` | any other statement raises |
| `Cleanup` | `cleanup_old_data`: completed rows and results older than the retention go; status "removed" is a row that is gone |
| `DeleteDomain`, `Tick`, `Shutdown`, `Exit`, `Crash`, `Restart` | the rest of the program, the clock, the process manager |

Probing changes no state and is part of the step that saves its results.
Certificate transparency checks fail at their first statement and the exception
is caught, so `Finish` covers them. `Register` and `Log` are the refinement mappings
to the two abstract specifications; in `Log` the jobs are the threads between
their INSERT and their end.

### `DomainAlert`: from a check to its alerts

A check lists domains (`ListAll` with the lock, `ListOne` for a manual check of
one domain) and copies the age of `last_alerted`; `Probe` saves the results and
keeps the alarming ones; then, domain after domain, `Skip` or `Send`, `Deliver`
or `DeliverFails` for each channel, and `Record` or `Report`. `SaveRejected` and
`LogRejected` are the foreign key errors of a domain deleted meanwhile. Times
are ages, capped at the cooldown. The number of channels set up may be none, as
`send_alerts` allows: `Record` then writes `last_alerted`, and logs an alert, though
nobody heard of it. `got`, `heard`, `reached` and `excused` are history variables for
the properties: `got` is written by each delivery and `reached` is what it was when
`last_alerted` was written, so that `SilencedMeansHeard` relates the list of errors the
code decides by to the deliveries that took place; `excused` has the domains about which an alert may
be repeated, those that two checks had in hand at once, or whose sending met a
failing channel or the death of the process, until the next alert that one check
alone records, or a silent cooldown. The run-exclusion itself is `CheckRun`'s; here it
is reduced to the holder of the lock up to the end of the probes.

### `Monitor`: checks of web apps, DNS records and ports

The three kinds of checks repeat one pattern; the targets in `WebApps` have
counters, a history and the status 'slow', the others have not. A check copies
rows (`List`), and then for each target saves the row (`Save`, with the counters
of `check_webapp` computed from the copy), saves the history (`SaveResult`, or
`ResultRejected` by the foreign key), judges the transition (`NoAlert`, `Alert`)
and sends: `SendAlerts` or `AlertsFail` is `send_alerts`, which sends the mail and posts
to the webhooks, and `SendWebhooks` is the second post of its callers. `Results` gives
every row a probe can lead to: `Counted`, the early return `Blocked` for private
addresses, and `Raised` for a check that raised. History variables record what was
saved and said and what happened to a target
that the properties name. `checks` and `good` count; `owed` and `unfounded` follow the
mails, `unposted` and `repeats` the posts to webhooks. `overlapped`: two checks had it in hand at once;
`restarted`: a check that raised set its counters to 0; `dropped`: checks whose
row of the history went with the process; `owed` is "lost" for a transition whose
delivery failed or that died with the process. Routes that take
several ids read the rows one by one; `List` reads them in one step, which no
property tells apart, since none relates two targets. The notify flags are taken
as set (a flag that is off acts like a window), mail and one webhook as configured.
Old rows of the history that `cleanup_old_data` removes are not taken away. Results are saved while later
probes still run, so probing is part of `Save`.

### `DomainTable`: the domain list as it is shown

One of the two lists. `Render` stands for `renderDomains`: the page is clamped,
the rows of the page are drawn, a box is ticked if its id is selected, the
toolbar is set. Every action ends with the calls its handler makes: load
(`BeginLoad`, `LoadAnswered`, `LoadFailed`), chips, the TLD menu, clearing,
search (`Type`, and `SearchFires` when the timer of 200 ms is over), sort, page
size, pages, look, selection (`Tick`, `SelectAll`, `SelectByKey`,
`DeselectAll`), bulk check and delete, deletion with its rollback (`Drop`,
`DropDone`, `DropFailed`), and the jump from the dashboard whose filter is set
350 ms later (`FilterFromDashboard`, `JumpFires`). Answers are any list the
server could give (`ORDER BY url`: ids stand for urls in their order); `Keep` is
`Array.prototype.filter`, and sorting compares as `_sortDomains` does, ties
included.

### `DomainOps`: what is done to domains

The same list, its rows reduced to how often a domain was checked and what its
notes hold, with the server's rows beside it. A GET is sent, read by the server
(`Served`) and answered (`Loaded`, `LoadFailed`) in three steps, so that answers
overtake each other. Every operation is the start, the effect on the server and
what the client does with the answer; `ReloadActive` is what most of them end
with. `bulk` is a loop over ids, `queue`, `running` and `posts` are the queue of
bulk checks. A request that fails may have had its effect: the routes commit and
can raise afterwards (`add_log`, `get_settings`, an alert), or the answer is lost; the
second case of `ManualFailed`, `AllChecked`, `DropFailed`, `BulkStep` and `SaveFailed`
is that. `disturbed` records that the user started something while something else
was under way, that a load failed or was given an old copy, or that a request failed
after it had changed the server (`Unheard`): no handler of an error loads the list, so
it then differs from the server until the user loads it again, and `ListIsCurrent` is
about lists `disturbed` is false for.

### `MonitorPages`: web apps, DNS records and ports

One page of the three. Web apps have filters that are kept, a search timer,
pages, a selection and two layouts whose boxes both stay in the document; DNS
records and ports load again at every change of a filter. `OnScreen` is what the user
sees: of DNS records both layouts, since the cards are not cleared when the table is
drawn above which they stand (`DrawDns`, `LeftCard`). `Failed` may have had its effect
on any of the ids: the routes commit row by row. `DrawPorts` draws
nothing: the code calls a function that does not exist (section 5).

### `SettingsForms`, `AdminPages` and their composition `MCSettingsView`

`SettingsForms` has one field for each way a field is treated: kept in `.env`,
plain, a webhook, a check box, the status page, the security policy in its own
table, and the retention, which the security form shows and the settings keep. A
load is a set of GETs that are due: one for the settings, two for the security form,
which goes on when the one for the settings fails (`RestLost`, `PolicyLoaded`) and
shows the default. A number of the security form may be `Blank`: `Coerced` is its
`parseInt(x) || default`. Saves of that form and imports write two tables and may get
no further than the first (`StoredInPart`). `form`, `original`, `dirty` and `stored`
are the code's; `clean`, `touched`, `assumed`, `slipped` and `raced` record, for the
properties, what was loaded or saved last, what the user changed since, that the
retention was filled in without an answer, and when requests overlapped or a save was
stored in part or without an answer. `AdminPages` is one of the lists of keys, users,
backups and log with what each does with search, pages and boxes; `Failed` may have
had its effect, on some of the ids or, clearing the log, without its last entry. The two share only the user, and a behaviour of `MCSettingsView` is
one of them.

### `ClientShell`, `ClientSession`, `ConfirmDialog`, `TemplateEditor`

`ClientShell`: the start of the page, the session check, views, the address with
its hashchange events one step later, the refresh timer, and the dashboard's
cache with a clock (`now`). `activateView` is defined twice in `app.js` (lines 59
and 784); the second wraps the first, and `Activate` is both.

`ClientSession`: the login form and the requests of both pages. The session is in
the cookie, so each request in `flight` carries the cookie of the time it was
sent, and the server judges it by that: `Accepted` and `Rotated` are
`csrf_required`, `Answer` is the nonce an answer sets. `TokenKinds` are the
requests for a token, which are read in a second step.

`ConfirmDialog`: `confirmDelete` and its button for domains and for users; a
deletion fades out, is sent and logged (`Faded`, `Deleted`, `Ends`), while the
dialog may ask about something else.

`TemplateEditor`: the tabs, form and memory of the e-mail templates, and the form
of a maintenance window with the answers that fill and hide it. A template is
one text with no blank part (the server shows a default in the place of a blank).

`ClientUser` has what these share: the user, who acts a bounded number of times.
`MCClientFrame` composes the four, which share nothing but the user; a behaviour
is one of them.

`MCCheckRun` and `MCMonitor` add the symmetry sets TLC uses; `MCMonitor` and
`MCDomainAlert` keep a run to two sides of what is too large as one (section 3). The
definitions whose comment begins with "Mutant" are not part of the
specifications: each is a plausible mistake in the definition that follows it,
and shows that a property would notice.

## 3. Runs

| Run | Configuration | What it shows |
|---|---|---|
| `check_run_one` | one process, scheduler and one request thread, two domains, three runs, two faults, stale after 2 ticks, fair | `OneInside`, `LockMeansChecking`, `OneRunning`, `OwnRowOpen`, `ClosedIsFinal`, `NewerResultsStay`, that `RunRegister` is implemented, and `StuckRowCleared` |
| `check_run_two` | two processes, two runs, one fault | what survives two processes: `CompletedIsFinal`, `HistoryAllOrNothing`, and that `RunLog` is implemented |
| `check_run_guard` | one process, one fault | violated: `RefusesOnlyRunning`, when the guard's query raises |
| `domain_alert` | a request thread beside the job about one domain, a failure and a crash; or the job with two domains and a failure; two channels, a cooldown of two ticks, fair | `SilencedMeansHeard`, `RateLimited`, and `ExpiredIsAlerted` whatever goes wrong with the other domain |
| `domain_alert_near` | the job, fair, nothing fails | violated: `NearIsAlerted` |
| `monitor_webhooks` | the jobs alone, two web apps and a DNS record or port, two checks each, nothing fails | violated: `WebhooksOnce`, by the first transition |
| `monitor_overlap` | the job and a request about one web app whose checks can raise, two checks listed, a failure and a crash; or one check at a time with lists of two of three targets, without faults | what overlapping checks keep: `RowConsistent`, `NoOvercount`; and `ChecksRecorded`, `MailsMatchTransitions` until they overlap, with a target deleted in the middle of a list |
| `domain_table` | two domains, pages of one or two rows, a chip and a search | `PageShowsRows`, `SelectionIsShown`, `NarrowedObeysFilter` |
| `domain_ops` | two domains, four operations, one failure, fair | `ListIsCurrent`, `StoreIsCurrent`, `OneQueueLoop`, `WorkEnds` |
| `monitor_pages` | two rows, pages of one, four things the user does, one failure | `PageOK`, `DrawnObeysFilter`, `ListIsCurrent` |
| `settings_view` | a field of each kind, two values and a blank, two rows on pages of one, four or five things the user does, one failure | `EditsAreWarned`, `CleanIsStored`, `DeltaOnly`, `ListIsCurrent`, `BackupsAreShown`, and the type of every variable |
| `client_frame` | three views, two loads; three requests; three users and a domain; two templates and windows; one failure | `AddressShowsView`, `CacheIsYoung`, `ApiAnswerHeals`, `TypedBeforeDelete`, `UnmarkedIsStored` |

**Bounds of the server's runs.** `MaxRuns` stops new runs after two or three
rows: two are needed for a stale row and its successor, the third for a row
given up while another was completed. `MaxFaults` (two) allows a crash in the
recovery from a crash. Two domains are needed for a batch that is partly
deleted. `Stale = 2` keeps young, exactly stale and older apart (ages 0 to 3);
with two processes `Stale = 1` still does. Two channels allow one to deliver and
one to fail; a cooldown of two ticks keeps fresh, older and over apart. `MCDomainAlert`
has two parts, chosen at the start: in "overlap" the second domain (`Other`) is deleted
before anything happens to it, in "lists" no request comes and nothing crashes; in both
`Other` is never renewed or under maintenance, which leaves it to the first domain to be.
`MaxChecks` stops listing a target with so many checks; the checks that run may add
one each, so that two let checks follow each other, overlap over a transition, and
announce its way back. `OneOrSeveral` keeps `monitor_overlap` to states in which only
the one web app was touched, or one check at a time was made of at most two targets
and nothing failed: lists that overlap and fail at once are left to the proofs. Two
targets are needed for a list that is cut off in the middle.

**Bounds of the client's runs.** Two rows on pages of one give a page beyond the
last, a row selected on another page and an answer with a row too many. Four or
five things the user does are two operations that overlap, with a filter or a
page between them; a failure between them is the one of `MaxErrors`.
`DomainTable` needs no bound on the user: one load or deletion is on its way at a
time, since how requests overlap is the subject of `DomainOps`. Its run sorts by
url in either direction and leaves the menu of top-level domains alone, which
filters as the chip does; the proofs are for every column and menu. TLC fires every
action of each module in these runs. Seven clicks in the dialog are what it
takes to ask about one user, type the name, delete, and do so for another while
the first answer is late. Three requests in flight let two changes overlap a
plain fetch. `FormsBound` keeps the settings forms to two loads on their way, and leaves
blank only the number of the security form's own table: the retention, the other
number, is treated the same. Checks the scheduler makes while a monitor page is open
are not in `MonitorPages`: the page learns of them at its next load, as of those of
other administrators. Runs with such a bound switch the deadlock check off: at the bound
the model has no more steps, which says nothing of the program.

**Symmetry** over domains, web apps and request threads is used in safety runs
only; no definition the runs evaluate tells them apart.

**Fairness.** A check that has begun goes on (weak fairness of its next step):
TLS, WHOIS and delivery calls have timeouts, so a step may be slow but ends.
The scheduled job begins again and again (APScheduler's interval trigger), time
passes, and a process that was told to stop ends and is started again
(`Restart=always`, `restart: unless-stopped`). Requests, deletions, the clean-up and
faults need not happen. `StuckRowCleared` excepts the state without any domain, in which
the code returns before it looks at old rows, and the process whose guard has raised
(`leaked`), which begins no check until it is replaced. In `DomainOps` requests end (weak
fairness of `Answers`: a browser's request is answered or fails); the user and
the expiry of the copy need not do anything. `WorkEnds` is about a user who
stops in the end.

**What the properties except.** Where code that is interrupted in one
particular way does not keep a promise, the property names the way instead of
leaving the step out. In the client: `disturbed` (operations that overlap, a load that
failed, a request that failed after it had changed the server), `strayed` (Select All
cleared over a list it does not cover), `slipped` (a save of one form takes the edits
of the others for saved), `raced` (a save that overlaps a load or another save, is
stored in part, or whose answer is lost; of templates also an edit meanwhile), `assumed`
(a retention shown without an answer), `SavedBlank` (a number saved while blank),
`LeftCard` (cards above the table of DNS records), `beyond` (the log asked for a page it
does not have). On the server: `leaked`, `excused`, `overlapped`, `restarted` and `dropped`
(section 2). Such a property says that this way is the only one; it does not catch the
hazard that is its exception. Section 5 lists what happens in these states, and for
`leaked` a run shows it.

## 4. Proofs

Every safety invariant and every action property of the passing runs is also a
theorem: the runs show it on a small instance, TLAPS for every value of the
constants. A proof module holds, per theorem, the inductive invariant, what it
needs of the operators as lemmas, one step per action, and the temporal step.
Where the property is not inductive, TLC was asked about the strengthening
before it was proved. The type invariants of the modules are not
among the runs' properties, but for that of `MCSettingsView`: their proofs stand
instead.

`CheckRun_proofs`, for every set of workers, threads and domains, every
threshold and every bound:

- `TypeCorrect`: `Spec => []TypeOK`.
- `LockExclusion` (`OneInside`): with `TypeOK`; each step goes on in the thread
  that is inside, or leaves and releases, or enters when the lock is free. Crash
  and exit clear lock and threads of a process together.
- `LockHasHolder` (`LockMeansChecking`): `Leave` releases on every path, and the one
  step that ends a check without it is the guard that raises (`leaked`), which the run
  `check_run_guard` shows.
- `SingleRunning`, `RowStaysOpen`, `ClosedStaysClosed`: with one process. The
  strengthening `RowInv` adds `OneInside` and `ReadyToInsert`: between its SELECT
  and its INSERT a thread has marked exactly the rows that are running.
- `CompletedStays` (`CompletedIsFinal`): for any number of processes, where
  `OneRunning` fails. `StagedInv` says what the row locks of PostgreSQL give: a
  row a transaction has marked is running until it commits, and no other
  transaction has marked it.
- `HistoryIsWhole` (`HistoryAllOrNothing`): for any number of processes. By
  `OwnedRuns` a run's id belongs to one thread, and its history is empty until
  that thread saves it in one statement.
- `NewerStay` (`NewerResultsStay`): with one process. By `LatestInv` the run a
  thread works on is the last of the table.
- `Refinement` (`ImplementsRegister`): with one process. `InsertRun` maps to `Open`,
  `FindRunning` that gives up rows cannot happen while another is running,
  `Complete` maps to `Close`, `Tick` to `GrowOld`, the rest stutters.
- `LogRefinement` (`ImplementsLog`): for any number of processes. `InsertRun` maps to
  `Begin`, `FindRunning` to `GiveUp`, the saves and their failures to the two cases
  of `Publish` and `Record`, `Complete` to `Close`; `Leave`, exceptions, `Exit` and
  `Crash` abandon the jobs of their threads. The mapping turns threads into a set of
  jobs: by `OwnedRuns` no two threads map to one job (`JobsDiffer`), so that a step
  of a thread is the step of one job (`JobAdvances`); by `StagedInv` the rows a
  transaction gives up are running when it commits. This is what is
  left of the promise when `OneRunning` fails: two checks at once, one of them given
  up, still have results and rows of their own.

`DomainAlert_proofs`, for any requests beside the job, domains, channels and
cooldown: `TypeCorrect`; `SilenceIsEarned` (`SilencedMeansHeard`), whatever overlaps,
fails or crashes, from `TriedInv`: a channel that was tried has delivered or is in the
list of errors, so that an empty list means all of them; `CooldownIsKept` (`RateLimited`), equally without a condition on
the constants or on what failed: about a domain that is not `excused` no channel
delivers twice within the cooldown. The strengthening `RateInv` follows what a
sending knows: the age read with the list bounds what every channel delivered
last, and a channel the sending has still to reach has been silent for the
cooldown. `JobNeedsNoExcuse`: with no requests beside the job, no failed delivery and
no crash, no domain is ever excused, so that the exception is not the rule.

`Monitor_proofs`, for every set of targets of either kind and all bounds:

- `TypeCorrect`, `RowsConsistent`, `NeverOvercounts`: for checkers that overlap in
  any way. The clauses must also hold of the rows checkers hold as copies
  (`AllConsistent`, `AllCounted`), because a stale copy may become the row.
- `ChecksAreRecorded` (`ChecksRecorded`), for any checkers, crashes and checks that
  raise. What a check has in hand of a target that was never shared is still the
  row (`SnapFresh`: the checks that have it in hand are one, `Apart`). That the history
  is complete needs no such condition: entries, those that went with the process,
  and the checks whose result is still to be saved (`Unrecorded`) add up to the checks
  (`HistoryInv`).
- `MailsAreTransitions` (`MailsMatchTransitions`), for any checkers, failures and
  crashes, of the mails; the posts to webhooks go out twice. What is owed about a row is what the check at that row is about to
  judge or to send, or it was lost (`AlertInv`, made of `FoundInv` and `OwedInv`).
- `JobNeedsNoException`: with one checker no target is ever shared, and counters
  start again only for web apps with malformed headers. So for the deployed job
  alone the exceptions of both properties are empty.

The client's proofs are for every set of rows, users, views, templates and
windows, any number of requests on their way, and all bounds:

- `DomainTable_proofs`: `TableTypeCorrect`, `PagesHaveRows`, `SelectionIsSeen`,
  `FilterIsObeyed`, from one invariant, `TableInv`. The work is in the operators:
  that filtering keeps rows (`KeepRows`), that sorting is a permutation
  (`SortedRows`, from `RanksAreTaken`: in a finite set whose elements are ordered,
  each rank is taken), that a page in range has an item (`PageHasItem`), and so
  what `Render` leaves on the screen (`Rendered`), which each action uses.
- `DomainOps_proofs`: `QueueIsSingle` (`LoopInv` ties `_bulkCheckRunning` to the
  request of the loop); `ListEndsCurrent` and `StoreEndsCurrent`, whose invariant
  `StageInv` lists the seven things that can be under way while nothing was disturbed,
  and how memory, copy and server differ in each.
- `MonitorPages_proofs`: `PagesHold`, `ScreenObeysFilter`, `RowsEndCurrent`. While
  nothing was disturbed one request is on its way (`Serial`), memory is the
  server's between loads (`Kept`) and the screen is the page of what passes
  (`Synced`), with the cards that may be left.
- `SettingsView_proofs`, forms: `SavedIsStored` from `NetInv` (one save at a time;
  answers, the parts of loads, copy and stored fields agree with the server), `WarningsAreGiven` and
  `LeftFieldsStay` from `FormInv` (what was left alone holds what was loaded, and
  the flags compare with what was loaded or saved). Lists: `ListsEndCurrent`,
  `BackupsAreSeen`, from `ListsInv`. These are theorems of the components' own
  specifications; of the composition the run checks, `ViewIsItsParts` says that each
  of its behaviours is one of a component, `ViewTypeCorrect` is its `TypeOK`, and
  `ViewKeepsItsParts` the four invariants: the component at rest stays initial.
- `ClientFrame_proofs`, of four modules. `UsersAreTyped`: the button is enabled for
  a user only after that user's name was typed, whatever late answers enable it
  (`ButtonIsEarned`). `AnswersHeal`, `ErrorIsTimed`: a page has only its own requests
  (`PageInv`), and `dismissTimer` is the handle of the timer that runs (`TimerInv`).
  `AddressIsShown`, `RefreshIsSingle`, `CacheStaysYoung`: loads on their way carry
  stamps no later than their reading (`LoadsInv`), and views are chosen by the role
  that was answered (`RoleInv`). `WindowsKeepTheirRows`, `UnmarkedStaysStored`: the
  form of a window is that of the window it will be saved to (`WindowInv`); as long
  as nothing raced, memory differs from the server by the save on its way only
  (`Unraced`). Each module's type invariant is proved too, and `FrameKeepsItsParts` has
  the five invariants of the run for `MCClientFrame`, where three of the modules rest.

**Assumptions.** The modules' own: `CheckRunAssumption` (a positive threshold, the
scheduler is not a request thread), `MonitorAssumption` and the others give the
constants their types (finite sets of ids that are numbers, sizes of a page that
are positive) and keep `None` apart from values it stands beside. Beyond these,
where said above: one process (`gunicorn.conf.py`) for
`CheckRun`; the theorems about alerts and monitors have no further hypotheses, but
for the two that say when their exceptions are empty. That `Checkers` is finite,
in `MonitorAssumption`, is what counting the checks in progress needs; gunicorn's
threads and the scheduler's are a fixed number. Theorems about what holds "while nothing was
disturbed" are implications with history variables on the left, as the
properties are.

**What the proofs found.** `EditsAreWarned` was not inductive, for a reason the bounds
of its run hid: when a load or the save of another form overlaps a save of the
settings form, each replaces `_settingsOriginal`, and the answer of that save
puts back what it was sent with (`app.js:4112`); an edit back to those values is
then not warned about. TLC finds this with five things the user does, and the run
has four; the property names that race. `TickedIsSelected` of the backups
holds while requests overlap too, and now says so. `RateLimited`, `ChecksRecorded` and
`MailsMatchTransitions` were stated for runs in which nothing overlapped or failed
anywhere; the proofs showed that only what happened to the target itself
matters, and the properties say that.

**Only model-checked.** The liveness properties `StuckRowCleared`, `ExpiredIsAlerted`
and `WorkEnds`, and the violation `NearIsAlerted`: liveness under fairness is beyond
the prover. The violations `RefusesOnlyRunning` and `WebhooksOnce` are the runs' too. The lemmas on sequences and ranks are stated again in each proof
module that needs them, since a proof module stands beside its own component.

## 5. What disagrees with the documentation, or surprises

Runs show three:

- Domains close to their expiry are never alerted about, `README.md:455`
  notwithstanding (`app.py:2406`): `domain_alert_near`.
- A query that raises in the guard leaves `_check_lock` held (`app.py:161`): from then
  on every check of the process is refused as if one were running, until the process
  is replaced: `check_run_guard`.
- Every transition of a web app, a DNS record or a port is posted to the webhooks
  twice, by `send_alerts` (`alert.py:46`) and by its callers (`app.py:968`, 1416 and
  1525), where `README.md:457` says that an alert is sent on the transition:
  `monitor_webhooks`.

The following are visible in the definitions, or by a change of constants.

On the server:

- With no channel configured `send_alerts` returns no error (`alert.py:38`): the log says
  "Alert sent", `last_alerted` is set (`app.py:709`), and a channel that is configured
  next says nothing for a day.
- Alerts can repeat within 24 hours, `README.md:460` notwithstanding: a manual
  check beside the job decides on the same old `last_alerted` (`app.py:699`), and
  after one of several channels failed nothing is recorded. `RateLimited` excepts
  these (`excused`).
- Transitions of a web app are judged against the row read before the probe
  (`app.py:939`): overlapping checks can announce one twice or leave it
  unannounced; a process killed between save and alert loses one.
- The first successful check of a web app is announced as a recovery
  (`Transition`, where `README.md:458` says down to up), and nothing reads
  `last_alerted` of a web app, so the 24 hours do not apply to web apps.
- A check that raises outside its own `try` (headers that are a JSON list, say)
  makes the counters of the web app start again at zero (`Raised`); `CountsExact` is
  not about a web app this happened to (`restarted`).
- With two processes `OneRunning`, `ClosedIsFinal` and `OwnRowOpen` do not hold
  (`start_check_run` is not serialised), and a newer result can be overwritten by
  an older one; the program is documented as a single process. What `RunLog` says
  still holds.

Domain list and its operations:

- Tags set in bulk are dropped by the server (`app.py:514`) although the client
  says they were set (`app.js:6549`, `README.md:26`); the dialog for notes in bulk
  never opens, and the range selection by Shift is code nothing reaches.
- A row whose deletion fails comes back although a load brought it back already:
  it is in the list twice. An import loads from the copy in `sessionStorage` of
  before it. A manual check from the dashboard reloads without force, up to 30
  seconds stale.
- A request that fails after the server did it (`app.py:721`, 747, 532) leaves the list
  as it was: no `catch` loads it again, and a row that was deleted comes back.
- A note edited in place is written into the list in memory and not into the copy in
  `sessionStorage` (`app.js:557`), from which an import draws the list.
- The saved filter is restored but the list is drawn unfiltered; a change of the
  view before the first answer overwrites the saved preferences. A bulk check
  clears the selection and leaves the boxes ticked until the next load.

Monitor pages and administration lists:

- `esc` is defined nowhere, so ports are never drawn, and the form of a port is
  shown by a class no style has. The table of DNS records is drawn under the cards,
  which are neither hidden nor cleared (`app.js:2509`): after a change of the filter they
  show records that do not pass it. Clearing the filter, page size and sort of web
  apps are not saved; Select All takes the boxes of the hidden layout too.
- The new API key, which "will not be shown again", is shown at every drawing of
  the list; the number on Delete Selected stays when rows go. The log shows
  nothing after a deletion left it on a page beyond its last.
- Operations on these lists that fail in the middle (`app.py:903`, 1001, 1949, 2176)
  have changed some rows; the page is not loaded again. `checkAllDns` and
  `checkAllPorts` do load, and say that all went well.

Settings, editors, frame:

- Booleans of the settings are compared with a number: the boxes of channels are
  always ticked, and the next save of webhooks enables channels that were
  disabled. Changes of the status page and of the SMTP password are not warned
  about. A save before the first answer sends every field.
- Numbers of the security form that are blank or zero are stored as their defaults
  while the form keeps the blank as saved (`app.js:4451`, 4471). When the settings are
  not answered the form shows a retention of 90 days as loaded (`app.js:4422`); the next
  save of the form stores it, and the server prunes the logs by it (`app.py:1914`).
- A save of the security form, and an import, can store the first of its two tables
  and fail on the second (`app.py:1912`, 1643); the client takes it for not saved.
- The save of a template remembers it for the tab that is open when the answer
  comes, and takes what was typed meanwhile for saved; another tab drops edits
  without asking. Sunday (0) becomes every day (`app.js:5179`); the answer of a
  save hides whichever window's form is open.
- Requests that do not go through `api()` change the cookie's nonce unnoticed: the
  next change can be refused once, after which the token is right again. A late
  answer closes the dialog of another deletion; an unknown address leaves a
  blank page; Ctrl+Enter submits the login form while its button is disabled.

## 6. Not modelled, and the plan

Not modelled: on the server the WHOIS cache, the scheduler's lock file, the
connection pool, rate limits and lockout, users and invites, backup files, the
encrypted password, the times windows cover, statistics, and form validation of
CRUD routes; of the client charts, certificate, comparison and history dialogs,
exports, theme, toasts, test messages, and the list of maintenance windows.
Parsing of certificates and WHOIS texts and the wording of messages stay out:
no property is about them. A window, a filter or a role the modules need is
taken as given.

Next, in this order:

1. `WhoisCache`: cache, lifetimes, eviction, executor and retry; an abstract
   cache it should implement.
2. `RateLimit`, `UserAdmin`, `Invite`: interleaved statements of two requests.
3. `BackupStore`: fallback, rotation, snapshot before a restore.
4. `DbPool`, `SchedulerLock`, and windows and statuses as functions against a
   reference.
5. Proofs: the abstract specifications of 1 to 4 and their refinements; a client
   list as an abstract register of the server's rows that `DomainOps`,
   `MonitorPages` and `AdminPages` each implement while nothing is disturbed.
