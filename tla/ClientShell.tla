----------------------------- MODULE ClientShell -----------------------------
(***************************************************************************)
(* The frame of the browser client (static/app.js): which view is active,  *)
(* the hash and its events, the role that arrives late, the interval that  *)
(* refreshes the dashboard, and the dashboard's summary with its cache.    *)
(***************************************************************************)
EXTENDS Integers, Sequences, SequencesExt, ClientUser

CONSTANTS Views,       \* the sidebar's data-view names, "dashboard" among them
          AdminViews,
          Ttl,         \* _dashSummaryCache.ttl, in units of the clock
          MaxShellOps, \* bound: things the user does
          MaxNow,      \* bound: the clock
          MaxLoads     \* bound: dashboard requests on their way

ASSUME ShellAssumption ==
    /\ AdminViews \subseteq Views \ {"dashboard"} /\ {"dashboard", "domains"} \subseteq Views
    /\ Ttl \in Nat \ {0} /\ {MaxShellOps, MaxNow, MaxLoads} \subseteq Nat
    /\ None \notin Nat \cup Views /\ None \notin [ts : Nat, read : Nat]

VARIABLES
    role,      \* the account's role, as /api/me answers it
    userRole,  \* _userRole
    me,        \* the request /api/me: "sent", "answered", "started" (init ran), "refused"
    view,      \* activeView
    hash,      \* window.location.hash; None if it is empty
    events,    \* hashchange events on their way
    auto,      \* _autoRefresh > 0
    savedAuto, \* localStorage 'vigil-auto-refresh'
    intervals, \* how many refresh intervals run
    handle,    \* is one of them _autoRefreshTimer
    now,
    cache,     \* _dashSummaryCache: ts, and when the server read the data; or None
    loads,     \* dashboard loads on their way: is it served from the cache, ts,
               \* when the server read the data
    summary    \* when the server read the data that is drawn, or None

shellVars == <<role, userRole, me, view, hash, events, auto, savedAuto, intervals, handle,
          now, cache, loads, summary, ops>>
account   == <<role, userRole, me>>
refresh   == <<auto, savedAuto, intervals, handle>>
dashboard == <<cache, loads, summary>>

ShellInit ==
    /\ role \in {"admin", "viewer"} /\ userRole = "admin" /\ me = "sent"
    /\ view = "dashboard" /\ hash \in {None} \cup Views /\ events = 0
    /\ savedAuto \in BOOLEAN /\ auto = FALSE /\ intervals = 0 /\ handle = FALSE
    /\ now = 0 /\ cache = None /\ loads = <<>> /\ summary = None
    /\ ops = 0

Clicks == me # "refused" /\ UserActs(MaxShellOps)

-----------------------------------------------------------------------------
(* The dashboard *)

Fresh == cache # None /\ now - cache.ts < Ttl

\* The request loadDashboard(force) sends
DashboardLoad(force) == [cached |-> ~force /\ Fresh, ts |-> now, read |-> None]

LoadDashboard(force) ==
    /\ Len(loads) < MaxLoads
    /\ loads' = Append(loads, DashboardLoad(force)) /\ UNCHANGED <<cache, summary>>

\* The server reads the statistics.
SummaryRead(k) ==
    /\ ~loads[k].cached /\ loads[k].read = None
    /\ loads' = [loads EXCEPT ![k] = [cached |-> FALSE, ts |-> loads[k].ts, read |-> now]]
    /\ UNCHANGED <<account, view, hash, events, refresh, now, cache, summary, ops>>

\* Mutant: the cache is stamped with the time of the answer.
SummaryLoadedStampedLate(k) ==
    /\ ~loads[k].cached /\ loads[k].read # None
    /\ loads' = RemoveAt(loads, k)
    /\ cache' = [ts |-> now, read |-> loads[k].read]
    /\ summary' = loads[k].read
    /\ UNCHANGED <<account, view, hash, events, refresh, now, ops>>

SummaryLoaded(k) ==
    /\ ~loads[k].cached /\ loads[k].read # None
    /\ loads' = RemoveAt(loads, k)
    /\ cache' = [ts |-> loads[k].ts, read |-> loads[k].read]
    /\ summary' = loads[k].read
    /\ UNCHANGED <<account, view, hash, events, refresh, now, ops>>

\* The scheduler's status has come; the cache is read only now.
CachedLoaded(k) ==
    /\ loads[k].cached
    /\ loads' = RemoveAt(loads, k) /\ summary' = cache.read
    /\ UNCHANGED <<account, view, hash, events, refresh, now, cache, ops>>

DashboardFailed(k) ==
    /\ loads' = RemoveAt(loads, k)
    /\ UNCHANGED <<account, view, hash, events, refresh, now, cache, summary, ops>>

-----------------------------------------------------------------------------
(* Views *)

ViewFor(v) == IF userRole' # "admin" /\ v \in AdminViews THEN "dashboard" ELSE v

\* Mutant: the redirection leaves the address alone.
SetHashQuietly(v, h, n) == hash' = h /\ events' = n

\* What activateView(v) leaves in the address: an admin's view is not for a
\* viewer.  n events are still on their way.
SetHash(v, h, n) ==
    IF ViewFor(v) = v THEN hash' = h /\ events' = n ELSE hash' = "dashboard" /\ events' = n + 1

\* setInterval after clearInterval(_autoRefreshTimer)
SetRefresh(on) ==
    /\ intervals' = (IF handle THEN intervals - 1 ELSE intervals) + (IF on THEN 1 ELSE 0)
    /\ handle' = on

\* activateView, as it was replaced: the refresh goes by the name asked for.
Activate(v, h, n) ==
    /\ view' = ViewFor(v) /\ SetHash(v, h, n)
    /\ IF ViewFor(v) = "dashboard" THEN LoadDashboard(FALSE) ELSE UNCHANGED dashboard
    /\ SetRefresh(auto' /\ v = "dashboard")

\* A click on the sidebar, or the address edited
GoTo(v) ==
    /\ Clicks /\ v # hash
    /\ hash' = v /\ events' = events + 1
    /\ UNCHANGED <<account, view, refresh, now, dashboard>>

\* The page jumps to a view no role is kept from: the address, then activateView
\* at once; the event of the address activates the view once more.
JumpTo(v) ==
    /\ Clicks /\ v \notin AdminViews
    /\ UNCHANGED <<account, auto, savedAuto, now>>
    /\ Activate(v, v, IF v = hash THEN events ELSE events + 1)

AddressView == IF hash = None THEN "dashboard" ELSE hash

\* hashchange: the view is the hash's now, not the event's.
HashChange ==
    /\ events > 0 /\ me # "refused"
    /\ UNCHANGED <<account, auto, savedAuto, now, ops>>
    /\ Activate(AddressView, hash, events - 1)

\* The choice of a refresh interval
ChooseRefresh(on) ==
    /\ Clicks /\ auto # on
    /\ auto' = on /\ savedAuto' = on /\ SetRefresh(on /\ view = "dashboard")
    /\ UNCHANGED <<account, view, hash, events, now, dashboard>>

\* loadDashboard(true): a tick of an interval, or a domain that was added
ReloadDashboard ==
    /\ \/ intervals > 0 /\ UNCHANGED ops
       \/ Clicks
    /\ LoadDashboard(TRUE)
    /\ UNCHANGED <<account, view, hash, events, refresh, now>>

\* The answer of a manual check, outside the lists of domains
Checked ==
    /\ Clicks /\ view # "domains"
    /\ LoadDashboard(FALSE)
    /\ UNCHANGED <<account, view, hash, events, refresh, now>>

-----------------------------------------------------------------------------
(* Start *)

\* /api/me has answered; the CSRF token is still to come.
SessionKnown ==
    /\ me = "sent"
    /\ me' = "answered" /\ userRole' = role
    /\ UNCHANGED <<role, view, hash, events, refresh, now, dashboard, ops>>

SessionRefused ==
    /\ me \in {"sent", "answered"} /\ me' = "refused"
    /\ UNCHANGED <<role, userRole, view, hash, events, refresh, now, dashboard, ops>>

\* The stored refresh is restored and the view of the address is opened.
StartViews ==
    /\ me = "answered" /\ me' = "started"
    /\ auto' = savedAuto
    /\ UNCHANGED <<role, userRole, savedAuto, now, ops>>
    /\ Activate(AddressView, hash, events)

Tick ==
    /\ now < MaxNow /\ now' = now + 1
    /\ UNCHANGED <<account, view, hash, events, refresh, dashboard, ops>>

ShellNext ==
    \/ \E v \in Views : GoTo(v) \/ JumpTo(v)
    \/ \E on \in BOOLEAN : ChooseRefresh(on)
    \/ \E k \in DOMAIN loads : SummaryRead(k) \/ SummaryLoaded(k) \/ CachedLoaded(k) \/ DashboardFailed(k)
    \/ HashChange \/ SessionKnown \/ SessionRefused \/ StartViews \/ ReloadDashboard \/ Checked \/ Tick

ShellSpec == ShellInit /\ [][ShellNext]_shellVars

-----------------------------------------------------------------------------
(* Properties *)

Settled == me = "started" /\ events = 0

\* A load whose data the server has not read yet has none.
Load == [cached : BOOLEAN, ts : Nat, read : Nat \cup {None}]

\* Every variable holds values of its type.
ShellTypeOK ==
    /\ role \in {"admin", "viewer"} /\ userRole \in {"admin", "viewer"}
    /\ me \in {"sent", "answered", "started", "refused"}
    /\ view \in Views /\ hash \in Views \cup {None}
    /\ events \in Nat /\ intervals \in Nat /\ now \in Nat /\ ops \in Nat
    /\ auto \in BOOLEAN /\ savedAuto \in BOOLEAN /\ handle \in BOOLEAN
    /\ cache = None \/ cache \in [ts : Nat, read : Nat]
    /\ loads \in Seq(Load) /\ summary \in Nat \cup {None}

\* Once the role is known and the first view chosen, a viewer is on no view of
\* an administrator, and the address names the view that is shown: although
\* _userRole says "admin" until then and a late hashchange reads a newer hash.
AddressShowsView ==
    /\ me = "started" /\ role = "viewer" => view \notin AdminViews
    /\ Settled => view = AddressView

\* At most one interval refreshes the dashboard; once the address has settled,
\* exactly while the dashboard is shown and the refresh is on.
RefreshOnDashboard ==
    /\ intervals = (IF handle THEN 1 ELSE 0)
    /\ Settled => (handle <=> auto /\ view = "dashboard")

\* What the cache offers for Ttl was read by the server no earlier than its
\* stamp, in whatever order overlapping loads are answered: a load served from
\* the cache never shows what is older than Ttl when it starts.
CacheIsYoung == cache # None => cache.ts <= cache.read

==============================================================================
