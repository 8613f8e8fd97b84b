-------------------------- MODULE ClientFrame_proofs --------------------------
(***************************************************************************)
(* Proofs about the parts of the client's frame: the shell (any views, any *)
(* number of dashboard loads that overlap and of hashchange events on      *)
(* their way), the session (any number of requests that overlap), the      *)
(* confirmation dialog (any users, domains and deletions on their way) and *)
(* the editors of e-mail templates and maintenance windows (any templates, *)
(* windows and requests that overlap); and about the frame as a whole.     *)
(***************************************************************************)
EXTENDS MCClientFrame, TLAPS

-------------------------------------------------------------------------------
(* Sequences *)

(* A sequence stays one when an element goes or comes. *)
LEMMA RemoveAtSeq ==
  ASSUME NEW S, NEW s \in Seq(S), NEW k \in DOMAIN s
  PROVE  RemoveAt(s, k) \in Seq(S)
<1>1. k \in 1..Len(s)
  OBVIOUS
<1>2. SubSeq(s, 1, k - 1) \in Seq(S)
  BY <1>1
<1>3. SubSeq(s, k + 1, Len(s)) \in Seq(S)
  BY <1>1
<1> QED
  BY <1>2, <1>3 DEF RemoveAt

LEMMA ElementOfSeq ==
  ASSUME NEW S, NEW s \in Seq(S), NEW k \in DOMAIN s
  PROVE  s[k] \in S
OBVIOUS

(* Nothing is left when the only element goes. *)
LEMMA RemoveLast ==
  ASSUME NEW S, NEW s \in Seq(S), NEW k \in DOMAIN s, ~(Len(s) > 1)
  PROVE  RemoveAt(s, k) = <<>>
<1>1. k \in 1..Len(s) /\ Len(s) \in Nat
  OBVIOUS
<1>2. k \in Nat /\ 1 <= k /\ k <= Len(s)
  BY <1>1
<1>3. \A n \in Nat : k \in Nat /\ 1 <= k /\ k <= n /\ ~(n > 1) => k = 1 /\ n = 1
  OBVIOUS
<1>4. k = 1 /\ Len(s) = 1
  BY <1>1, <1>2, <1>3
<1> QED
  BY <1>4 DEF RemoveAt

LEMMA AppendSeq ==
  ASSUME NEW S, NEW s \in Seq(S), NEW e \in S
  PROVE  Append(s, e) \in Seq(S)
OBVIOUS

-------------------------------------------------------------------------------
(* The shell and the dashboard *)

(* A load was sent no later than its data was read, and what is served     *)
(* from the cache has a cache.                                             *)
GoodLoad ==
  {l \in Load : /\ l.ts <= now /\ (l.read # None => l.ts <= l.read)
                /\ cache = None => l.cached = FALSE}

(* The role that api/me answered is the one the views are chosen by.       *)
RoleInv == me \in {"answered", "started"} => userRole = role

LoadsInv == loads \in Seq(GoodLoad)

ShellInv ==
  ShellTypeOK /\ RoleInv /\ LoadsInv /\ AddressShowsView /\ RefreshOnDashboard /\ CacheIsYoung

LEMMA ShellInitOK == ShellInit => ShellInv
<1> SUFFICES ASSUME ShellInit PROVE ShellInv
  OBVIOUS
<1>1. loads = <<>>
  BY DEF ShellInit
<1>2. loads \in Seq(Load) /\ LoadsInv
  BY <1>1 DEF LoadsInv
<1>3. ShellTypeOK
  BY <1>2, ShellAssumption DEF ShellInit, ShellTypeOK
<1> QED
  BY <1>2, <1>3, ShellAssumption
  DEF ShellInit, ShellInv, RoleInv, AddressShowsView, RefreshOnDashboard, CacheIsYoung, Settled

(* A load that is sent is a good one, and nothing else of the dashboard    *)
(* changes.                                                                *)
LEMMA LoadDashboardOK ==
  ASSUME ShellInv, now' = now, NEW force \in BOOLEAN, LoadDashboard(force)
  PROVE  /\ loads' \in Seq(Load) /\ LoadsInv' /\ CacheIsYoung'
         /\ cache' = cache /\ summary' = summary
<1> DEFINE sent == DashboardLoad(force)
<1>1. cache' = cache /\ summary' = summary /\ loads' = Append(loads, sent)
  BY DEF LoadDashboard
<1>2. GoodLoad' = GoodLoad
  BY <1>1 DEF GoodLoad
<1>3. sent \in Load /\ sent.ts = now /\ sent.read = None /\ (cache = None => sent.cached = FALSE)
  BY DEF DashboardLoad, Load, Fresh, ShellInv, ShellTypeOK
<1> HIDE DEF sent
<1>4. sent \in GoodLoad
  <2>1. now \in Nat
    BY DEF ShellInv, ShellTypeOK
  <2>2. sent.ts <= now
    BY <1>3, <2>1
  <2> QED
    BY <1>3, <2>2, Zenon DEF GoodLoad
<1>5. loads' \in Seq(GoodLoad) /\ loads' \in Seq(Load)
  BY <1>1, <1>3, <1>4, AppendSeq DEF ShellInv, LoadsInv, ShellTypeOK
<1> QED
  BY <1>1, <1>2, <1>5 DEF LoadsInv, CacheIsYoung, ShellInv

(* The dashboard is as it was. *)
LEMMA DashboardStays ==
  ASSUME ShellInv, now' = now, UNCHANGED dashboard
  PROVE  /\ loads' \in Seq(Load) /\ LoadsInv' /\ CacheIsYoung'
         /\ cache' = cache /\ summary' = summary
BY DEF ShellInv, ShellTypeOK, LoadsInv, GoodLoad, CacheIsYoung, dashboard

(* setInterval after clearInterval leaves at most one interval. *)
LEMMA SetRefreshOK ==
  ASSUME ShellInv, NEW on \in BOOLEAN, SetRefresh(on)
  PROVE  /\ handle' = on /\ intervals' = (IF handle' THEN 1 ELSE 0)
         /\ handle' \in BOOLEAN /\ intervals' \in Nat
<1>1. handle' = on /\ handle' \in BOOLEAN
  BY DEF SetRefresh
<1>2. intervals' = (IF on THEN 1 ELSE 0)
  <2>1. intervals = (IF handle THEN 1 ELSE 0)
    BY DEF ShellInv, RefreshOnDashboard
  <2>2. CASE handle
    BY <2>1, <2>2 DEF SetRefresh
  <2>3. CASE ~handle
    BY <2>1, <2>3 DEF SetRefresh
  <2> QED
    BY <2>2, <2>3
<1>3. intervals' \in Nat
  BY <1>2
<1> QED
  BY <1>1, <1>2, <1>3

(* activateView: the view is one its role may see, and unless an event is  *)
(* on its way the address names it and the refresh is right.               *)
LEMMA ActivateOK ==
  ASSUME ShellInv, NEW v \in Views, NEW h \in Views \cup {None}, NEW n \in Nat,
         now' = now, auto' \in BOOLEAN, Activate(v, h, n)
  PROVE  /\ loads' \in Seq(Load) /\ LoadsInv' /\ CacheIsYoung' /\ cache' = cache /\ summary' = summary
         /\ view' \in Views /\ hash' \in Views \cup {None} /\ events' \in Nat
         /\ handle' \in BOOLEAN /\ intervals' \in Nat /\ intervals' = (IF handle' THEN 1 ELSE 0)
         /\ userRole' # "admin" => view' \notin AdminViews
         /\ events' = 0 => view' = v /\ hash' = h /\ (handle' <=> auto' /\ v = "dashboard")
<1>1. loads' \in Seq(Load) /\ LoadsInv' /\ CacheIsYoung' /\ cache' = cache /\ summary' = summary
  BY LoadDashboardOK, DashboardStays DEF Activate
<1>2. view' = ViewFor(v) /\ view' \in Views /\ (userRole' # "admin" => view' \notin AdminViews)
  BY ShellAssumption DEF Activate, ViewFor
<1>3. /\ hash' \in Views \cup {None} /\ events' \in Nat
      /\ events' = 0 => view' = v /\ hash' = h
  BY <1>2, ShellAssumption DEF Activate, SetHash
<1>4. PICK on \in BOOLEAN : SetRefresh(on) /\ (on <=> auto' /\ v = "dashboard")
  BY DEF Activate
<1>5. /\ handle' \in BOOLEAN /\ intervals' \in Nat /\ intervals' = (IF handle' THEN 1 ELSE 0)
      /\ handle' <=> auto' /\ v = "dashboard"
  BY <1>4, SetRefreshOK
<1> QED
  BY <1>1, <1>2, <1>3, <1>5

(* What is left to show of a step that activates a view. *)
LEMMA ActivateKeepsInv ==
  ASSUME ShellInv, NEW v \in Views, NEW h \in Views \cup {None}, NEW n \in Nat,
         now' = now, auto' \in BOOLEAN, savedAuto' \in BOOLEAN, ops' \in Nat, Activate(v, h, n),
         role' = role, userRole' = userRole, me' \in {"sent", "answered", "started", "refused"},
         me' \in {"answered", "started"} => userRole = role,
         n = 0 => v = (IF h = None THEN "dashboard" ELSE h)
  PROVE  ShellInv'
<1>1. ShellTypeOK'
  BY ActivateOK DEF ShellInv, ShellTypeOK
<1>2. RoleInv' /\ LoadsInv' /\ CacheIsYoung'
  BY ActivateOK DEF RoleInv
<1>3. n # 0 => events' # 0
  BY DEF Activate, SetHash
<1>4. AddressShowsView'
  BY <1>3, ActivateOK DEF AddressShowsView, Settled, AddressView, ShellInv, ShellTypeOK
<1>5. RefreshOnDashboard'
  BY ActivateOK DEF RefreshOnDashboard, Settled
<1> QED
  BY <1>1, <1>2, <1>4, <1>5 DEF ShellInv

(* A step that leaves views, addresses, roles and the refresh alone.       *)
LEMMA DashboardOnly ==
  ASSUME ShellInv, UNCHANGED <<account, view, hash, events, refresh, now>>, ops' \in Nat,
         loads' \in Seq(Load), LoadsInv', CacheIsYoung', summary' \in Nat \cup {None},
         cache' = None \/ cache' \in [ts : Nat, read : Nat]
  PROVE  ShellInv'
<1>1. ShellTypeOK'
  BY DEF ShellInv, ShellTypeOK, account, refresh
<1> QED
  BY <1>1 DEF ShellInv, RoleInv, AddressShowsView, RefreshOnDashboard, Settled, AddressView, account, refresh

LEMMA ViewStep ==
  ASSUME ShellInv,
         \/ \E v \in Views : GoTo(v) \/ JumpTo(v)
         \/ \E on \in BOOLEAN : ChooseRefresh(on)
         \/ HashChange \/ SessionKnown \/ SessionRefused \/ StartViews
  PROVE  ShellInv'
<1>1. ASSUME NEW v \in Views, GoTo(v) PROVE ShellInv'
  <2>1. ops' \in Nat /\ events' = events + 1 /\ hash' = v
    BY <1>1 DEF GoTo, Clicks, UserActs, ShellInv, ShellTypeOK
  <2>2. UNCHANGED <<account, view, refresh, now, dashboard>>
    BY <1>1 DEF GoTo
  <2>3. ShellTypeOK'
    BY <2>1, <2>2 DEF ShellInv, ShellTypeOK, account, refresh, dashboard
  <2>4. events' # 0
    BY <2>1 DEF ShellInv, ShellTypeOK
  <2>5. LoadsInv' /\ CacheIsYoung'
    BY <2>2, DashboardStays
  <2> QED
    BY <2>2, <2>3, <2>4, <2>5
    DEF ShellInv, RoleInv, AddressShowsView, RefreshOnDashboard, Settled, account, refresh
<1>2. ASSUME NEW v \in Views, JumpTo(v) PROVE ShellInv'
  <2> DEFINE n == IF v = hash THEN events ELSE events + 1
  <2>1. n \in Nat /\ ops' \in Nat
    BY <1>2 DEF JumpTo, Clicks, UserActs, ShellInv, ShellTypeOK
  <2>2. Activate(v, v, n)
    BY <1>2 DEF JumpTo
  <2>3. v = (IF v = None THEN "dashboard" ELSE v)
    BY ShellAssumption
  <2> HIDE DEF n
  <2>4. UNCHANGED <<account, auto, savedAuto, now>>
    BY <1>2 DEF JumpTo
  <2> QED
    BY <2>1, <2>2, <2>3, <2>4, ActivateKeepsInv DEF ShellInv, ShellTypeOK, RoleInv, account
<1>3. ASSUME NEW on \in BOOLEAN, ChooseRefresh(on) PROVE ShellInv'
  <2>1. auto' = on /\ savedAuto' = on /\ ops' \in Nat
    BY <1>3 DEF ChooseRefresh, Clicks, UserActs, ShellInv, ShellTypeOK
  <2>2. UNCHANGED <<account, view, hash, events, now, dashboard>>
    BY <1>3 DEF ChooseRefresh
  <2>3. PICK b \in BOOLEAN : SetRefresh(b) /\ (b <=> on /\ view = "dashboard")
    BY <1>3 DEF ChooseRefresh
  <2>4. ShellTypeOK'
    BY <2>1, <2>2, <2>3, SetRefreshOK DEF ShellInv, ShellTypeOK, account, dashboard
  <2>5. LoadsInv' /\ CacheIsYoung'
    BY <2>2, DashboardStays
  <2>6. RefreshOnDashboard'
    BY <2>1, <2>2, <2>3, SetRefreshOK DEF RefreshOnDashboard
  <2> QED
    BY <2>2, <2>4, <2>5, <2>6
    DEF ShellInv, RoleInv, AddressShowsView, AddressView, Settled, account
<1>4. ASSUME HashChange \/ StartViews PROVE ShellInv'
  <2>1. AddressView \in Views
    BY ShellAssumption DEF AddressView, ShellInv, ShellTypeOK
  <2>2. CASE HashChange
    <3>1. events - 1 \in Nat
      BY <2>2 DEF HashChange, ShellInv, ShellTypeOK
    <3>2. Activate(AddressView, hash, events - 1) /\ UNCHANGED <<account, auto, savedAuto, now, ops>>
      BY <2>2 DEF HashChange
    <3> QED
      BY <2>1, <3>1, <3>2, ActivateKeepsInv DEF AddressView, ShellInv, ShellTypeOK, RoleInv, account
  <2>3. CASE StartViews
    <3>1. Activate(AddressView, hash, events) /\ UNCHANGED <<role, userRole, savedAuto, now, ops>>
      BY <2>3 DEF StartViews
    <3>2. auto' \in BOOLEAN /\ me' = "started" /\ userRole = role
      BY <2>3 DEF StartViews, ShellInv, ShellTypeOK, RoleInv
    <3> QED
      BY <2>1, <3>1, <3>2, ActivateKeepsInv DEF AddressView, ShellInv, ShellTypeOK
  <2> QED
    BY <1>4, <2>2, <2>3
<1>5. ASSUME SessionKnown \/ SessionRefused PROVE ShellInv'
  <2>1. /\ UNCHANGED <<role, view, hash, events, refresh, now, dashboard, ops>>
        /\ \/ me' = "answered" /\ userRole' = role
           \/ me' = "refused" /\ userRole' = userRole
    BY <1>5 DEF SessionKnown, SessionRefused
  <2>2. ShellTypeOK'
    BY <2>1 DEF ShellInv, ShellTypeOK, refresh, dashboard
  <2>3. LoadsInv' /\ CacheIsYoung'
    BY <2>1, DashboardStays
  <2> QED
    BY <2>1, <2>2, <2>3 DEF ShellInv, RoleInv, AddressShowsView, RefreshOnDashboard, Settled, refresh
<1> QED
  BY <1>1, <1>2, <1>3, <1>4, <1>5

(* The steps of the dashboard's loads. *)
LEMMA DashboardStep ==
  ASSUME ShellInv,
         \/ ReloadDashboard \/ Checked
         \/ \E k \in DOMAIN loads :
              SummaryRead(k) \/ SummaryLoaded(k) \/ CachedLoaded(k) \/ DashboardFailed(k)
  PROVE  ShellInv'
<1>1. ASSUME ReloadDashboard \/ Checked PROVE ShellInv'
  <2>1. PICK force \in BOOLEAN : LoadDashboard(force)
    BY <1>1 DEF ReloadDashboard, Checked
  <2>2. UNCHANGED <<account, view, hash, events, refresh, now>>
    BY <1>1, Zenon DEF ReloadDashboard, Checked
  <2>3. now' = now
    BY <2>2
  <2>4. ops' = ops \/ ops' = ops + 1
    BY <1>1, Zenon DEF ReloadDashboard, Checked, Clicks, UserActs
  <2>5. ops' \in Nat
    BY <2>4 DEF ShellInv, ShellTypeOK
  <2> QED
    BY <2>1, <2>2, <2>3, <2>5, LoadDashboardOK, DashboardOnly DEF ShellInv, ShellTypeOK
<1>2. ASSUME NEW k \in DOMAIN loads,
             SummaryRead(k) \/ SummaryLoaded(k) \/ CachedLoaded(k) \/ DashboardFailed(k)
      PROVE  ShellInv'
  <2>1. /\ loads[k] \in Load /\ loads[k] \in GoodLoad
        /\ loads[k].ts \in Nat /\ loads[k].ts <= now /\ now \in Nat
        /\ loads[k].read # None => loads[k].read \in Nat /\ loads[k].ts <= loads[k].read
        /\ cache = None => loads[k].cached = FALSE
    BY <1>2 DEF ShellInv, LoadsInv, ShellTypeOK, GoodLoad, Load
  <2>2. RemoveAt(loads, k) \in Seq(Load) /\ RemoveAt(loads, k) \in Seq(GoodLoad)
    BY RemoveAtSeq DEF ShellInv, LoadsInv, ShellTypeOK
  <2>3. UNCHANGED <<account, view, hash, events, refresh, now, ops>> /\ ops' \in Nat
    BY <1>2 DEF SummaryRead, SummaryLoaded, CachedLoaded, DashboardFailed, ShellInv, ShellTypeOK
  <2>4. CASE SummaryRead(k)
    <3> DEFINE new == [cached |-> FALSE, ts |-> loads[k].ts, read |-> now]
    <3>1. loads' = [loads EXCEPT ![k] = new] /\ cache' = cache /\ summary' = summary
      BY <2>4 DEF SummaryRead
    <3>2. new \in Load /\ new.ts <= now /\ (new.read # None => new.ts <= new.read) /\ new.cached = FALSE
      BY <2>1 DEF Load
    <3> HIDE DEF new
    <3>3. new \in GoodLoad
      BY <3>2, Zenon DEF GoodLoad
    <3>4. loads' \in Seq(Load) /\ loads' \in Seq(GoodLoad)
      BY <3>1, <3>2, <3>3 DEF ShellInv, LoadsInv, ShellTypeOK
    <3>5. GoodLoad' = GoodLoad
      BY <2>3, <3>1 DEF GoodLoad
    <3> QED
      BY <2>3, <3>1, <3>4, <3>5, DashboardOnly DEF LoadsInv, CacheIsYoung, ShellInv, ShellTypeOK
  <2>5. CASE SummaryLoaded(k)
    <3>1. /\ loads' = RemoveAt(loads, k) /\ summary' = loads[k].read /\ loads[k].read # None
          /\ cache' = [ts |-> loads[k].ts, read |-> loads[k].read]
      BY <2>5 DEF SummaryLoaded
    <3>2. cache' # None
      BY <2>1, <3>1, ShellAssumption
    <3>3. loads' \in Seq(GoodLoad')
      <4>1. GoodLoad \subseteq GoodLoad'
        BY <2>3, <3>2, Zenon DEF GoodLoad
      <4> QED
        BY <2>2, <3>1, <4>1
    <3> QED
      BY <2>1, <2>2, <2>3, <3>1, <3>3, DashboardOnly DEF LoadsInv, CacheIsYoung
  <2>6. CASE CachedLoaded(k)
    <3>1. loads' = RemoveAt(loads, k) /\ summary' = cache.read /\ cache' = cache /\ cache # None
      BY <2>1, <2>6 DEF CachedLoaded
    <3>2. GoodLoad' = GoodLoad
      BY <2>3, <3>1 DEF GoodLoad
    <3> QED
      BY <2>2, <2>3, <3>1, <3>2, DashboardOnly DEF LoadsInv, CacheIsYoung, ShellInv, ShellTypeOK
  <2>7. CASE DashboardFailed(k)
    <3>1. loads' = RemoveAt(loads, k) /\ summary' = summary /\ cache' = cache
      BY <2>7 DEF DashboardFailed
    <3>2. GoodLoad' = GoodLoad
      BY <2>3, <3>1 DEF GoodLoad
    <3> QED
      BY <2>2, <2>3, <3>1, <3>2, DashboardOnly DEF LoadsInv, CacheIsYoung, ShellInv, ShellTypeOK
  <2> QED
    BY <1>2, <2>4, <2>5, <2>6, <2>7
<1> QED
  BY <1>1, <1>2

LEMMA ShellStep == ShellInv /\ [ShellNext]_shellVars => ShellInv'
<1> SUFFICES ASSUME ShellInv, [ShellNext]_shellVars PROVE ShellInv'
  OBVIOUS
<1>1. CASE Tick
  <2>1. now' = now + 1 /\ UNCHANGED <<account, view, hash, events, refresh, dashboard, ops>>
    BY <1>1 DEF Tick
  <2>2. now \in Nat /\ now' \in Nat
    BY <2>1 DEF ShellInv, ShellTypeOK
  <2>3. GoodLoad \subseteq GoodLoad'
    <3>1. \A l \in GoodLoad : l.ts <= now'
      BY <2>1, <2>2 DEF GoodLoad, Load
    <3> QED
      BY <2>1, <3>1, Zenon DEF GoodLoad, dashboard
  <2>4. LoadsInv'
    BY <2>1, <2>3 DEF LoadsInv, ShellInv, dashboard
  <2>5. ShellTypeOK'
    BY <2>1, <2>2 DEF ShellInv, ShellTypeOK, account, refresh, dashboard
  <2> QED
    BY <2>1, <2>4, <2>5
    DEF ShellInv, RoleInv, AddressShowsView, AddressView, RefreshOnDashboard, CacheIsYoung, Settled,
        account, refresh, dashboard
<1>2. CASE UNCHANGED shellVars
  <2>1. UNCHANGED <<account, view, hash, events, refresh, now>> /\ UNCHANGED dashboard /\ ops' \in Nat
    BY <1>2 DEF shellVars, account, refresh, dashboard, ShellInv, ShellTypeOK
  <2> QED
    BY <2>1, DashboardStays, DashboardOnly DEF ShellInv, ShellTypeOK
<1> QED
  BY <1>1, <1>2, ViewStep, DashboardStep DEF ShellNext

(* The variables of the client's frame have values of their types. *)
THEOREM ShellTypeCorrect == ShellSpec => []ShellTypeOK
<1>1. ShellInv => ShellTypeOK
  BY DEF ShellInv
<1> QED
  BY <1>1, ShellInitOK, ShellStep, PTL DEF ShellSpec

(* activateView and hashchange: once both are done the address names the   *)
(* view, and a viewer is on no view of an administrator.                   *)
THEOREM AddressIsShown == ShellSpec => []AddressShowsView
<1>1. ShellInv => AddressShowsView
  BY DEF ShellInv
<1> QED
  BY <1>1, ShellInitOK, ShellStep, PTL DEF ShellSpec

(* The dashboard is refreshed by at most one interval, and only where it   *)
(* is shown, once the address has settled.                                 *)
THEOREM RefreshIsSingle == ShellSpec => []RefreshOnDashboard
<1>1. ShellInv => RefreshOnDashboard
  BY DEF ShellInv
<1> QED
  BY <1>1, ShellInitOK, ShellStep, PTL DEF ShellSpec

(* loadDashboard: the cache is never stamped later than its data was read. *)
THEOREM CacheStaysYoung == ShellSpec => []CacheIsYoung
<1>1. ShellInv => CacheIsYoung
  BY DEF ShellInv
<1> QED
  BY <1>1, ShellInitOK, ShellStep, PTL DEF ShellSpec

-------------------------------------------------------------------------------
(* The session *)

(* The login page had no answer that healed a token; a timer runs exactly  *)
(* while there is an error, and dismissTimer is its handle.                *)
PageInv == page = "login" => ~healed
TimerInv == (dismiss <=> error) /\ timers = (IF error THEN 1 ELSE 0)

SessionInv == SessionTypeOK /\ PageInv /\ TimerInv /\ ApiAnswerHeals

LEMMA SessionInitOK == SessionInit => SessionInv
<1> SUFFICES ASSUME SessionInit PROVE SessionInv
  OBVIOUS
<1>1. flight \in Seq(Requests({"login"}))
  BY DEF SessionInit
<1>2. cookie \in [user : BOOLEAN, nonce : Nat]
  BY DEF SessionInit, NoSession
<1>3. SessionTypeOK
  BY <1>1, <1>2 DEF SessionInit, SessionTypeOK
<1> QED
  BY <1>3 DEF SessionInit, SessionInv, PageInv, TimerInv, ApiAnswerHeals

(* Loading a page establishes the invariant, whatever was before. *)
LEMMA VisitOK ==
  ASSUME SessionInv, Visit, cookie' \in [user : BOOLEAN, nonce : Nat], nonces' \in Nat, ops' \in Nat
  PROVE  SessionInv'
<1>1. page' \in {"login", "app"} /\ ~healed' /\ ~error' /\ ~dismiss' /\ timers' = 0 /\ token' = 0
  BY DEF Visit
<1>2. flight' \in Seq(Requests(IF page' = "login" THEN {"login"} ELSE AppKinds))
  <2>1. CASE cookie'.user
    BY <2>1 DEF Visit, Requests, AppKinds
  <2>2. CASE ~cookie'.user
    BY <2>2 DEF Visit
  <2> QED
    BY <2>1, <2>2
<1>3. healed' \in BOOLEAN /\ error' \in BOOLEAN /\ dismiss' \in BOOLEAN /\ busy' \in BOOLEAN /\ entering' \in BOOLEAN
  BY DEF Visit
<1>4. SessionTypeOK'
  BY <1>1, <1>2, <1>3 DEF SessionTypeOK
<1> QED
  BY <1>1, <1>4 DEF SessionInv, PageInv, TimerInv, ApiAnswerHeals

(* What a step must show that stays on its page. *)
LEMMA SamePage ==
  ASSUME SessionInv, page' = page,
         flight' \in Seq(Requests(IF page = "login" THEN {"login"} ELSE AppKinds)),
         cookie' \in [user : BOOLEAN, nonce : Nat], nonces' \in Nat, token' \in Nat, ops' \in Nat,
         timers' \in Nat, healed' \in BOOLEAN, error' \in BOOLEAN, dismiss' \in BOOLEAN,
         busy' \in BOOLEAN, entering' \in BOOLEAN,
         PageInv', TimerInv', healed' => token' = cookie'.nonce
  PROVE  SessionInv'
BY DEF SessionInv, SessionTypeOK, ApiAnswerHeals

(* The answer to a request leaves a nonce. *)
LEMMA AnswerNat ==
  ASSUME NEW r \in Requests(AppKinds), nonces \in Nat
  PROVE  Answer(r) \in Nat
BY DEF Answer, Rotated, Accepted, Requests

(* A cookie that an answer sets is one, and the nonces only grow. *)
LEMMA SetCookieOK ==
  ASSUME NEW r \in Requests(AppKinds), nonces \in Nat, SetCookie(r)
  PROVE  /\ cookie' \in [user : BOOLEAN, nonce : Nat] /\ nonces' \in Nat
         /\ cookie'.nonce = Answer(r)
BY AnswerNat DEF SetCookie

(* The header of an answer leaves the cookie's nonce in the token. *)
LEMMA ReadHeaderOK ==
  ASSUME NEW r \in Requests(AppKinds), nonces \in Nat, token \in Nat, SetCookie(r), ReadHeader(r)
  PROVE  token' \in Nat /\ healed' \in BOOLEAN /\ (healed' => token' = cookie'.nonce)
<1>1. CASE Answer(r) = 0
  BY <1>1 DEF ReadHeader
<1>2. CASE Answer(r) # 0
  BY <1>2, AnswerNat, SetCookieOK DEF ReadHeader
<1> QED
  BY <1>1, <1>2

(* clearError stops the timer of the error that goes. *)
LEMMA ClearErrorOK ==
  ASSUME SessionInv, ClearError
  PROVE  TimerInv' /\ timers' \in Nat /\ error' \in BOOLEAN /\ dismiss' \in BOOLEAN
<1>1. error' = FALSE /\ dismiss' = FALSE
  BY DEF ClearError
<1>2. timers' = 0
  BY DEF ClearError, SessionInv, SessionTypeOK, TimerInv
<1> QED
  BY <1>1, <1>2 DEF TimerInv

(* scheduleDismiss leaves one timer, that of the error that is shown. *)
LEMMA ScheduleDismissOK ==
  ASSUME SessionInv, ScheduleDismiss, error' = TRUE
  PROVE  TimerInv' /\ timers' \in Nat /\ error' \in BOOLEAN /\ dismiss' \in BOOLEAN
<1>1. dismiss' = TRUE
  BY DEF ScheduleDismiss
<1>2. timers' = 1
  BY DEF ScheduleDismiss, SessionInv, SessionTypeOK, TimerInv
<1> QED
  BY <1>1, <1>2 DEF TimerInv

(* The steps on the login page: its requests are logins. *)
LEMMA LoginPageStep ==
  ASSUME SessionInv,
         \/ Submit \/ Dismissed \/ Typed \/ \E k \in DOMAIN flight : LoggedIn(k) \/ LoginFailed(k)
  PROVE  SessionInv'
<1> USE DEF SessionInv, SessionTypeOK
<1>1. CASE Submit
  <2>1. Request("login", 0) \in Requests({"login"})
    BY DEF Request, Requests
  <2>2. flight' \in Seq(Requests({"login"}))
    BY <1>1, <2>1 DEF Submit, Send
  <2> QED
    BY <1>1, <2>2, ClearErrorOK, SamePage DEF Submit, Acts, UserActs, PageInv, ApiAnswerHeals
<1>2. CASE Dismissed
  BY <1>2, ClearErrorOK, SamePage DEF Dismissed, PageInv, ApiAnswerHeals
<1>3. CASE Typed
  <2>1. error' = TRUE
    BY <1>3 DEF Typed
  <2> QED
    BY <1>3, <2>1, ScheduleDismissOK, SamePage DEF Typed, PageInv, ApiAnswerHeals
<1>4. ASSUME NEW k \in DOMAIN flight, LoggedIn(k) \/ LoginFailed(k) PROVE SessionInv'
  <2>1. flight[k] \in Requests(IF page = "login" THEN {"login"} ELSE AppKinds)
    OBVIOUS
  <2>2. page = "login"
    BY <1>4, <2>1 DEF LoggedIn, LoginFailed, Requests, AppKinds, TokenKinds
  <2>3. flight' \in Seq(Requests({"login"}))
    BY <1>4, <2>2, RemoveAtSeq DEF LoggedIn, LoginFailed
  <2>4. cookie' \in [user : BOOLEAN, nonce : Nat]
    <3>1. CASE LoggedIn(k)
      BY <3>1 DEF LoggedIn
    <3>2. CASE LoginFailed(k)
      BY <2>1, <3>2 DEF LoginFailed, Requests
    <3> QED
      BY <1>4, <3>1, <3>2
  <2>5. ~healed'
    BY <1>4, <2>2 DEF LoggedIn, LoginFailed, PageInv
  <2>6. CASE LoggedIn(k)
    BY <2>2, <2>3, <2>4, <2>5, <2>6, SamePage DEF LoggedIn, PageInv, TimerInv
  <2>7. CASE LoginFailed(k)
    BY <2>2, <2>3, <2>4, <2>5, <2>7, ScheduleDismissOK, SamePage DEF LoginFailed, PageInv
  <2> QED
    BY <1>4, <2>6, <2>7
<1> QED
  BY <1>1, <1>2, <1>3, <1>4

(* The steps that load a page. *)
LEMMA LeaveStep ==
  ASSUME SessionInv,
         FadedOut \/ \E k \in DOMAIN flight : LoggedOut(k) \/ Unauthorized(k)
  PROVE  SessionInv'
<1> USE DEF SessionInv, SessionTypeOK
<1>1. CASE FadedOut
  BY <1>1, VisitOK DEF FadedOut
<1>2. ASSUME NEW k \in DOMAIN flight, LoggedOut(k) PROVE SessionInv'
  BY <1>2, VisitOK DEF LoggedOut, NoSession
<1>3. ASSUME NEW k \in DOMAIN flight, Unauthorized(k) PROVE SessionInv'
  BY <1>3, VisitOK DEF Unauthorized
<1> QED
  BY <1>1, <1>2, <1>3

(* The steps of the application; an answer is judged by its own cookie. *)
LEMMA AppStep ==
  ASSUME SessionInv, NEW k \in DOMAIN flight,
         \/ Answered(k) \/ Fetched(k) \/ MeAnswered(k) \/ TokenAnswered(k) \/ TokenRead(k)
         \/ ClearSent(k) \/ Cleared(k) \/ Refused(k)
  PROVE  SessionInv'
<1> DEFINE r == flight[k]
<1>1. r \in Requests(IF page = "login" THEN {"login"} ELSE AppKinds)
  BY DEF SessionInv, SessionTypeOK
<1>2. page = "app" /\ r \in Requests(AppKinds) /\ flight \in Seq(Requests(AppKinds))
  BY <1>1 DEF SessionInv, SessionTypeOK, Requests, TokenKinds, Answered, Fetched, MeAnswered,
              TokenAnswered, TokenRead, ClearSent, Cleared, Refused
<1>3. RemoveAt(flight, k) \in Seq(Requests(AppKinds))
  BY <1>2, RemoveAtSeq
<1>4. nonces \in Nat /\ token \in Nat /\ cookie \in [user : BOOLEAN, nonce : Nat] /\ Answer(r) \in Nat
  BY <1>2, AnswerNat DEF SessionInv, SessionTypeOK
<1> HIDE DEF r
<1>5. CASE Answered(k)
  <2>1. SetCookie(r) /\ ReadHeader(r)
    BY <1>5 DEF Answered, r
  <2> QED
    BY <1>2, <1>3, <1>4, <1>5, <2>1, SetCookieOK, ReadHeaderOK, SamePage
    DEF Answered, loginForm, SessionInv, SessionTypeOK, PageInv, TimerInv
<1>6. CASE Fetched(k)
  <2>1. SetCookie(r)
    BY <1>6 DEF Fetched, r
  <2> QED
    BY <1>2, <1>3, <1>4, <1>6, <2>1, SetCookieOK, SamePage
    DEF Fetched, loginForm, SessionInv, SessionTypeOK, PageInv, TimerInv
<1>7. CASE MeAnswered(k)
  <2>1. SetCookie(r)
    BY <1>7 DEF MeAnswered, r
  <2>2. [kind |-> "csrf", cookie |-> cookie', token |-> 0] \in Requests(AppKinds)
    BY <1>2, <1>4, <2>1, SetCookieOK DEF Requests, AppKinds, TokenKinds
  <2>3. flight' \in Seq(Requests(AppKinds))
    BY <1>3, <1>7, <2>2 DEF MeAnswered
  <2> QED
    BY <1>2, <1>4, <1>7, <2>1, <2>3, SetCookieOK, SamePage
    DEF MeAnswered, loginForm, SessionInv, SessionTypeOK, PageInv, TimerInv
<1>8. CASE TokenAnswered(k)
  <2>1. SetCookie(r)
    BY <1>8 DEF TokenAnswered, r
  <2>2. [kind |-> Body(r.kind), cookie |-> r.cookie, token |-> Answer(r)] \in Requests(AppKinds)
    BY <1>2, <1>4 DEF Requests, AppKinds, Body
  <2>3. flight' \in Seq(Requests(AppKinds))
    BY <1>2, <1>8, <2>2 DEF TokenAnswered, r
  <2> QED
    BY <1>2, <1>4, <1>8, <2>1, <2>3, SetCookieOK, SamePage
    DEF TokenAnswered, loginForm, SessionInv, SessionTypeOK, PageInv, TimerInv
<1>9. CASE TokenRead(k)
  <2>1. r.token \in Nat /\ Request("post", r.token) \in Requests(AppKinds)
    BY <1>2, <1>4 DEF Request, Requests, AppKinds
  <2>2. flight' \in Seq(Requests(AppKinds)) /\ token' = r.token
    BY <1>3, <1>9, <2>1 DEF TokenRead, r
  <2> QED
    BY <1>2, <1>4, <1>9, <2>1, <2>2, SamePage
    DEF TokenRead, loginForm, SessionInv, SessionTypeOK, PageInv, TimerInv
<1>10. CASE ClearSent(k)
  <2>1. Request("clear", r.token) \in Requests(AppKinds)
    BY <1>2, <1>4 DEF Request, Requests, AppKinds
  <2>2. flight' \in Seq(Requests(AppKinds))
    BY <1>3, <1>10, <2>1 DEF ClearSent, r
  <2> QED
    BY <1>2, <1>4, <1>10, <2>2, SamePage
    DEF ClearSent, loginForm, SessionInv, SessionTypeOK, PageInv, TimerInv, ApiAnswerHeals
<1>11. CASE Cleared(k)
  <2>1. SetCookie(r) /\ (ReadHeader(r) \/ (UNCHANGED token /\ healed' = FALSE))
    BY <1>11 DEF Cleared, r
  <2> QED
    BY <1>2, <1>3, <1>4, <1>11, <2>1, SetCookieOK, ReadHeaderOK, SamePage
    DEF Cleared, loginForm, SessionInv, SessionTypeOK, PageInv, TimerInv
<1>12. CASE Refused(k)
  <2>1. Request("post", token) \in Requests(AppKinds)
    BY <1>4 DEF Request, Requests, AppKinds
  <2>2. flight' \in Seq(Requests(AppKinds))
    BY <1>3, <1>12, <2>1 DEF Refused, r
  <2> QED
    BY <1>2, <1>4, <1>12, <2>2, SamePage
    DEF Refused, loginForm, SessionInv, SessionTypeOK, PageInv, TimerInv, ApiAnswerHeals
<1> QED
  BY <1>5, <1>6, <1>7, <1>8, <1>9, <1>10, <1>11, <1>12

(* What the user starts, the end of the session, and a stutter. *)
LEMMA OtherStep ==
  ASSUME SessionInv,
         \/ \E kind \in RequestKinds : StartRequest(kind)
         \/ Expire \/ UNCHANGED sessionVars
  PROVE  SessionInv'
<1> USE DEF SessionInv, SessionTypeOK, PageInv, TimerInv
<1>1. ASSUME NEW kind \in RequestKinds, StartRequest(kind) PROVE SessionInv'
  <2>1. PICK sent \in AppKinds, tok \in Nat : Send(sent, tok)
    <3>1. token \in Nat /\ kind \in AppKinds /\ "first" \in AppKinds /\ "clearToken" \in AppKinds
      BY DEF RequestKinds, AppKinds, TokenKinds
    <3>2. \/ Send("first", 0) \/ Send(kind, token) \/ Send("clearToken", 0) \/ Send(kind, 0)
      BY <1>1 DEF StartRequest
    <3> QED
      BY <3>1, <3>2
  <2>2. page = "app" /\ Request(sent, tok) \in Requests(AppKinds)
    BY <1>1 DEF StartRequest, Request, Requests
  <2>3. flight' \in Seq(Requests(AppKinds))
    BY <2>1, <2>2 DEF Send
  <2> QED
    BY <1>1, <2>2, <2>3, SamePage DEF StartRequest, PageInv, Acts, UserActs, loginForm, ApiAnswerHeals
<1>2. CASE Expire
  <2>1. cookie' \in [user : BOOLEAN, nonce : Nat] /\ ops' \in Nat
    BY <1>2 DEF Expire, Acts, UserActs, NoSession
  <2> QED
    BY <1>2, <2>1, SamePage DEF Expire, PageInv, loginForm
<1>3. CASE UNCHANGED sessionVars
  BY <1>3 DEF sessionVars, PageInv, ApiAnswerHeals
<1> QED
  BY <1>1, <1>2, <1>3

LEMMA SessionStep == SessionInv /\ [SessionNext]_sessionVars => SessionInv'
BY LoginPageStep, LeaveStep, AppStep, OtherStep DEF SessionNext

(* The session's variables have values of their types, and each page has   *)
(* its own requests on their way.                                          *)
THEOREM SessionTypeCorrect == SessionSpec => []SessionTypeOK
<1>1. SessionInv => SessionTypeOK
  BY DEF SessionInv
<1> QED
  BY <1>1, SessionInitOK, SessionStep, PTL DEF SessionSpec

(* api() of app.js: after an answer with a token the token is the cookie's. *)
THEOREM AnswersHeal == SessionSpec => []ApiAnswerHeals
<1>1. SessionInv => ApiAnswerHeals
  BY DEF SessionInv
<1> QED
  BY <1>1, SessionInitOK, SessionStep, PTL DEF SessionSpec

(* login.js: one timer runs while the error is shown, and none otherwise. *)
THEOREM ErrorIsTimed == SessionSpec => []ErrorHasItsTimer
<1>1. SessionInv => ErrorHasItsTimer
  BY DEF SessionInv, TimerInv, ErrorHasItsTimer
<1> QED
  BY <1>1, SessionInitOK, SessionStep, PTL DEF SessionSpec

-------------------------------------------------------------------------------
(* The confirmation dialog *)

\* What an open dialog asks about has one name, and the field for it is there
\* if that is a user.
AsksForOne ==
    open => target \in Names \ {Self} /\ (row <=> target \in Users)

\* While a user is asked about, the field's handler compares with that user's
\* name, and the button is enabled only after it was typed: Ends enables it, but
\* then nothing is asked any more.
ButtonIsEarned ==
    target \in Users => watched = target /\ (enabled => target \in typed)

DialogInv == DialogTypeOK /\ AsksForOne /\ ButtonIsEarned /\ TypedBeforeDelete

LEMMA DialogInitOK == DialogInit => DialogInv
BY DialogAssumption
DEF DialogInit, DialogInv, DialogTypeOK, AsksForOne, ButtonIsEarned, TypedBeforeDelete, Names

\* Every step keeps the invariant.
LEMMA DialogStep == DialogInv /\ [DialogNext]_dialogVars => DialogInv'
<1> SUFFICES ASSUME DialogInv, [DialogNext]_dialogVars PROVE DialogInv'
  OBVIOUS
<1> USE DialogAssumption DEF DialogInv, DialogTypeOK, AsksForOne, ButtonIsEarned, Names
<1>1. ASSUME NEW n \in Names, Ask(n) PROVE DialogInv'
  <2> USE <1>1 DEF Ask
  <2>1. DialogTypeOK'
    <3>1. (row \in BOOLEAN /\ enabled \in BOOLEAN)'
      OBVIOUS
    <3> QED
      BY <3>1
  <2>2. AsksForOne' /\ ButtonIsEarned'
    <3>1. row' <=> n \in Users
      OBVIOUS
    <3>2. enabled' <=> n \notin Users
      OBVIOUS
    <3> QED
      BY <3>1, <3>2
  <2> QED
    BY <2>1, <2>2 DEF TypedBeforeDelete
<1>2. ASSUME NEW n \in Names, Type(n) PROVE DialogInv'
  BY <1>2 DEF Type, Visible, TypedBeforeDelete
<1>3. CASE Delete
  <2> DEFINE new == [name |-> target, at |-> IF target \in Users THEN "sent" ELSE "fading"]
  <2>1. reqs' = reqs \cup {new} /\ ~enabled'
    BY <1>3 DEF Delete
  <2>2. new.name = target /\ new.at \in {"fading", "sent", "logging"}
    OBVIOUS
  <2>3. target \in Names \ {Self} /\ (target \in Users => target \in typed)
    BY <1>3 DEF Delete, Visible
  <2>4. UNCHANGED <<target, open, hidden, input, row, watched, typed>>
    BY <1>3 DEF Delete
  <2> HIDE DEF new
  <2>5. DialogTypeOK'
    BY <2>1, <2>2, <2>3, <2>4, <1>3 DEF Delete
  <2> QED
    BY <2>1, <2>2, <2>3, <2>4, <2>5 DEF TypedBeforeDelete
<1>4. ASSUME NEW r \in reqs, Faded(r) PROVE DialogInv'
  BY <1>4 DEF Faded, TypedBeforeDelete
<1>5. ASSUME NEW r \in reqs, Deleted(r) PROVE DialogInv'
  BY <1>5 DEF Deleted, TypedBeforeDelete
<1>6. ASSUME NEW r \in reqs, Ends(r) PROVE DialogInv'
  BY <1>6 DEF Ends, Close, TypedBeforeDelete
<1>7. CASE Cancel
  BY <1>7 DEF Cancel, Close, TypedBeforeDelete
<1>8. CASE Escape
  BY <1>8 DEF Escape, Close, TypedBeforeDelete
<1>9. CASE ReloadPage
  BY <1>9 DEF ReloadPage, TypedBeforeDelete
<1>10. CASE UNCHANGED dialogVars
  BY <1>10 DEF dialogVars, TypedBeforeDelete
<1>11. QED
  BY <1>1, <1>2, <1>3, <1>4, <1>5, <1>6, <1>7, <1>8, <1>9, <1>10 DEF DialogNext

\* The values of the dialog's variables are of their types.
THEOREM DialogTypeCorrect == DialogSpec => []DialogTypeOK
<1>1. DialogInv => DialogTypeOK
  BY DEF DialogInv
<1>2. QED
  BY <1>1, DialogInitOK, DialogStep, PTL DEF DialogSpec

\* No user is deleted whose name was not typed while that user was asked about:
\* confirmDelete and its handlers, with deletions answered at any time.
THEOREM UsersAreTyped == DialogSpec => []TypedBeforeDelete
<1>1. DialogInv => TypedBeforeDelete
  BY DEF DialogInv
<1>2. QED
  BY <1>1, DialogInitOK, DialogStep, PTL DEF DialogSpec

-------------------------------------------------------------------------------
(* E-mail templates and maintenance windows *)

(* The form of a window is that of the window it will be saved to, and so  *)
(* is every save on its way.                                               *)
WindowInv ==
  /\ window # None => editing = window.of
  /\ SavesOwnWindow

(* What holds of the templates as long as nothing raced: a save is of what *)
(* is shown, loads bring what the server has, and what is remembered       *)
(* differs from it by the save on its way only.                            *)
Unraced ==
  /\ put # None => fetches = <<>> /\ resets = <<>> /\ put.tpl = current /\ put.text = form
  /\ fetches # <<>> => resets = <<>>
  /\ fetches \in Seq({None, db})
  /\ memory # None /\ fetches = <<>> /\ resets = <<>> =>
       db = (IF put # None /\ put.stored THEN [memory EXCEPT ![current] = put.text] ELSE memory)
  /\ memory # None => original = memory[current]

MarkInv == memory # None /\ ~dirty => form = original

TemplateInv == MarkInv /\ (~raced => Unraced)

EditorInv == EditorTypeOK /\ WindowInv /\ TemplateInv

LEMMA InvImpliesStored == EditorInv => UnmarkedIsStored
BY DEF EditorInv, TemplateInv, MarkInv, Unraced, UnmarkedIsStored, Busy, EditorTypeOK

LEMMA EditorInitOK == EditorInit => EditorInv
<1> SUFFICES ASSUME EditorInit PROVE EditorInv
  OBVIOUS
<1>1. fetches = <<>> /\ resets = <<>> /\ gets = <<>> /\ puts = <<>>
  BY DEF EditorInit
<1>2. current \in Templates
  BY TemplateAssumption DEF EditorInit
<1>3. EditorTypeOK
  <2>1. /\ fetches \in Seq(Table \cup {None}) /\ gets \in Seq(Get) /\ puts \in Seq(Put)
        /\ resets \in Seq(Reset)
    BY <1>1
  <2>2. db \in Table /\ days \in Rows
    BY DEF EditorInit, Table, Rows
  <2> QED
    BY <1>2, <2>1, <2>2, TemplateAssumption DEF EditorInit, EditorTypeOK
<1>4. WindowInv /\ fetches \in Seq({None, db})
  BY <1>1 DEF EditorInit, WindowInv, SavesOwnWindow
<1>5. TemplateInv
  BY <1>1, <1>4 DEF EditorInit, TemplateInv, MarkInv, Unraced
<1> QED
  BY <1>3, <1>4, <1>5 DEF EditorInv

(* The maintenance windows: what one of their steps leaves alone.          *)
LEMMA TemplatesStay ==
  ASSUME EditorInv, UNCHANGED templates
  PROVE  TemplateInv'
<1>1. UNCHANGED <<db, memory, current, form, original, dirty, fetches, put, resets, raced>>
  BY DEF templates
<1> QED
  BY <1>1 DEF EditorInv, TemplateInv, MarkInv, Unraced

LEMMA WindowsStay ==
  ASSUME EditorInv, UNCHANGED windows
  PROVE  WindowInv'
BY DEF EditorInv, WindowInv, SavesOwnWindow, windows

LEMMA WindowStep ==
  ASSUME EditorInv,
         \/ \E w \in Windows : EditWindow(w)
         \/ \E k \in DOMAIN gets : WindowsServed(k) \/ EditAnswered(k) \/ EditFailed(k)
         \/ \E d \in Days : ChooseDay(d)
         \/ \E k \in DOMAIN puts : WindowStored(k) \/ WindowSaved(k) \/ WindowSaveFailed(k)
         \/ AddWindow \/ SaveWindow \/ CancelWindow
  PROVE  EditorInv'
<1> USE TemplateAssumption DEF EditorInv, EditorTypeOK, WindowInv, Does, Goes, FailsOnce, UserActs,
                               SavesOwnWindow
<1>1. UNCHANGED templates => TemplateInv'
  BY TemplatesStay
<1> USE DEF templates
<1>2. ASSUME NEW w \in Windows, EditWindow(w) PROVE EditorInv'
  <2>1. [id |-> w, rows |-> None] \in Get
    BY DEF Get
  <2>2. gets' \in Seq(Get)
    BY <1>2, <2>1, AppendSeq DEF EditWindow
  <2> QED
    BY <1>1, <1>2, <2>2 DEF EditWindow
<1>3. ASSUME NEW k \in DOMAIN gets, WindowsServed(k) PROVE EditorInv'
  <2>1. gets[k] \in Get
    OBVIOUS
  <2>2. [id |-> gets[k].id, rows |-> days] \in Get
    BY <2>1 DEF Get
  <2>3. gets' \in Seq(Get)
    BY <1>3, <2>2 DEF WindowsServed
  <2> QED
    BY <1>1, <1>3, <2>3 DEF WindowsServed
<1>4. ASSUME NEW k \in DOMAIN gets, EditAnswered(k) PROVE EditorInv'
  <2>1. gets[k] \in Get /\ gets[k].rows # None
    BY <1>4 DEF EditAnswered
  <2>2. gets[k].id \in Windows /\ gets[k].rows[gets[k].id] \in Days
    BY <2>1 DEF Get, Rows
  <2>3. gets' \in Seq(Get)
    BY <1>4, RemoveAtSeq DEF EditAnswered
  <2> QED
    BY <1>1, <1>4, <2>2, <2>3 DEF EditAnswered, ShowForm
<1>5. ASSUME NEW d \in Days, ChooseDay(d) PROVE EditorInv'
  BY <1>1, <1>5 DEF ChooseDay
<1>6. ASSUME NEW k \in DOMAIN puts, WindowStored(k) PROVE EditorInv'
  <2>1. puts[k] \in Put /\ puts[k].id = puts[k].of
    OBVIOUS
  <2> DEFINE new == [id |-> puts[k].id, of |-> puts[k].of, stored |-> TRUE, day |-> puts[k].day]
  <2>2. new \in Put /\ new.id = new.of
    BY <2>1 DEF Put
  <2>3. puts' = [puts EXCEPT ![k] = new]
    BY <1>6 DEF WindowStored
  <2>4. days' \in Rows
    BY <1>6, <2>1 DEF WindowStored, Rows, Put
  <2> HIDE DEF new
  <2>5. puts' \in Seq(Put) /\ \A j \in DOMAIN puts' : puts'[j].id = puts'[j].of
    BY <2>2, <2>3
  <2> QED
    BY <1>1, <1>6, <2>4, <2>5 DEF WindowStored
<1>7. ASSUME NEW k \in DOMAIN puts, WindowSaved(k) PROVE EditorInv'
  <2>1. puts \in Seq({p \in Put : p.id = p.of})
    OBVIOUS
  <2>2. puts' \in Seq({p \in Put : p.id = p.of})
    BY <1>7, <2>1, RemoveAtSeq DEF WindowSaved
  <2>3. puts' \in Seq(Put) /\ \A j \in DOMAIN puts' : puts'[j].id = puts'[j].of
    BY <2>2
  <2> QED
    BY <1>1, <1>7, <2>3 DEF WindowSaved, HideForm
<1>8. CASE AddWindow
  BY <1>1, <1>8 DEF AddWindow, ShowForm, EveryDay
<1>9. CASE SaveWindow
  <2> DEFINE new == [id |-> editing, of |-> window.of, stored |-> FALSE,
                     day |-> IF window.day = 0 THEN EveryDay ELSE window.day]
  <2>1. new \in Put /\ new.id = new.of
    BY <1>9 DEF SaveWindow, Put, EveryDay
  <2>2. puts' = Append(puts, new)
    BY <1>9 DEF SaveWindow
  <2> HIDE DEF new
  <2>3. puts' \in Seq(Put) /\ \A j \in DOMAIN puts' : puts'[j].id = puts'[j].of
    BY <2>1, <2>2
  <2> QED
    BY <1>1, <1>9, <2>3 DEF SaveWindow
<1>10. CASE CancelWindow
  BY <1>1, <1>10 DEF CancelWindow, HideForm
<1>11. ASSUME NEW k \in DOMAIN gets, EditFailed(k) PROVE EditorInv'
  <2>1. gets' \in Seq(Get)
    BY <1>11, RemoveAtSeq DEF EditFailed
  <2> QED
    BY <1>1, <1>11, <2>1 DEF EditFailed
<1>12. ASSUME NEW k \in DOMAIN puts, WindowSaveFailed(k) PROVE EditorInv'
  <2>1. puts \in Seq({p \in Put : p.id = p.of})
    OBVIOUS
  <2>2. puts' \in Seq({p \in Put : p.id = p.of})
    BY <1>12, <2>1, RemoveAtSeq DEF WindowSaveFailed
  <2>3. puts' \in Seq(Put) /\ \A j \in DOMAIN puts' : puts'[j].id = puts'[j].of
    BY <2>2
  <2> QED
    BY <1>1, <1>12, <2>3 DEF WindowSaveFailed
<1> QED
  BY <1>2, <1>3, <1>4, <1>5, <1>6, <1>7, <1>8, <1>9, <1>10, <1>11, <1>12

(* renderEmailTplTab leaves a form that is what is remembered. *)
LEMMA RenderTabOK ==
  ASSUME NEW t \in Templates, memory' \in Table \cup {None}, RenderTab(t)
  PROVE  /\ current' \in Templates /\ form' \in Texts /\ original' \in Texts \cup {None} /\ dirty' = FALSE
         /\ MarkInv' /\ (memory' # None => original' = memory'[current'])
<1>1. memory' # None => memory'[t] \in Texts
  BY DEF Table
<1> QED
  BY <1>1, TemplateAssumption DEF RenderTab, MarkInv

LEMMA LoadStep ==
  ASSUME EditorInv,
         \/ OpenTemplates
         \/ \E k \in DOMAIN fetches : Served(k) \/ Loaded(k) \/ FetchFailed(k)
  PROVE  EditorInv'
<1> USE TemplateAssumption DEF EditorInv, EditorTypeOK, Does, Goes, FailsOnce, UserActs
<1>1. CASE OpenTemplates
  <2>1. fetches' = Append(fetches, None) /\ fetches' # <<>>
    BY <1>1 DEF OpenTemplates, Fetch
  <2>2. fetches' \in Seq(Table \cup {None})
    BY <2>1, AppendSeq
  <2>3. UNCHANGED <<db, memory, current, form, original, dirty, put, resets, windows>>
    BY <1>1 DEF OpenTemplates
  <2>4. raced' = FALSE => ~raced /\ put = None /\ resets = <<>>
    BY <1>1 DEF OpenTemplates, Busy
  <2>5. raced' \in BOOLEAN
    BY <1>1 DEF OpenTemplates
  <2>6. TemplateInv'
    BY <2>1, <2>3, <2>4, <2>5, AppendSeq DEF TemplateInv, MarkInv, Unraced
  <2> QED
    BY <1>1, <2>2, <2>3, <2>5, <2>6, WindowsStay DEF OpenTemplates, windows
<1>2. ASSUME NEW k \in DOMAIN fetches, Served(k) PROVE EditorInv'
  <2>1. fetches' = [fetches EXCEPT ![k] = db] /\ fetches' # <<>> /\ fetches # <<>>
    BY <1>2 DEF Served
  <2>2. UNCHANGED <<db, memory, current, form, original, dirty, put, resets, raced, windows>>
    BY <1>2 DEF Served
  <2>3. fetches' \in Seq(Table \cup {None})
    BY <2>1
  <2>4. TemplateInv'
    BY <2>1, <2>2 DEF TemplateInv, MarkInv, Unraced
  <2> QED
    BY <1>2, <2>2, <2>3, <2>4, WindowsStay DEF Served, windows
<1>3. ASSUME NEW k \in DOMAIN fetches, Loaded(k) PROVE EditorInv'
  <2>1. fetches' = RemoveAt(fetches, k) /\ memory' = fetches[k] /\ fetches[k] # None /\ fetches # <<>>
    BY <1>3 DEF Loaded
  <2>2. UNCHANGED <<db, put, resets, raced, windows>>
    BY <1>3 DEF Loaded
  <2>3. fetches' \in Seq(Table \cup {None}) /\ memory' \in Table
    BY <2>1, RemoveAtSeq
  <2>4. RenderTab(current)
    BY <1>3 DEF Loaded
  <2>5. ~raced => Unraced'
    <3> SUFFICES ASSUME ~raced PROVE Unraced'
      OBVIOUS
    <3>1. Unraced
      BY DEF TemplateInv
    <3>2. put = None /\ resets = <<>> /\ memory' = db
      BY <2>1, <3>1 DEF Unraced
    <3>3. fetches' \in Seq({None, db})
      BY <2>1, <3>1, RemoveAtSeq DEF Unraced
    <3> QED
      BY <2>2, <2>3, <2>4, <3>2, <3>3, RenderTabOK DEF Unraced
  <2>6. TemplateInv'
    BY <2>2, <2>3, <2>4, <2>5, RenderTabOK DEF TemplateInv
  <2> QED
    BY <1>3, <2>2, <2>3, <2>4, <2>6, RenderTabOK, WindowsStay DEF Loaded, windows
<1>4. ASSUME NEW k \in DOMAIN fetches, FetchFailed(k) PROVE EditorInv'
  <2>1. fetches' \in Seq(Table \cup {None}) /\ raced' = TRUE
    BY <1>4, RemoveAtSeq DEF FetchFailed
  <2>2. UNCHANGED <<db, memory, current, form, original, dirty, put, resets, windows>>
    BY <1>4 DEF FetchFailed
  <2> QED
    BY <1>4, <2>1, <2>2, WindowsStay DEF FetchFailed, windows, TemplateInv, MarkInv
<1> QED
  BY <1>1, <1>2, <1>3, <1>4

LEMMA EditStep ==
  ASSUME EditorInv,
         \/ \E t \in Templates : ChooseTab(t)
         \/ \E text \in Texts : Edit(text)
         \/ Save \/ Stored \/ Saved \/ SaveFailed
  PROVE  EditorInv'
<1> USE TemplateAssumption DEF EditorInv, EditorTypeOK, Does, Goes, FailsOnce, UserActs
<1>1. ASSUME NEW t \in Templates, ChooseTab(t) PROVE EditorInv'
  <2>1. UNCHANGED <<db, memory, fetches, put, resets, windows>> /\ RenderTab(t)
    BY <1>1 DEF ChooseTab
  <2>2. raced' \in BOOLEAN /\ (raced' = FALSE => ~raced /\ put = None)
    BY <1>1 DEF ChooseTab
  <2>3. TemplateInv'
    BY <2>1, <2>2, RenderTabOK DEF TemplateInv, Unraced
  <2>4. current' \in Templates /\ form' \in Texts /\ original' \in Texts \cup {None} /\ dirty' = FALSE
    BY <2>1, RenderTabOK
  <2>5. UNCHANGED windows /\ UNCHANGED <<days, gets, editing, window, puts>>
    BY <2>1 DEF windows
  <2>6. ops' \in Nat /\ errors' \in Nat
    BY <1>1 DEF ChooseTab
  <2>7. EditorTypeOK'
    BY <2>1, <2>2, <2>4, <2>5, <2>6
  <2> QED
    BY <2>3, <2>5, <2>7, WindowsStay
<1>2. ASSUME NEW text \in Texts, Edit(text) PROVE EditorInv'
  <2>1. UNCHANGED <<db, memory, current, original, fetches, put, resets, windows>> /\ form' = text
    BY <1>2 DEF Edit
  <2>2. raced' \in BOOLEAN /\ (raced' = FALSE => ~raced /\ put = None)
    BY <1>2 DEF Edit
  <2>3. dirty' \in BOOLEAN /\ (~dirty' => form' = original')
    BY <1>2 DEF Edit
  <2>4. TemplateInv'
    BY <2>1, <2>2, <2>3 DEF TemplateInv, MarkInv, Unraced
  <2> QED
    BY <1>2, <2>1, <2>2, <2>3, <2>4, WindowsStay DEF Edit, windows
<1>3. CASE Save
  <2> DEFINE new == [tpl |-> current, text |-> form, stored |-> FALSE]
  <2>1. /\ UNCHANGED <<db, memory, current, form, original, dirty, fetches, resets, windows>>
        /\ put = None /\ put' = new
    BY <1>3 DEF Save
  <2>2. /\ new \in [tpl : Templates, text : Texts, stored : BOOLEAN]
        /\ new.tpl = current /\ new.text = form /\ new.stored = FALSE
    OBVIOUS
  <2>3. raced' \in BOOLEAN /\ (raced' = FALSE => ~raced /\ fetches = <<>> /\ resets = <<>>)
    BY <1>3 DEF Save
  <2> HIDE DEF new
  <2>4. TemplateInv'
    BY <2>1, <2>2, <2>3 DEF TemplateInv, MarkInv, Unraced
  <2> QED
    BY <1>3, <2>1, <2>2, <2>3, <2>4, WindowsStay DEF Save, windows
<1>4. CASE Stored
  <2> DEFINE new == [tpl |-> put.tpl, text |-> put.text, stored |-> TRUE]
  <2>1. /\ UNCHANGED <<memory, current, form, original, dirty, fetches, resets, raced, windows>>
        /\ put # None /\ ~put.stored /\ put' = new /\ db' = [db EXCEPT ![put.tpl] = put.text]
    BY <1>4 DEF Stored
  <2>2. put \in [tpl : Templates, text : Texts, stored : BOOLEAN]
    BY <2>1
  <2>3. new \in [tpl : Templates, text : Texts, stored : BOOLEAN]
    <3>1. put.tpl \in Templates /\ put.text \in Texts
      BY <2>2
    <3> QED
      BY <3>1
  <2>6. /\ new # None
        /\ new.tpl = put.tpl /\ new.text = put.text /\ new.stored = TRUE
    <3>1. new # None
      BY <2>3
    <3> QED
      BY <3>1
  <2>4. db' \in Table
    BY <2>1, <2>2 DEF Table
  <2> HIDE DEF new
  <2>5. ~raced => Unraced'
    <3> SUFFICES ASSUME ~raced PROVE Unraced'
      OBVIOUS
    <3>1. /\ fetches = <<>> /\ resets = <<>> /\ put.tpl = current /\ put.text = form
          /\ memory # None => db = memory /\ original = memory[current]
      BY <2>1 DEF TemplateInv, Unraced
    <3>2. fetches' \in Seq({None, db'})
      BY <2>1, <3>1
    <3>3. memory' # None => db' = [memory' EXCEPT ![current'] = put'.text]
      BY <2>1, <2>6, <3>1
    <3>4. put' # None /\ put'.stored = TRUE /\ put'.tpl = current' /\ put'.text = form'
      BY <2>1, <2>6, <3>1
    <3>5. fetches' = <<>> /\ resets' = <<>> /\ (memory' # None => original' = memory'[current'])
      BY <2>1, <3>1
    <3> QED
      BY <3>2, <3>3, <3>4, <3>5 DEF Unraced
  <2>7. TemplateInv'
    BY <2>1, <2>5 DEF TemplateInv, MarkInv
  <2>8. UNCHANGED windows /\ UNCHANGED <<days, gets, editing, window, puts, ops, errors>>
    BY <1>4, <2>1 DEF Stored, windows
  <2>9. EditorTypeOK'
    BY <2>1, <2>3, <2>4, <2>8
  <2> QED
    BY <2>7, <2>8, <2>9, WindowsStay
<1>5. CASE Saved
  <2>1. /\ UNCHANGED <<db, current, form, fetches, resets, raced, windows>>
        /\ put # None /\ put.stored /\ put' = None /\ original' = form /\ dirty' = FALSE
        /\ memory' = (IF memory = None THEN None ELSE [memory EXCEPT ![current] = put.text])
    BY <1>5 DEF Saved
  <2>2. put.text \in Texts
    BY <2>1
  <2>3. memory' \in Table \cup {None} /\ (memory # None => memory'[current] = put.text)
    BY <2>1, <2>2 DEF Table
  <2>4. ~raced => Unraced'
    BY <2>1, <2>3 DEF TemplateInv, Unraced
  <2>5. TemplateInv'
    BY <2>1, <2>4 DEF TemplateInv, MarkInv
  <2>6. UNCHANGED windows /\ UNCHANGED <<days, gets, editing, window, puts, ops, errors>>
    BY <1>5, <2>1 DEF Saved, windows
  <2>7. EditorTypeOK'
    BY <2>1, <2>3, <2>6
  <2> QED
    BY <2>5, <2>6, <2>7, WindowsStay
<1>6. CASE SaveFailed
  BY <1>6, WindowsStay DEF SaveFailed, windows, TemplateInv, MarkInv
<1> QED
  BY <1>1, <1>2, <1>3, <1>4, <1>5, <1>6

LEMMA RestoreStep ==
  ASSUME EditorInv,
         \/ Restore({current}) \/ Restore(Templates)
         \/ \E k \in DOMAIN resets : RestoreStored(k) \/ Restored(k) \/ RestoreFailed(k)
  PROVE  EditorInv'
<1> USE TemplateAssumption DEF EditorInv, EditorTypeOK, Does, Goes, FailsOnce, UserActs
<1>1. ASSUME NEW S \in SUBSET Templates, Restore(S) PROVE EditorInv'
  <2> DEFINE new == [tpls |-> S, stored |-> FALSE]
  <2>1. /\ UNCHANGED <<db, memory, current, form, original, dirty, fetches, put, windows>>
        /\ resets' = Append(resets, new)
    BY <1>1 DEF Restore
  <2>2. new \in Reset
    BY DEF Reset
  <2> HIDE DEF new
  <2>6. resets' # <<>>
    BY <2>1, <2>2
  <2>3. resets' \in Seq(Reset)
    BY <2>1, <2>2, AppendSeq
  <2>4. raced' \in BOOLEAN /\ (raced' = FALSE => ~raced /\ put = None /\ fetches = <<>>)
    BY <1>1 DEF Restore
  <2>5. TemplateInv'
    BY <2>1, <2>4, <2>6 DEF TemplateInv, MarkInv, Unraced
  <2> QED
    BY <1>1, <2>1, <2>3, <2>4, <2>5, WindowsStay DEF Restore, windows
<1>2. ASSUME NEW k \in DOMAIN resets, RestoreStored(k) PROVE EditorInv'
  <2> DEFINE new == [tpls |-> resets[k].tpls, stored |-> TRUE]
  <2>1. /\ UNCHANGED <<memory, current, form, original, dirty, fetches, put, raced, windows>>
        /\ resets' = [resets EXCEPT ![k] = new] /\ resets # <<>> /\ resets' # <<>>
        /\ db' = [t \in Templates |-> IF t \in resets[k].tpls THEN 0 ELSE db[t]]
    BY <1>2 DEF RestoreStored
  <2>2. new \in Reset
    <3>1. resets[k] \in Reset
      BY ElementOfSeq
    <3>2. resets[k].tpls \in SUBSET Templates
      BY <3>1 DEF Reset
    <3> QED
      BY <3>2 DEF Reset
  <2> HIDE DEF new
  <2>3. resets' \in Seq(Reset) /\ db' \in Table
    BY <2>1, <2>2 DEF Table
  <2>4. ~raced => Unraced'
    <3> SUFFICES ASSUME ~raced PROVE Unraced'
      OBVIOUS
    <3>1. fetches = <<>> /\ put = None
      BY <2>1 DEF TemplateInv, Unraced
    <3>2. fetches' \in Seq({None, db'})
      BY <2>1, <3>1
    <3> QED
      BY <2>1, <3>1, <3>2 DEF TemplateInv, Unraced
  <2> QED
    BY <1>2, <2>1, <2>3, <2>4, WindowsStay DEF RestoreStored, windows, TemplateInv, MarkInv
<1>3. ASSUME NEW k \in DOMAIN resets, Restored(k) PROVE EditorInv'
  <2>1. /\ UNCHANGED <<db, memory, current, form, original, dirty, put, windows>>
        /\ resets' = RemoveAt(resets, k) /\ fetches' = Append(fetches, None) /\ fetches' # <<>>
    BY <1>3 DEF Restored, Fetch
  <2>2. /\ resets' \in Seq(Reset)
        /\ fetches' \in Seq(Table \cup {None})
    BY <2>1, RemoveAtSeq, AppendSeq
  <2>3. raced' \in BOOLEAN /\ (raced' = FALSE => ~raced /\ put = None /\ ~(Len(resets) > 1))
    BY <1>3 DEF Restored
  <2>4. ~(Len(resets) > 1) => resets' = <<>>
    BY <2>1, RemoveLast
  <2>5. TemplateInv'
    BY <2>1, <2>3, <2>4, AppendSeq DEF TemplateInv, MarkInv, Unraced
  <2> QED
    BY <1>3, <2>1, <2>2, <2>3, <2>5, WindowsStay DEF Restored, windows
<1>4. ASSUME NEW k \in DOMAIN resets, RestoreFailed(k) PROVE EditorInv'
  <2>1. resets' \in Seq(Reset) /\ raced' = TRUE
    BY <1>4, RemoveAtSeq DEF RestoreFailed
  <2>2. UNCHANGED <<db, memory, current, form, original, dirty, fetches, put, windows>>
    BY <1>4 DEF RestoreFailed
  <2> QED
    BY <1>4, <2>1, <2>2, WindowsStay DEF RestoreFailed, windows, TemplateInv, MarkInv
<1> QED
  BY <1>1, <1>2, <1>3, <1>4

LEMMA EditorStep == EditorInv /\ [EditorNext]_editorVars => EditorInv'
<1> SUFFICES ASSUME EditorInv, [EditorNext]_editorVars PROVE EditorInv'
  OBVIOUS
<1>1. CASE UNCHANGED editorVars
  <2>1. UNCHANGED templates /\ UNCHANGED windows /\ UNCHANGED <<ops, errors>>
    BY <1>1 DEF editorVars
  <2> QED
    BY <2>1, TemplatesStay, WindowsStay DEF EditorInv, EditorTypeOK, templates, windows
<1> QED
  BY <1>1, WindowStep, LoadStep, EditStep, RestoreStep DEF EditorNext

(* The variables of the editors have values of their types. *)
THEOREM EditorTypeCorrect == EditorSpec => []EditorTypeOK
<1>1. EditorInv => EditorTypeOK
  BY DEF EditorInv
<1> QED
  BY <1>1, EditorInitOK, EditorStep, PTL DEF EditorSpec

(* A save of a maintenance window goes to the window that filled the form. *)
THEOREM WindowsKeepTheirRows == EditorSpec => []SavesOwnWindow
<1>1. EditorInv => SavesOwnWindow
  BY DEF EditorInv, WindowInv
<1> QED
  BY <1>1, EditorInitOK, EditorStep, PTL DEF EditorSpec

(* A template shown without a mark is the server's, unless requests raced. *)
THEOREM UnmarkedStaysStored == EditorSpec => []UnmarkedIsStored
BY InvImpliesStored, EditorInitOK, EditorStep, PTL DEF EditorSpec

-------------------------------------------------------------------------------
(* The frame as a whole                                                    *)

(* What a part relies on survives any step of another, which may only      *)
(* count one more thing the user did.                                      *)
LEMMA ShellStays == ShellInv /\ UNCHANGED shellOwn /\ ops' \in Nat => ShellInv'
BY DEF shellOwn, account, refresh, dashboard, ShellInv, ShellTypeOK, RoleInv, LoadsInv, GoodLoad,
       AddressShowsView, AddressView, Settled, RefreshOnDashboard, CacheIsYoung

LEMMA SessionStays == SessionInv /\ UNCHANGED sessionOwn /\ ops' \in Nat => SessionInv'
BY DEF sessionOwn, loginForm, SessionInv, SessionTypeOK, PageInv, TimerInv, ApiAnswerHeals

LEMMA DialogStays == DialogInv /\ UNCHANGED dialogOwn => DialogInv'
BY DEF dialogOwn, DialogInv, DialogTypeOK, AsksForOne, ButtonIsEarned, TypedBeforeDelete

LEMMA EditorStays == EditorInv /\ UNCHANGED editorOwn /\ ops' \in Nat => EditorInv'
<1> SUFFICES ASSUME EditorInv, UNCHANGED editorOwn, ops' \in Nat PROVE EditorInv'
  OBVIOUS
<1>1. UNCHANGED templates /\ UNCHANGED windows /\ UNCHANGED errors
  BY DEF editorOwn
<1> QED
  BY <1>1, TemplatesStay, WindowsStay DEF EditorInv, EditorTypeOK, templates, windows

frameVars == <<part, shellVars, sessionVars, dialogVars, editorVars>>

Parts == {"shell", "session", "dialog", "editor"}

FrameInv == part \in Parts /\ ShellInv /\ SessionInv /\ DialogInv /\ EditorInv

LEMMA FrameInit == Init => FrameInv
BY ShellInitOK, SessionInitOK, DialogInitOK, EditorInitOK DEF Init, FrameInv, Parts

LEMMA FrameStep == FrameInv /\ [Next]_frameVars => FrameInv'
<1> SUFFICES ASSUME FrameInv, [Next]_frameVars PROVE FrameInv'
  OBVIOUS
<1>1. CASE part = "shell" /\ ShellNext /\ UNCHANGED <<part, sessionOwn, dialogOwn, editorOwn>>
  <2>1. ShellInv' /\ ops' \in Nat
    BY <1>1, ShellStep DEF FrameInv, ShellInv, ShellTypeOK
  <2> QED
    BY <1>1, <2>1, SessionStays, DialogStays, EditorStays DEF FrameInv
<1>2. CASE part = "session" /\ SessionNext /\ UNCHANGED <<part, shellOwn, dialogOwn, editorOwn>>
  <2>1. SessionInv' /\ ops' \in Nat
    BY <1>2, SessionStep DEF FrameInv, SessionInv, SessionTypeOK
  <2> QED
    BY <1>2, <2>1, ShellStays, DialogStays, EditorStays DEF FrameInv
<1>3. CASE part = "dialog" /\ DialogNext /\ UNCHANGED <<part, shellOwn, sessionOwn, editorOwn>>
  <2>1. DialogInv'
    BY <1>3, DialogStep DEF FrameInv
  <2>2. ops \in Nat
    BY DEF FrameInv, ShellInv, ShellTypeOK
  <2>3. ops' \in Nat
    BY <1>3, <2>2 DEF DialogNext, Ask, Type, Delete, Faded, Deleted, Ends, Cancel, Escape, ReloadPage,
       Clicked, UserActs
  <2> QED
    BY <1>3, <2>1, <2>3, ShellStays, SessionStays, EditorStays DEF FrameInv
<1>4. CASE part = "editor" /\ EditorNext /\ UNCHANGED <<part, shellOwn, sessionOwn, dialogOwn>>
  <2>1. EditorInv' /\ ops' \in Nat
    BY <1>4, EditorStep DEF FrameInv, EditorInv, EditorTypeOK
  <2> QED
    BY <1>4, <2>1, ShellStays, SessionStays, DialogStays DEF FrameInv
<1>5. CASE UNCHANGED frameVars
  BY <1>5, ShellStep, SessionStep, DialogStep, EditorStep DEF FrameInv, frameVars
<1> QED
  BY <1>1, <1>2, <1>3, <1>4, <1>5 DEF Next

(* For any views, users, templates and windows: the address is that of the *)
(* view, a dashboard is cached no later than it was read, a token healed   *)
(* by an answer is the cookie's, no user is deleted whose name was not     *)
(* typed, and a template shown without a mark is the server's, in every    *)
(* state of the frame, whichever part acts.                                *)
THEOREM FrameKeepsItsParts ==
  Spec => [](/\ AddressShowsView /\ CacheIsYoung /\ ApiAnswerHeals
             /\ TypedBeforeDelete /\ UnmarkedIsStored)
<1>1. FrameInv => /\ AddressShowsView /\ CacheIsYoung /\ ApiAnswerHeals
                  /\ TypedBeforeDelete /\ UnmarkedIsStored
  BY InvImpliesStored DEF FrameInv, ShellInv, SessionInv, DialogInv
<1> QED
  BY <1>1, FrameInit, FrameStep, PTL DEF Spec, frameVars
===============================================================================
