----------------------------- MODULE MonitorPages -----------------------------
(***************************************************************************)
(* The pages of web apps, DNS records and ports in the browser client      *)
(* (static/app.js).  A behaviour is about one of the three.  Each loads a  *)
(* list, filters and draws it; the web apps are also sorted, paged, shown  *)
(* as cards or in a table, and selected for bulk operations.               *)
(***************************************************************************)
EXTENDS Integers, Sequences, FiniteSets, SequencesExt

CONSTANTS Ids,       \* what is monitored, numbered in the order of names
          Kinds,     \* the pages considered
          PageSize,  \* _webappPagination.size
          Matching,  \* the ids the search text matches
          None,
          MaxOps,    \* things the user does
          MaxErrors  \* requests that fail

ASSUME PagesAssumption ==
    /\ Ids \subseteq Nat /\ IsFiniteSet(Ids) /\ PageSize \in Nat \ {0}
    /\ Kinds \subseteq {"webapp", "dns", "port"}

Layouts == {"cards", "table"}
Row     == [status : {"up", "down"}, edits : Nat]
Filters == {"all", "up", "down"}

VARIABLES
    kind,      \* the page this behaviour is about
    db,        \* the rows of the server
    cache,     \* _webappsCache, _dnsCache, _portCache
    filter,    \* _webappFilter, _dnsFilter, _portFilter
    saved,     \* the filter in localStorage 'vigil-prefs-webapp', or None
    text,      \* is there a search text
    typing,    \* the timer of the search box runs
    page,      \* _webappPagination.page
    dir,       \* the direction of the sort by name
    mode,      \* the layout on the screen
    drawn,     \* the ids each layout has in the document
    ticked,    \* those of them whose box is ticked
    selected,  \* _selectedWebapps
    count,     \* the number on the bulk toolbar
    gets,      \* GETs on their way: rows, None before the server reads
    reqs,      \* other requests: what is done to which ids
    ops, errors,
    disturbed  \* since the last load: requests overlapped, a load failed, or a request
               \* failed after it had changed the server

vars == <<kind, db, cache, filter, saved, text, typing, page, dir, mode, drawn, ticked,
          selected, count, gets, reqs, ops, errors, disturbed>>

screen  == <<page, drawn, ticked, count>>
look    == <<filter, saved, text, typing, dir, mode>>
network == <<db, gets, reqs, errors>>

Quiet == gets = <<>> /\ reqs = {}

-----------------------------------------------------------------------------
(* What is drawn *)

\* The chip and the search of applyWebAppFilters, loadDnsChecks (which has no
\* search) and applyPortFilters
Passing(list) ==
    {i \in DOMAIN list : /\ filter' \in {"all", list[i].status}
                         /\ text' => i \in Matching}

\* A page of the rows sorted by name
PageOf(S, p) ==
    {i \in S : LET rank == Cardinality({j \in S : dir' * j <= dir' * i})
               IN  (p - 1) * PageSize < rank /\ rank <= p * PageSize}

Pages(S) == IF S = {} THEN 1 ELSE (Cardinality(S) + PageSize - 1) \div PageSize

\* updateWebAppBulkToolbar
UpdateToolbar == count' = Cardinality(selected')

\* renderWebAppCards or renderWebAppTable; the other layout keeps its boxes in
\* the document.
Draw(S) ==
    /\ drawn' = [drawn EXCEPT ![mode'] = S]
    /\ ticked' = [ticked EXCEPT ![mode'] = S \cap selected']
    /\ UpdateToolbar

\* applyWebAppFilters: the page is clamped, then drawn.
DrawWebApps(list, p) ==
    /\ page' = IF p > Pages(Passing(list)) THEN Pages(Passing(list)) ELSE p
    /\ Draw(PageOf(Passing(list), page'))

\* The answer of loadDnsChecks draws all that pass: cards with the table hidden,
\* or the table with whatever cards are there above it.  When none pass both go.
\* drawn["table"] is empty while the table is hidden.
DrawDns(list) ==
    /\ drawn' = [cards |-> IF mode' = "cards" \/ Passing(list) = {} THEN Passing(list) ELSE drawn["cards"],
                 table |-> IF mode' = "table" THEN Passing(list) ELSE {}]
    /\ UNCHANGED <<page, ticked, count>>

\* Of web apps and ports one layout is hidden when the other is drawn.
OnScreen == IF kind = "dns" THEN drawn["cards"] \cup drawn["table"] ELSE drawn[mode]

\* applyPortFilters: renderPortCards and renderPortTable call esc, which is
\* defined nowhere, for the first row they draw; the exception leaves the
\* document as it was and ends in the catch of loadPortChecks.
DrawPorts == UNCHANGED screen

DrawLoaded(list) ==
    CASE kind = "webapp" -> DrawWebApps(list, page)
      [] kind = "dns"    -> DrawDns(list)
      [] kind = "port"   -> DrawPorts

-----------------------------------------------------------------------------
(* Loading *)

Init ==
    /\ kind \in Kinds
    /\ db \in {[i \in Ids |-> [status |-> s, edits |-> 0]] : s \in {"up", "down"}}
    /\ cache = [i \in {} |-> None] /\ filter = "all" /\ saved \in {None, "down"}
    /\ text = FALSE /\ typing = FALSE /\ page = 1 /\ dir = 1 /\ mode = "cards"
    /\ drawn = [l \in Layouts |-> {}] /\ ticked = drawn /\ selected = {} /\ count = 0
    /\ gets = <<>> /\ reqs = {} /\ ops = 0 /\ errors = 0 /\ disturbed = FALSE

UserActs == ops < MaxOps /\ ops' = ops + 1
Fails == errors < MaxErrors /\ errors' = errors + 1
Ask == gets' = Append(gets, None)

\* activateView, which restores the filter of the web apps, and the refresh
\* buttons, which do not
Open ==
    /\ UserActs /\ Ask /\ disturbed' = ~Quiet
    /\ \/ UNCHANGED filter
       \/ kind = "webapp" /\ saved # None /\ filter' = saved
    /\ UNCHANGED <<kind, db, cache, saved, text, typing, dir, mode, selected, reqs, errors>>
    /\ UNCHANGED screen

Served(k) ==
    /\ gets[k] = None /\ gets' = [gets EXCEPT ![k] = db]
    /\ UNCHANGED <<kind, db, cache, selected, reqs, ops, errors, disturbed>>
    /\ UNCHANGED <<screen, look>>

\* loadWebApps, loadDnsChecks, loadPortChecks: the last answer is kept.
Loaded(k) ==
    /\ gets[k] # None /\ gets' = RemoveAt(gets, k)
    /\ cache' = gets[k]
    /\ UNCHANGED <<kind, db, look, selected, reqs, ops, errors, disturbed>>
    /\ DrawLoaded(gets[k])

LoadFailed(k) ==
    /\ Fails /\ gets' = RemoveAt(gets, k) /\ disturbed' = TRUE
    /\ UNCHANGED <<kind, db, cache, selected, reqs, ops>> /\ UNCHANGED <<screen, look>>

-----------------------------------------------------------------------------
(* Filters, search, sort, pages, layout *)

\* The pages of DNS records and ports load again, the web apps are drawn again.
Redraw ==
    IF kind = "webapp" THEN DrawWebApps(cache, page) /\ UNCHANGED <<gets, disturbed>>
    ELSE Ask /\ disturbed' = ~Quiet /\ UNCHANGED screen

SetFilter ==
    /\ UserActs
    /\ filter' \in Filters
    /\ UNCHANGED <<kind, db, cache, text, typing, dir, mode, selected, reqs, errors>>
    /\ IF kind = "webapp"
       THEN saved' = filter' /\ DrawWebApps(cache, 1) /\ UNCHANGED <<gets, disturbed>>
       ELSE Redraw /\ UNCHANGED saved

\* filterWebappsFromDash and clear-webapp-filters stay on the page and save
\* nothing; the second clears the search.
SetFilterOnly ==
    /\ kind = "webapp" /\ UserActs
    /\ \/ filter' \in Filters /\ UNCHANGED text
       \/ filter' = "all" /\ text' = FALSE
    /\ UNCHANGED <<kind, db, cache, saved, typing, dir, mode, selected, reqs, errors>>
    /\ Redraw

\* Mutant: the timer draws what the search box held when it was started.
SearchFiresLate ==
    /\ typing /\ typing' = FALSE
    /\ UNCHANGED <<kind, cache, filter, saved, text, dir, mode, selected, ops, disturbed>>
    /\ UNCHANGED network /\ UNCHANGED screen

SearchFires ==
    /\ typing /\ typing' = FALSE
    /\ UNCHANGED <<kind, cache, filter, saved, text, dir, mode, selected, ops, disturbed>>
    /\ UNCHANGED network
    /\ DrawWebApps(cache, page)

\* The web apps wait 200 ms for the next key, the ports load at once.
Type ==
    /\ kind # "dns" /\ UserActs /\ text' \in BOOLEAN
    /\ UNCHANGED <<kind, db, cache, filter, saved, dir, mode, selected, reqs, errors>>
    /\ IF kind = "webapp"
       THEN typing' = TRUE /\ page' = 1 /\ UNCHANGED <<drawn, ticked, count, gets, disturbed>>
       ELSE UNCHANGED typing /\ Redraw

ToggleLayout ==
    /\ UserActs /\ mode' \in Layouts \ {mode}
    /\ UNCHANGED <<kind, db, cache, filter, saved, text, typing, dir, selected, reqs, errors>>
    /\ Redraw

Sort ==
    /\ kind = "webapp" /\ UserActs /\ dir' = -dir
    /\ UNCHANGED <<kind, cache, filter, saved, text, typing, mode, selected, disturbed>>
    /\ UNCHANGED network
    /\ DrawWebApps(cache, 1)

\* First, previous, next and last (9999)
GoToPage ==
    /\ kind = "webapp" /\ UserActs
    /\ UNCHANGED <<kind, cache, look, selected, disturbed>> /\ UNCHANGED network
    /\ \E p \in {1, IF page > 1 THEN page - 1 ELSE 1, page + 1, 9999} : DrawWebApps(cache, p)

-----------------------------------------------------------------------------
(* Selection of web apps *)

\* Mutant: the box is drawn ticked, but the id is not added to the selection.
TickOnly(i) ==
    /\ kind = "webapp" /\ UserActs /\ i \in drawn[mode]
    /\ IF i \in ticked[mode]
       THEN ticked' = [ticked EXCEPT ![mode] = @ \ {i}] /\ UNCHANGED selected
       ELSE ticked' = [ticked EXCEPT ![mode] = @ \cup {i}] /\ selected' = selected \cup {i}
    /\ UpdateToolbar
    /\ UNCHANGED <<kind, cache, look, page, drawn, disturbed>> /\ UNCHANGED network

Tick(i) ==
    /\ kind = "webapp" /\ UserActs /\ i \in drawn[mode]
    /\ IF i \in ticked[mode]
       THEN ticked' = [ticked EXCEPT ![mode] = @ \ {i}] /\ selected' = selected \ {i}
       ELSE ticked' = [ticked EXCEPT ![mode] = @ \cup {i}] /\ selected' = selected \cup {i}
    /\ UpdateToolbar
    /\ UNCHANGED <<kind, cache, look, page, drawn, disturbed>> /\ UNCHANGED network

\* Select All, a box on the toolbar, takes every box in the document, also those
\* of the layout that is hidden.
SelectAll ==
    /\ kind = "webapp" /\ count > 0 /\ UserActs
    /\ LET boxes == drawn["cards"] \cup drawn["table"]
           all   == boxes # {} /\ \A l \in Layouts : ticked[l] = drawn[l]
       IN  /\ ticked' = IF all THEN [l \in Layouts |-> {}] ELSE drawn
           /\ selected' = IF all THEN selected \ boxes ELSE selected \cup boxes
    /\ UpdateToolbar
    /\ UNCHANGED <<kind, cache, look, page, drawn, disturbed>> /\ UNCHANGED network

DeselectAll ==
    /\ kind = "webapp" /\ UserActs /\ selected' = {}
    /\ UNCHANGED <<kind, cache, look, disturbed>> /\ UNCHANGED network
    /\ DrawWebApps(cache, page)

-----------------------------------------------------------------------------
(* Operations on the server *)

Whats == {"check", "delete", "add", "edit", "checkAll", "bulkCheck", "bulkDelete", "bulkEdit"}

\* One id from its menu or form, all ids in memory, or the selected ones.  The
\* page of ports has no menus, since it has no rows, and its form stays hidden:
\* openPortModal sets a class that no style shows.
Start ==
    /\ UserActs
    /\ \E what \in Whats, S \in SUBSET Ids \ {{}} :
         /\ what \in {"check", "delete", "edit"} => \E i \in OnScreen : S = {i}
         /\ what = "add" => Cardinality(S) = 1 /\ S \cap DOMAIN db = {} /\ kind # "port"
         /\ what = "checkAll" => S = DOMAIN cache
         /\ what \in {"bulkCheck", "bulkDelete", "bulkEdit"} => kind = "webapp" /\ S = selected
         /\ [what |-> what, ids |-> S] \notin reqs
         /\ reqs' = reqs \cup {[what |-> what, ids |-> S]}
    /\ disturbed' = (disturbed \/ ~Quiet)
    /\ UNCHANGED <<kind, db, cache, look, selected, gets, errors>> /\ UNCHANGED screen

Bulk(r) == r.what \in {"bulkCheck", "bulkDelete", "bulkEdit"}

\* The routes for one id answer 404 when there is no such row; a bulk edit is
\* one of them for each id.
Found(r) == r.what \in {"check", "delete", "edit", "bulkEdit"} => r.ids \subseteq DOMAIN db

\* checkAllDns and checkAllPorts swallow the failures of their requests.
Swallows(r) == r.what = "checkAll" /\ kind # "webapp"

\* What the server does for the ids it has
Effect(what, S) ==
    CASE what \in {"check", "checkAll", "bulkCheck"} ->
           db' \in {[i \in DOMAIN db |-> IF i \in S THEN [db[i] EXCEPT !.status = f[i]] ELSE db[i]] :
                    f \in [S -> {"up", "down"}]}
      [] what \in {"delete", "bulkDelete"} -> db' = [i \in DOMAIN db \ S |-> db[i]]
      [] what \in {"edit", "bulkEdit"} ->
           db' = [i \in DOMAIN db |-> IF i \in S THEN [db[i] EXCEPT !.edits = @ + 1] ELSE db[i]]
      [] what = "add" ->
           db' = [i \in DOMAIN db \cup S |-> IF i \in DOMAIN db THEN db[i] ELSE [status |-> "up", edits |-> 0]]

\* Mutant: an operation on one row forgets to load the list again.
DoneQuietly(r) ==
    /\ r \in reqs /\ reqs' = reqs \ {r} /\ Found(r)
    /\ Effect(r.what, r.ids)
    /\ IF r.what = "delete" THEN UNCHANGED gets ELSE Ask
    /\ selected' = IF Bulk(r) THEN {} ELSE selected
    /\ UNCHANGED <<kind, cache, look, ops, errors, disturbed>> /\ UNCHANGED screen

\* Success: a bulk operation clears the selection; the list is loaded again.
Done(r) ==
    /\ r \in reqs /\ reqs' = reqs \ {r} /\ Found(r)
    /\ Effect(r.what, r.ids)
    /\ Ask
    /\ selected' = IF Bulk(r) THEN {} ELSE selected
    /\ UNCHANGED <<kind, cache, look, ops, errors, disturbed>> /\ UNCHANGED screen

\* Failure: nothing changes on the page, and nothing is loaded.  The routes
\* commit row by row and can raise after any of them, or the answer is lost: the
\* server may have done all, some or none of it.
Failed(r) ==
    /\ r \in reqs /\ reqs' = reqs \ {r}
    /\ IF Found(r) THEN Fails ELSE UNCHANGED errors
    /\ \E S \in SUBSET r.ids : Effect(r.what, S)
    /\ IF Swallows(r) THEN Ask /\ UNCHANGED disturbed
       ELSE UNCHANGED gets /\ disturbed' = (disturbed \/ db' # db)
    /\ UNCHANGED <<kind, cache, look, selected, ops>> /\ UNCHANGED screen

-----------------------------------------------------------------------------
Next ==
    \/ Open \/ (\E k \in DOMAIN gets : Served(k) \/ Loaded(k) \/ LoadFailed(k))
    \/ SetFilter \/ SetFilterOnly \/ Type \/ SearchFires \/ ToggleLayout \/ Sort \/ GoToPage
    \/ (\E i \in Ids : Tick(i)) \/ SelectAll \/ DeselectAll
    \/ Start \/ (\E r \in reqs : Done(r) \/ Failed(r))

Spec == Init /\ [][Next]_vars

-----------------------------------------------------------------------------
(* Properties *)

Quiesced == Quiet /\ ~disturbed

IsList(rows) == DOMAIN rows \subseteq Ids /\ \A i \in DOMAIN rows : rows[i] \in Row

\* Every variable holds values of its type.
TypeOK ==
    /\ kind \in Kinds /\ IsList(db) /\ IsList(cache)
    /\ filter \in Filters /\ saved \in Filters \cup {None}
    /\ {text, typing, disturbed} \subseteq BOOLEAN /\ page \in Nat \ {0}
    /\ dir \in {1, -1} /\ mode \in Layouts
    /\ {drawn, ticked} \subseteq [Layouts -> SUBSET Ids] /\ selected \subseteq Ids
    /\ {count, ops, errors} \subseteq Nat
    /\ \A k \in DOMAIN gets : gets[k] = None \/ IsList(gets[k])
    /\ reqs \subseteq [what : Whats, ids : SUBSET Ids]

\* The page of web apps is never empty while rows pass the filter, whatever
\* was deleted and however far 'next' and 'last' went (renderWebAppPagination).
\* A load that fails after the page was opened leaves an old page under the
\* restored filter.
WebAppPageShowsRows ==
    kind = "webapp" /\ drawn[mode] = {} /\ Quiesced /\ ~typing =>
        \A i \in DOMAIN cache : filter \notin {"all", cache[i].status} \/ (text /\ i \notin Matching)

\* A card of a DNS record that stands above the table and is not in it: the
\* cards stay as they were when the table is drawn.
LeftCard(i) == kind = "dns" /\ mode = "table" /\ drawn["table"] # {} /\ i \notin drawn["table"]

\* What a page of web apps or DNS records has on the screen passes the chip and
\* the search that are set, once the timer of the search box and the loads that
\* were started are over, but for the cards left above a table of DNS records;
\* for DNS records this needs that no load failed or was overtaken.
DrawnObeysFilter ==
    kind # "port" /\ ~typing /\ Quiesced =>
        \A i \in OnScreen :
            \/ i \in DOMAIN cache /\ filter \in {"all", cache[i].status} /\ (text => i \in Matching)
            \/ LeftCard(i)

\* A web app on the screen that a bulk operation would take is ticked.
SelectedIsTicked == kind = "webapp" => selected \cap drawn[mode] \subseteq ticked[mode]

\* The page of web apps holds what it says: rows, their boxes, a page number
\* there can be.
PageOK == TypeOK /\ WebAppPageShowsRows /\ SelectedIsTicked

\* When everything the user started one after the other was answered, and none
\* of it failed after it had changed the server, the list in memory is what the
\* server has: a failure that changed nothing, a bulk operation that takes some
\* rows and a check of all that loses some answers included.  After a failure
\* that changed the server this holds again from the next load.
ListIsCurrent == Quiesced /\ ops > 0 /\ DOMAIN cache # {} => cache = db
==============================================================================
