----------------------------- MODULE DomainTable -----------------------------
(***************************************************************************)
(* The domain list of the browser client (static/app.js): what one of the  *)
(* two lists (all domains, SSL only) shows, filters, sorts and pages, the  *)
(* rows ticked for a bulk operation, and the preferences kept in           *)
(* localStorage.  Requests answer in any way; how requests overlap is      *)
(* DomainOps's subject.                                                    *)
(***************************************************************************)
EXTENDS Integers, Sequences, FiniteSets, SequencesExt

CONSTANTS Ids,       \* domains, numbered in the order of their urls
          Statuses,  \* statuses that occur
          Filters,   \* filter chips, "all" among them
          PageSizes, \* page sizes offered
          Looks,     \* cards, table, cards grouped by status
          Fields,    \* columns to sort by: "url" and others
          Matching,  \* the domains the search text matches
          InTld,     \* the domains of the top-level domain on the menu
          Menu,      \* is it chosen: {FALSE} leaves the menu alone
          None
\* Bound: one load or deletion is on its way at a time.

ASSUME TableAssumption ==
    /\ Ids \subseteq Nat /\ IsFiniteSet(Ids)
    /\ PageSizes \subseteq Nat \ {0} /\ PageSizes # {} /\ Looks # {}
    /\ "all" \in Filters /\ FALSE \in Menu /\ Menu \subseteq BOOLEAN

VARIABLES
    cache,    \* _cachedDomains[type]: rows in the order of the answer
    view,     \* _viewMode, sortState, _domainFilter, _tldFilter, page size
    saved,    \* localStorage 'vigil-prefs-...', or None
    page,     \* _pagination[type].page
    query,    \* is there a search text
    typing,   \* the timer of the search box runs
    jump,     \* filter a dashboard link will set after 350 ms, or None
    shown,    \* the rows on the screen
    listed,   \* number of rows in the list last rendered
    narrowed, \* was that the filtered list
    blank,    \* skeleton or nothing instead of rows
    selected, \* selectedDomains or selectedSsl
    ticked,   \* rows on the screen whose box is ticked
    toolbar,  \* the count of the bulk toolbar, the box "Select All"
    asking,   \* a GET of loadDomains is on its way
    deleting, \* ids a bulk delete is working on
    dropped,  \* rows taken out before their DELETE is answered
    strayed   \* Select All unticked rows it did not deselect

vars == <<cache, view, saved, page, query, typing, jump, shown, listed, narrowed,
          blank, selected, ticked, toolbar, asking, deleting, dropped, strayed>>

Rows  == [id : Ids, status : Statuses]
Sorts == [field : Fields \cup {"url"}, dir : {1, -1}]
Views == [sort : Sorts, filter : Filters, tld : Menu, size : PageSizes, look : Looks]

\* Answers list every domain once, ORDER BY url.
Answers == {rows \in UNION {[1..n -> Rows] : n \in 0..Cardinality(Ids)} :
              \A i, j \in DOMAIN rows : i < j => rows[i].id < rows[j].id}

-----------------------------------------------------------------------------
(* Filtering, sorting, paging *)

\* The chips 'watch' and 'warning' both stand for the two statuses.
Passes(status, chip) ==
    \/ chip \in {"all", status}
    \/ {chip, status} = {"watch", "warning"}

\* Array.prototype.filter: the rows at these places, in their order
Keep(rows, places) ==
    [k \in 1..Cardinality(places) |-> rows[CHOOSE i \in places : Cardinality(places \cap 1..i) = k]]

\* Mutant: a search looks at all rows, not at those that pass the chip.
FilteredSearchAll(rows, v, q) ==
    Keep(rows, {i \in DOMAIN rows :
                  IF q THEN rows[i].id \in Matching
                  ELSE Passes(rows[i].status, v.filter) /\ (v.tld => rows[i].id \in InTld)})

\* getFilteredDomains
Filtered(rows, v, q) ==
    Keep(rows, {i \in DOMAIN rows : /\ q => rows[i].id \in Matching
                                    /\ Passes(rows[i].status, v.filter)
                                    /\ v.tld => rows[i].id \in InTld})

StatusOrder(s) ==
    CASE s = "error" -> 0 [] s = "expired" -> 1 [] s = "critical" -> 2 [] s = "warning" -> 3
      [] s = "caution" -> 4 [] s = "watch" -> 5 [] s = "healthy" -> 6 [] OTHER -> 7

SortKey(r, field) == IF field = "url" THEN r.id ELSE StatusOrder(r.status)

\* Array.prototype.sort is stable: ties keep their order, whatever dir says.
SortDomains(rows, sort) ==
    LET key(i) == sort.dir * SortKey(rows[i], sort.field)
        rank(i) == Cardinality({j \in DOMAIN rows :
                                  key(j) < key(i) \/ (key(j) = key(i) /\ j <= i)})
    IN  [k \in DOMAIN rows |-> rows[CHOOSE i \in DOMAIN rows : rank(i) = k]]

TotalPages(rows, size) == IF rows = <<>> THEN 1 ELSE (Len(rows) + size - 1) \div size

PageItems(rows, p, size) ==
    {rows[i].id : i \in {j \in DOMAIN rows : (p - 1) * size < j /\ j <= p * size}}

\* The rows keys, Select All and the toolbar take for the visible ones:
\* a page of the filtered list, which is not sorted.
VisibleIds == PageItems(Filtered(cache, view, query), page, view.size)

-----------------------------------------------------------------------------
(* Rendering *)

\* updateBulkToolbar, after a step
UpdateToolbar ==
    LET visible == VisibleIds' IN
    toolbar' = [count |-> Cardinality(selected'),
                all |-> visible # {} /\ visible \subseteq selected']

\* Mutant: the page is not clamped.
RenderUnclamped(rows, p) ==
    /\ page' = p
    /\ shown' = PageItems(SortDomains(rows, view'.sort), page', view'.size)
    /\ ticked' = shown' \cap selected'
    /\ listed' = Len(rows)
    /\ blank' = FALSE /\ strayed' = FALSE

\* Mutant: boxes keep the state they had.
RenderKeepsBoxes(rows, p) ==
    /\ page' = IF p > TotalPages(rows, view'.size)
               THEN TotalPages(rows, view'.size) ELSE p
    /\ shown' = PageItems(SortDomains(rows, view'.sort), page', view'.size)
    /\ ticked' = shown' \cap ticked
    /\ listed' = Len(rows)
    /\ blank' = FALSE /\ strayed' = FALSE

\* The boxes of the rows and cards renderRow and renderCard make.
Boxes == ticked' = shown' \cap selected'

\* renderDomains up to the toolbar
Render(rows, p) ==
    /\ page' = IF p > TotalPages(rows, view'.size)
               THEN TotalPages(rows, view'.size) ELSE p
    /\ shown' = PageItems(SortDomains(rows, view'.sort), page', view'.size)
    /\ Boxes
    /\ listed' = Len(rows)
    /\ blank' = FALSE /\ strayed' = FALSE

\* An empty list returns before the toolbar is updated.
EndRender(rows) == IF rows = <<>> THEN UNCHANGED toolbar ELSE UpdateToolbar

RenderAll == Render(cache', page) /\ EndRender(cache') /\ narrowed' = FALSE

\* applyDomainFilters: render what passes the filters and save the preferences.
ApplyFilters(p) ==
    /\ LET rows == Filtered(cache', view', query') IN Render(rows, p) /\ EndRender(rows)
    /\ narrowed' = TRUE
    /\ saved' = view'

Requests == <<asking, deleting, dropped>>
Idle == ~asking /\ deleting = {} /\ dropped = <<>>

-----------------------------------------------------------------------------
(* Loading *)

Init ==
    /\ cache = <<>> /\ page = 1 /\ query = FALSE /\ typing = FALSE /\ jump = None
    /\ view = [sort |-> [field |-> "url", dir |-> 1], filter |-> "all", tld |-> FALSE,
               size |-> CHOOSE n \in PageSizes : TRUE, look |-> CHOOSE l \in Looks : TRUE]
    /\ saved \in {None} \cup {[view EXCEPT !.filter = f] : f \in Filters}
    /\ shown = {} /\ listed = 0 /\ narrowed = FALSE /\ blank = TRUE
    /\ selected = {} /\ ticked = {} /\ toolbar = [count |-> 0, all |-> FALSE]
    /\ asking = FALSE /\ deleting = {} /\ dropped = <<>> /\ strayed = FALSE

\* loadDomains up to its request
BeginLoad ==
    /\ Idle
    /\ asking' = TRUE /\ blank' = TRUE
    /\ shown' = {} /\ ticked' = {} /\ strayed' = FALSE
    /\ UNCHANGED <<cache, view, saved, page, query, typing, jump, listed, narrowed,
                   selected, toolbar, deleting, dropped>>

LoadViewPrefs == view' = IF saved = None THEN view ELSE saved

\* loadDomains after its answer
LoadAnswered ==
    /\ asking /\ asking' = FALSE
    /\ cache' \in Answers
    /\ LoadViewPrefs
    /\ UNCHANGED <<saved, query, typing, jump, selected, deleting, dropped>>
    /\ RenderAll

LoadFailed ==
    /\ asking /\ asking' = FALSE /\ blank' = TRUE
    /\ shown' = {} /\ ticked' = {} /\ strayed' = FALSE
    /\ UNCHANGED <<cache, view, saved, page, query, typing, jump, listed, narrowed,
                   selected, toolbar, deleting, dropped>>

-----------------------------------------------------------------------------
(* The user changes the view *)

ChooseChip ==
    /\ \E f \in Filters : view' = [view EXCEPT !.filter = f]
    /\ UNCHANGED <<cache, query, typing, jump, selected, Requests>>
    /\ ApplyFilters(1)

ChooseTld ==
    /\ \E t \in Menu : view' = [view EXCEPT !.tld = t]
    /\ UNCHANGED <<cache, query, typing, jump, selected, Requests>>
    /\ ApplyFilters(1)

ClearDomainFilters ==
    /\ view' = [view EXCEPT !.filter = "all", !.tld = FALSE] /\ query' = FALSE
    /\ UNCHANGED <<cache, typing, jump, selected, Requests>>
    /\ ApplyFilters(1)

\* toggleViewMode, grouping by status
ChooseLook ==
    /\ \E l \in Looks : view' = [view EXCEPT !.look = l]
    /\ UNCHANGED <<cache, query, typing, jump, selected, Requests>>
    /\ ApplyFilters(page)

ChoosePageSize ==
    /\ \E n \in PageSizes : view' = [view EXCEPT !.size = n]
    /\ UNCHANGED <<cache, query, typing, jump, selected, Requests>>
    /\ ApplyFilters(1)

\* goToPage, which clamps to the pages of the filtered list.
GoToPage ==
    /\ \E p \in 1..TotalPages(Filtered(cache, view, query), view.size) :
         /\ UNCHANGED <<cache, view, query, typing, jump, selected, Requests>>
         /\ ApplyFilters(p)

\* A click on a column or a button of the sort bar renders the whole list and
\* saves nothing.
Sort ==
    /\ \E f \in Fields :
         view' = [view EXCEPT !.sort = IF view.sort.field = f
                                       THEN [field |-> f, dir |-> -view.sort.dir]
                                       ELSE [field |-> f, dir |-> 1]]
    /\ UNCHANGED <<cache, saved, query, typing, jump, selected, Requests>>
    /\ RenderAll

\* Input in the search box goes back to page 1 and starts a timer of 200 ms.
Type ==
    /\ query' \in BOOLEAN
    /\ typing' = TRUE /\ page' = 1
    /\ UNCHANGED <<cache, view, saved, jump, shown, listed, narrowed, blank, selected,
                   ticked, toolbar, Requests, strayed>>

SearchFires ==
    /\ typing /\ typing' = FALSE
    /\ UNCHANGED <<cache, view, query, jump, selected, Requests>>
    /\ ApplyFilters(page)

\* filterDomainsFromDash: show the list, which loads it, and set a filter, at
\* once when there are rows, else after 350 ms.
FilterFromDashboard ==
    /\ Idle /\ asking' = TRUE /\ jump = None
    /\ \E f \in Filters \ {"all"} :
         IF cache # <<>>
         THEN /\ view' = [view EXCEPT !.filter = f, !.tld = FALSE]
              /\ query' = FALSE
              /\ UNCHANGED <<cache, typing, jump, selected, deleting, dropped>>
              /\ ApplyFilters(1)
         ELSE /\ jump' = f /\ blank' = TRUE /\ shown' = {} /\ ticked' = {} /\ strayed' = FALSE
              /\ UNCHANGED <<cache, view, saved, page, query, typing, listed, narrowed,
                             selected, toolbar, deleting, dropped>>

JumpFires ==
    /\ jump # None /\ jump' = None
    /\ view' = [view EXCEPT !.filter = jump, !.tld = FALSE]
    /\ query' = FALSE
    /\ UNCHANGED <<cache, typing, selected, Requests>>
    /\ ApplyFilters(1)

-----------------------------------------------------------------------------
(* Selection *)

\* A click on the box of a row that is shown
Tick(i) ==
    /\ i \in shown
    /\ IF i \in ticked THEN ticked' = ticked \ {i} /\ selected' = selected \ {i}
                       ELSE ticked' = ticked \cup {i} /\ selected' = selected \cup {i}
    /\ UNCHANGED <<cache, view, saved, page, query, typing, jump, shown, listed, narrowed,
                   blank, Requests, strayed>>
    /\ UpdateToolbar

\* The box Select All ticks or clears every box on the screen but selects or
\* deselects the rows of VisibleIds.  It is in the toolbar, which is there
\* once something is selected.
SelectAll ==
    /\ toolbar.count > 0
    /\ selected' = IF toolbar.all THEN selected \ VisibleIds ELSE selected \cup VisibleIds
    /\ ticked' = IF toolbar.all THEN {} ELSE shown
    /\ strayed' = (strayed \/ ~(selected' \cap shown \subseteq ticked'))
    /\ UNCHANGED <<cache, view, saved, page, query, typing, jump, shown, listed, narrowed,
                   blank, Requests>>
    /\ UpdateToolbar

\* Keys: j and k reach any item of the page, x toggles it; Ctrl-A adds them all.
SelectByKey ==
    /\ \/ \E i \in VisibleIds :
            selected' = IF i \in selected THEN selected \ {i} ELSE selected \cup {i}
       \/ selected' = selected \cup VisibleIds
    /\ UNCHANGED <<cache, view, query, typing, jump, Requests>>
    /\ ApplyFilters(page)

DeselectAll ==
    /\ selected' = {} /\ ticked' = {}
    /\ UNCHANGED <<cache, view, saved, page, query, typing, jump, shown, listed, narrowed,
                   blank, Requests, strayed>>
    /\ UpdateToolbar

\* bulkAction 'check' clears the selection; boxes stay ticked until the list is
\* rendered again.
BulkCheck ==
    /\ selected # {} /\ selected' = {}
    /\ UNCHANGED <<cache, view, saved, page, query, typing, jump, shown, listed, narrowed,
                   blank, ticked, Requests, strayed>>
    /\ UpdateToolbar

-----------------------------------------------------------------------------
(* Deletion *)

BulkDelete ==
    /\ Idle /\ selected # {}
    /\ deleting' = selected
    /\ UNCHANGED <<cache, view, saved, page, query, typing, jump, shown, listed, narrowed,
                   blank, selected, ticked, toolbar, asking, dropped, strayed>>

\* bulkAction 'delete' after its requests, of which any may have failed
BulkDeleted ==
    /\ deleting # {} /\ deleting' = {}
    /\ \E ok \in SUBSET deleting :
         cache' = Keep(cache, {k \in DOMAIN cache : cache[k].id \notin ok})
    /\ selected' = {}
    /\ UNCHANGED <<view, saved, query, typing, jump, asking, dropped>>
    /\ Render(cache', page) /\ UpdateToolbar /\ narrowed' = FALSE

\* The delete button of the confirm dialog takes the row out and renders.
Drop(i) ==
    /\ Idle /\ i \in shown
    /\ \E k \in DOMAIN cache : /\ cache[k].id = i
                              /\ dropped' = <<cache[k]>> /\ cache' = RemoveAt(cache, k)
    /\ UNCHANGED <<view, saved, query, typing, jump, selected, asking, deleting>>
    /\ RenderAll

DropDone ==
    /\ dropped # <<>> /\ dropped' = <<>>
    /\ UNCHANGED <<cache, view, saved, page, query, typing, jump, shown, listed, narrowed,
                   blank, selected, ticked, toolbar, asking, deleting, strayed>>

\* The request failed: the row comes back, at the end.
DropFailed ==
    /\ dropped # <<>> /\ dropped' = <<>>
    /\ cache' = cache \o dropped
    /\ UNCHANGED <<view, saved, query, typing, jump, selected, asking, deleting>>
    /\ RenderAll

Next ==
    \/ BeginLoad \/ LoadAnswered \/ LoadFailed
    \/ ChooseChip \/ ChooseTld \/ ClearDomainFilters \/ ChooseLook \/ ChoosePageSize \/ GoToPage \/ Sort
    \/ Type \/ SearchFires \/ FilterFromDashboard \/ JumpFires
    \/ (\E i \in Ids : Tick(i) \/ Drop(i))
    \/ SelectAll \/ SelectByKey \/ DeselectAll \/ BulkCheck
    \/ BulkDelete \/ BulkDeleted \/ DropDone \/ DropFailed

Spec == Init /\ [][Next]_vars

-----------------------------------------------------------------------------
(* Properties *)

\* Every variable holds values of its type.
TypeOK ==
    /\ cache \in Seq(Rows) /\ view \in Views /\ saved \in Views \cup {None}
    /\ page \in Nat \ {0} /\ {query, typing, narrowed, blank, asking, strayed} \subseteq BOOLEAN
    /\ jump \in Filters \cup {None}
    /\ shown \subseteq Ids /\ ticked \subseteq shown /\ selected \subseteq Ids
    /\ listed \in Nat /\ deleting \subseteq Ids /\ dropped \in Seq(Rows)
    /\ toolbar \in [count : Nat, all : BOOLEAN]

\* A list with rows never shows an empty page, whatever shrinks it or moves
\* the page (renderDomains clamps _pagination[type].page).
PageShowsRows == listed > 0 /\ ~blank => shown # {}

\* The toolbar tells how many rows a bulk operation would take, also of those
\* that are not on the screen (updateBulkToolbar).
CountIsSelection == toolbar.count = Cardinality(selected)

\* A row on the screen that a bulk operation would take is ticked, except
\* after Select All was cleared over a list it does not cover.
SelectedIsTicked == ~strayed => selected \cap shown \subseteq ticked

\* The toolbar and the boxes on the screen say what a bulk operation takes.
SelectionIsShown == CountIsSelection /\ SelectedIsTicked

\* What applyDomainFilters shows passes the chip, the menu and the search.
NarrowedObeysFilter ==
    narrowed /\ ~typing /\ ~blank =>
        \A i \in shown : /\ query => i \in Matching
                         /\ view.tld => i \in InTld
                         /\ \E r \in ToSet(cache) : r.id = i /\ Passes(r.status, view.filter)
==============================================================================
