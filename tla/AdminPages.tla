------------------------------ MODULE AdminPages ------------------------------
(***************************************************************************)
(* The lists only an administrator sees in the browser client              *)
(* (static/app.js): API keys, users, backups and the activity log.  A      *)
(* behaviour is about one of them.  Keys are ticked in the document, files *)
(* in _backupState.selected; users and backups are searched in memory, the *)
(* log on the server, a page at a time.                                    *)
(***************************************************************************)
EXTENDS Integers, Sequences, FiniteSets, SequencesExt, ClientUser

CONSTANTS Ids,       \* keys, users, files, log entries, in the order listed
          Kinds,     \* the lists considered
          PageSize,  \* _backupState.perPage, logState.limit
          Matching,  \* the ids the search text matches
          MaxClicks, \* bound: things the user does
          MaxFailures \* bound: requests that fail

ASSUME AdminAssumption ==
    /\ Ids \subseteq Nat /\ IsFiniteSet(Ids) /\ PageSize \in Nat \ {0}
    /\ Kinds \subseteq {"keys", "users", "backups", "logs"} /\ {MaxClicks, MaxFailures} \subseteq Nat

Ops == {"create", "delete", "deleteTicked", "toggle", "clear"}

\* Rows, as the server has them or as an answer brought them, and a GET for them
Tables == UNION {[S -> {0, 1}] : S \in SUBSET Ids}
Asked  == [page : Nat \ {0}, text : BOOLEAN, rows : Tables \cup {None}]

VARIABLES
    kind,
    table,     \* the server's rows; of a user, 1 while active
    cache,     \* _apiKeys, _usersCache, _backupState.backups
    loaded,    \* _usersLoaded
    total,     \* logState.total
    page,      \* _backupState.page, logState.page
    next,      \* is the button Next of the log enabled
    text,      \* is there a search text
    typing,    \* the timer of the log's search box runs
    shown,     \* the rows on the screen
    ticked,    \* those whose box is ticked
    selected,  \* _backupState.selected
    button,    \* the number on Revoke Selected and Delete Selected
    loads,     \* GETs on their way: what they ask, rows (None: not read yet)
    reqs,      \* other requests, with the ids they are about
    failures,
    disturbed, \* since the list was opened requests overlapped, a load failed, or a
               \* request failed that had changed the server
    beyond     \* the log was asked for a page it does not have

listVars == <<kind, table, cache, loaded, total, page, next, text, typing, shown, ticked,
          selected, button, loads, reqs, ops, failures, disturbed, beyond>>
listScreen  == <<shown, ticked, button>>
control == <<page, text, typing>>
memory  == <<cache, loaded, total, next, selected>>

Answerless == loads = <<>> /\ reqs = {}
Empty == [i \in {} |-> 0]
Clicks == UserActs(MaxClicks) /\ UNCHANGED <<kind, failures>>
ListFails == failures < MaxFailures /\ failures' = failures + 1 /\ UNCHANGED <<kind, ops>>

Searched(S, t) == IF t THEN S \cap Matching ELSE S
PageOf(S, p) ==
    {i \in S : LET rank == Cardinality({j \in S : j <= i})
               IN  (p - 1) * PageSize < rank /\ rank <= p * PageSize}
Pages(S) == IF S = {} THEN 1 ELSE (Cardinality(S) + PageSize - 1) \div PageSize
Clamped(p, S) == IF p > Pages(S) THEN Pages(S) ELSE p

ListsInit ==
    /\ kind \in Kinds
    /\ table \in {[i \in Ids |-> 1], [i \in Ids \ {1} |-> 1]}
    /\ cache = Empty /\ loaded = FALSE /\ total = 0 /\ page = 1 /\ next = FALSE
    /\ text = FALSE /\ typing = FALSE /\ shown = {} /\ ticked = {} /\ selected = {} /\ button = 0
    /\ loads = <<>> /\ reqs = {} /\ ops = 0 /\ failures = 0 /\ disturbed = FALSE /\ beyond = FALSE

-----------------------------------------------------------------------------
(* Loading *)

\* A GET is sent with the page and the search of now; "Loading..." takes the
\* place of the rows, of keys only while there are none.
Ask ==
    /\ loads' = Append(loads, [page |-> page', text |-> text', rows |-> None])
    /\ IF kind = "keys" /\ cache # Empty THEN UNCHANGED <<shown, ticked>>
       ELSE shown' = {} /\ ticked' = {}

\* The view, the tab, or its refresh button.  Opening the backups forgets page,
\* search and selection; users are loaded again only by force.
OpenList ==
    /\ Clicks
    /\ IF kind = "backups" THEN page' = 1 /\ text' = FALSE /\ selected' = {} /\ cache' = Empty
       ELSE UNCHANGED <<page, text, selected, cache>>
    /\ loaded' = FALSE /\ disturbed' = ~Answerless
    /\ Ask
    /\ UNCHANGED <<table, total, next, typing, button, reqs, beyond>>

\* A click on the tab of users that are there does nothing.
OpenListLoaded ==
    /\ kind = "users" /\ loaded /\ Clicks
    /\ UNCHANGED <<table, memory, control, listScreen, loads, reqs, disturbed, beyond>>

ListServed(k) ==
    /\ loads[k].rows = None
    /\ loads' = [loads EXCEPT ![k].rows = table]
    /\ UNCHANGED <<kind, table, memory, control, listScreen, reqs, ops, failures, disturbed, beyond>>

\* Mutant: _filterBackups does not clamp the page.
DrawBackupsUnclamped(rows, p) ==
    LET S == Searched(DOMAIN rows, text') IN
      /\ page' = p /\ shown' = PageOf(S, page') /\ ticked' = shown' \cap selected'

\* _filterBackups, then the page of loadBackupsViewList or renderBackupPage
DrawBackups(rows, p) ==
    LET S == Searched(DOMAIN rows, text') IN
      /\ page' = Clamped(p, S) /\ shown' = PageOf(S, page') /\ ticked' = shown' \cap selected'

Answered(k) == loads[k].rows # None /\ loads' = RemoveAt(loads, k)

KeysLoaded(k) ==
    /\ kind = "keys" /\ Answered(k)
    /\ cache' = loads[k].rows /\ shown' = DOMAIN cache' /\ ticked' = {} /\ button' = 0
    /\ UNCHANGED <<kind, table, loaded, total, next, selected, control, reqs, ops, failures,
                   disturbed, beyond>>

UsersLoaded(k) ==
    /\ kind = "users" /\ Answered(k)
    /\ cache' = loads[k].rows /\ loaded' = TRUE
    /\ shown' = Searched(DOMAIN cache', text)
    /\ UNCHANGED <<kind, table, total, next, selected, control, ticked, button, reqs, ops,
                   failures, disturbed, beyond>>

BackupsLoaded(k) ==
    /\ kind = "backups" /\ Answered(k)
    /\ cache' = loads[k].rows
    /\ UNCHANGED <<kind, table, loaded, total, next, selected, text, typing, button, reqs, ops,
                   failures, disturbed, beyond>>
    /\ DrawBackups(cache', page)

\* refreshLogs draws what was asked for; updateLogPagination clamps the page
\* only then.
LogsLoaded(k) ==
    /\ kind = "logs" /\ Answered(k)
    /\ LET S == Searched(DOMAIN loads[k].rows, loads[k].text) IN
         /\ total' = Cardinality(S)
         /\ shown' = PageOf(S, loads[k].page)
         /\ page' = Clamped(page, S)
         /\ next' = (page' < Pages(S))
         /\ beyond' = (loads[k].page > Pages(S))
    /\ UNCHANGED <<kind, table, cache, loaded, selected, text, typing, ticked, button, reqs,
                   ops, failures, disturbed>>

\* Keys, backups and log say so in place of their rows; the number on the
\* button stays.
ListFailed(k) ==
    /\ ListFails /\ loads' = RemoveAt(loads, k)
    /\ shown' = {} /\ ticked' = {} /\ disturbed' = TRUE
    /\ UNCHANGED <<table, memory, control, button, reqs, beyond>>

-----------------------------------------------------------------------------
(* Search and pages *)

\* The users are drawn from memory; the backups and the log are asked for
\* again, the log's search box after 250 ms.
Search ==
    /\ kind # "keys" /\ Clicks /\ text' \in BOOLEAN
    /\ UNCHANGED <<table, cache, loaded, total, next, selected, button, reqs, beyond>>
    /\ CASE kind = "users" ->
              /\ shown' = Searched(DOMAIN cache, text')
              /\ UNCHANGED <<page, typing, ticked, loads, disturbed>>
         [] kind = "backups" ->
              page' = 1 /\ Ask /\ disturbed' = ~Answerless /\ UNCHANGED typing
         [] kind = "logs" ->
              page' = 1 /\ typing' = TRUE /\ UNCHANGED <<shown, ticked, loads, disturbed>>

SearchFires ==
    /\ typing /\ typing' = FALSE
    /\ UNCHANGED <<kind, table, memory, page, text, button, reqs, ops, failures, beyond>>
    /\ Ask /\ disturbed' = ~Answerless

\* The log's filters, dates and number of rows ask at once.
FilterLogs ==
    /\ kind = "logs" /\ Clicks /\ text' \in BOOLEAN /\ page' = 1
    /\ UNCHANGED <<table, memory, typing, button, reqs, beyond>>
    /\ Ask /\ disturbed' = ~Answerless

\* backup-prev, backup-next, backup-jump.  renderBackupPage draws nothing when
\* there are no backups.
PageBackups ==
    /\ kind = "backups" /\ Clicks
    /\ UNCHANGED <<table, memory, text, typing, button, loads, reqs, disturbed, beyond>>
    /\ \E p \in 1..Pages(Searched(DOMAIN cache, text)) :
         IF cache = Empty THEN page' = p /\ UNCHANGED <<shown, ticked>> ELSE DrawBackups(cache, p)

\* log-prev, log-next while it is enabled, log-jump to a page there was
PageLogs ==
    /\ kind = "logs" /\ Clicks
    /\ \/ page' = page - 1 /\ page' >= 1
       \/ next /\ page' = page + 1
       \/ page' \in 1..Pages(1..total) \ {page}
    /\ UNCHANGED <<table, memory, text, typing, button, reqs, beyond>>
    /\ Ask /\ disturbed' = ~Answerless

-----------------------------------------------------------------------------
(* Ticking and operations *)

Tick(i) ==
    /\ kind \in {"keys", "backups"} /\ Clicks /\ i \in shown
    /\ ticked' = (ticked \ {i}) \cup ({i} \ ticked)
    /\ selected' = IF kind = "keys" THEN selected
                   ELSE IF i \in ticked THEN selected \ {i} ELSE selected \cup {i}
    /\ button' = IF kind = "keys" THEN Cardinality(ticked') ELSE Cardinality(selected')
    /\ UNCHANGED <<table, cache, loaded, total, next, control, shown, loads, reqs, disturbed, beyond>>

Start ==
    /\ Clicks
    /\ \E what \in Ops, S \in SUBSET Ids \ {{}} :
         /\ what = "create" => kind # "logs" /\ Cardinality(S) = 1
         /\ what = "delete" => kind # "logs" /\ \E i \in shown : S = {i}
         /\ what = "deleteTicked" =>
              kind \in {"keys", "backups"} /\ S = IF kind = "keys" THEN ticked ELSE selected
         /\ what = "toggle" => kind = "users" /\ \E i \in shown : S = {i}
         /\ what = "clear" => kind = "logs" /\ S = Ids
         /\ [what |-> what, ids |-> S] \notin reqs
         /\ reqs' = reqs \cup {[what |-> what, ids |-> S]}
    /\ disturbed' = (disturbed \/ ~Answerless)
    /\ UNCHANGED <<table, memory, control, listScreen, loads, beyond>>

\* A new backup can push out the oldest; clearing the log is an entry of it.
Effect(what, S) ==
    CASE what = "create" ->
           table' \in {[i \in (DOMAIN table \cup S) \ R |-> IF i \in DOMAIN table THEN table[i] ELSE 1] :
                    R \in {{}} \cup (IF kind = "backups" THEN {{i} : i \in DOMAIN table \ S} ELSE {})}
      [] what \in {"delete", "deleteTicked"} -> table' = [i \in DOMAIN table \ S |-> table[i]]
      [] what = "toggle" -> table' = [i \in DOMAIN table |-> IF i \in S THEN 1 - table[i] ELSE table[i]]
      [] what = "clear" -> \E i \in S : table' = [j \in {i} |-> 1]

\* The routes that delete one user or one file answer with an error when it is
\* not there.
Found(r) == r.what = "delete" /\ kind # "keys" => r.ids \subseteq DOMAIN table

\* Mutant: the list is not loaded again after a single deletion.
DoneQuietly(r) ==
    /\ r \in reqs /\ reqs' = reqs \ {r} /\ Found(r)
    /\ Effect(r.what, r.ids)
    /\ UNCHANGED <<kind, loaded, cache, total, next, control, button, ops, failures, disturbed, beyond>>
    /\ selected' = CASE kind = "backups" /\ r.what = "delete" -> selected \ r.ids
                     [] kind = "backups" /\ r.what = "deleteTicked" -> {}
                     [] OTHER -> selected
    /\ IF r.what = "delete" THEN UNCHANGED <<loads, shown, ticked>> ELSE Ask

\* Success: the list is loaded again.
Done(r) ==
    /\ r \in reqs /\ reqs' = reqs \ {r} /\ Found(r)
    /\ Effect(r.what, r.ids)
    /\ loaded' = (loaded /\ kind # "users")
    /\ cache' = IF r.what = "toggle" /\ r.ids \subseteq DOMAIN cache
                THEN [i \in DOMAIN cache |-> IF i \in r.ids THEN 1 - cache[i] ELSE cache[i]]
                ELSE cache
    /\ selected' = CASE kind = "backups" /\ r.what = "delete" -> selected \ r.ids
                     [] kind = "backups" /\ r.what = "deleteTicked" -> {}
                     [] OTHER -> selected
    /\ UNCHANGED <<kind, total, next, control, button, ops, failures, disturbed, beyond>>
    /\ Ask

\* Failure: a message, the page stays as it was, and nothing is loaded.  The
\* routes change the server before they can raise, for ticked keys and files one
\* by one, and clear the log before its new entry; or the answer is lost.
Failed(r) ==
    /\ r \in reqs /\ reqs' = reqs \ {r}
    /\ IF Found(r) THEN ListFails ELSE UNCHANGED <<kind, ops, failures>>
    /\ \/ table' = table
       \/ r.what = "clear" /\ table' = Empty
       \/ \E S \in SUBSET r.ids \ {{}} : Effect(r.what, S)
    /\ disturbed' = (disturbed \/ table' # table)
    /\ UNCHANGED <<memory, control, listScreen, loads, beyond>>

ListsNext ==
    \/ OpenList \/ OpenListLoaded
    \/ \E k \in DOMAIN loads : \/ ListServed(k) \/ KeysLoaded(k) \/ UsersLoaded(k)
                              \/ BackupsLoaded(k) \/ LogsLoaded(k) \/ ListFailed(k)
    \/ Search \/ SearchFires \/ FilterLogs \/ PageBackups \/ PageLogs
    \/ \E i \in Ids : Tick(i)
    \/ Start \/ \E r \in reqs : Done(r) \/ Failed(r)

ListsSpec == ListsInit /\ [][ListsNext]_listVars

-----------------------------------------------------------------------------
(* Properties *)

Quiesced == Answerless /\ ~disturbed /\ ~typing

\* Every variable holds values of its type.
ListsTypeOK ==
    /\ kind \in Kinds /\ {table, cache} \subseteq Tables
    /\ {loaded, next, text, typing, disturbed, beyond} \subseteq BOOLEAN
    /\ page \in Nat \ {0} /\ {total, button} \subseteq 0..Cardinality(Ids)
    /\ shown \subseteq Ids /\ ticked \subseteq shown /\ selected \subseteq Ids
    /\ loads \in Seq(Asked) /\ reqs \subseteq [what : Ops, ids : SUBSET Ids]
    /\ ops \in Nat /\ failures \in 0..MaxFailures

\* What the server would list for the page and the search
Expected ==
    CASE kind = "keys"  -> DOMAIN table
      [] kind = "users" -> Searched(DOMAIN table, text)
      [] OTHER          -> PageOf(Searched(DOMAIN table, text), page)

\* When everything the user started, one thing after the other, was answered,
\* the list shows the page of the server's rows it says it shows; but the log
\* does not after it was asked for a page beyond its last.
ListIsCurrent ==
    Quiesced /\ ops > 0 /\ ~beyond /\ (cache # Empty \/ (kind = "logs" /\ total > 0)) =>
        shown = Expected /\ (kind # "logs" => cache = table)

\* The page of backups is never empty while some pass the search, although
\* deletions and the rotation shrink the list under the page.
BackupPageShowsRows ==
    kind = "backups" /\ Quiesced /\ Searched(DOMAIN cache, text) # {} => shown # {}

\* A backup on the screen that "Delete Selected" would delete is ticked, and
\* a ticked one would be deleted, also while requests overlap or fail.
TickedIsSelected == kind = "backups" => ticked = selected \cap shown

\* The backups on the screen are a page of those there are, and the boxes say
\* what "Delete Selected" will delete.
BackupsAreShown == BackupPageShowsRows /\ TickedIsSelected
==============================================================================
