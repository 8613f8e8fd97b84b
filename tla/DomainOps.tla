------------------------------ MODULE DomainOps ------------------------------
(***************************************************************************)
(* What the browser client does to domains (static/app.js): its requests,  *)
(* their answers in any order, the rows in memory (_cachedDomains) and in  *)
(* sessionStorage, the locks against repeated checks and the queue of bulk *)
(* checks.  The module is about one list; what one user does in one tab is *)
(* all that changes the database.                                          *)
(***************************************************************************)
EXTENDS Integers, Sequences, FiniteSets, SequencesExt

CONSTANTS Ids,       \* domains of the list
          Words,     \* words a note may hold
          None,
          MaxOps,    \* operations the user starts
          MaxErrors  \* requests that fail

\* The loops of bulkAction 'delete' and submitBulkTags
Bulks == [what : {"delete", "tags"}, todo : SUBSET Ids, done : SUBSET Ids]

ASSUME OpsAssumption == /\ IsFiniteSet(Ids) /\ {MaxOps, MaxErrors} \subseteq Nat
                        /\ None \notin Ids \cup Bulks

VARIABLES
    db,        \* the rows the server has
    cache,     \* _cachedDomains[type]
    store,     \* sessionStorage 'vigil-domains-...', None when absent or expired
    here,      \* the list is the active view
    gets,      \* GETs of loadDomains: the rows read, None before the server reads
    checking,  \* checkingDomains
    all,       \* checkingAll[type]
    queue,     \* _bulkCheckQueue
    running,   \* _bulkCheckRunning
    posts,     \* POSTs of processBulkCheckQueue, one of each loop
    drops,     \* DELETEs of the confirm dialog, each with the row taken out
    bulk,      \* the loop of bulkAction 'delete' or submitBulkTags, or None
    saves,     \* PUTs and POSTs of forms, inline notes, imports and quick actions
    ops, errors,
    disturbed  \* since the last load by the user, requests overlapped, a load
               \* failed or was given old rows, or a request failed that had
               \* taken effect

vars == <<db, cache, store, here, gets, checking, all, queue, running, posts, drops,
          bulk, saves, ops, errors, disturbed>>

\* A list of rows: a function on the domains it has.  A row is how often it was
\* checked, and the words of its notes.
Empty == [i \in {} |-> None]
New == [checks |-> 0, text |-> {}]

Without(list, S) == [i \in DOMAIN list \ S |-> list[i]]
With(list, i, row) == [j \in DOMAIN list \cup {i} |-> IF j = i THEN row ELSE list[j]]

Silent == /\ gets = <<>> /\ checking = {} /\ ~all /\ ~running /\ posts = <<>>
          /\ drops = <<>> /\ bulk = None /\ saves = {}

-----------------------------------------------------------------------------
(* Helpers of the actions *)

\* The user starts something; it overlaps what is still under way.
UserStarts == /\ ops < MaxOps /\ ops' = ops + 1
              /\ disturbed' = (disturbed \/ ~Silent)

Fails == errors < MaxErrors /\ errors' = errors + 1

\* A request fails that has changed the server: the route commits, then add_log,
\* get_settings or an alert raises, or the answer is lost.  What a request does
\* after its connection was given up is not modelled.
Unheard == Fails /\ disturbed' = TRUE

\* clearDomainsCache, then loadDomains without force: the store is empty, so
\* a GET is sent.
ClearAndLoad == store' = None /\ gets' = Append(gets, None)

\* What a check, Check all or the form does when it succeeded: reload the
\* list of the active view; the other list's view clears both entries, the
\* dashboard clears none.
ReloadActive ==
    IF here THEN ClearAndLoad ELSE store' \in {store, None} /\ UNCHANGED gets

\* POST /api/domains/<id>/check; a domain that is gone is answered 404.
Checked(i) == IF i \in DOMAIN db
              THEN db' = [db EXCEPT ![i].checks = @ + 1] ELSE UNCHANGED db

-----------------------------------------------------------------------------
(* Loading the list *)

Init ==
    /\ db \in [Ids -> {New}] \cup {Empty} /\ cache = Empty /\ store = None /\ here = FALSE
    /\ gets = <<>> /\ checking = {} /\ all = FALSE
    /\ queue = <<>> /\ running = FALSE /\ posts = <<>>
    /\ drops = <<>> /\ bulk = None /\ saves = {}
    /\ ops = 0 /\ errors = 0 /\ disturbed = FALSE

\* activateView loads with force.
Enter ==
    /\ ops < MaxOps /\ ops' = ops + 1
    /\ here' = TRUE /\ gets' = Append(gets, None) /\ disturbed' = ~Silent
    /\ UNCHANGED <<db, cache, store, checking, all, queue, running, posts, drops, bulk,
                   saves, errors>>

Leave ==
    /\ here /\ here' = FALSE
    /\ UNCHANGED <<db, cache, store, gets, checking, all, queue, running, posts, drops,
                   bulk, saves, ops, errors, disturbed>>

\* refreshDomains
Refresh ==
    /\ here /\ ops < MaxOps /\ ops' = ops + 1
    /\ ClearAndLoad /\ disturbed' = ~Silent
    /\ UNCHANGED <<db, cache, here, checking, all, queue, running, posts, drops, bulk,
                   saves, errors>>

Served(k) ==
    /\ gets[k] = None /\ gets' = [gets EXCEPT ![k] = db]
    /\ UNCHANGED <<db, cache, store, here, checking, all, queue, running, posts, drops,
                   bulk, saves, ops, errors, disturbed>>

\* loadDomains and setCachedDomains: whichever answer comes last is kept.
Loaded(k) ==
    /\ gets[k] # None
    /\ cache' = gets[k] /\ store' = gets[k] /\ gets' = RemoveAt(gets, k)
    /\ UNCHANGED <<db, here, checking, all, queue, running, posts, drops, bulk, saves,
                   ops, errors, disturbed>>

LoadFailed(k) ==
    /\ Fails /\ gets' = RemoveAt(gets, k) /\ disturbed' = TRUE
    /\ UNCHANGED <<db, cache, store, here, checking, all, queue, running, posts, drops,
                   bulk, saves, ops>>

\* getCachedDomains refuses an entry of more than 60 s.
Expire ==
    /\ store # None /\ store' = None
    /\ UNCHANGED <<db, cache, here, gets, checking, all, queue, running, posts, drops,
                   bulk, saves, ops, errors, disturbed>>

-----------------------------------------------------------------------------
(* Checks *)

ManualCheck(i) ==
    /\ here /\ i \in DOMAIN cache /\ i \notin checking
    /\ UserStarts /\ checking' = checking \cup {i}
    /\ UNCHANGED <<db, cache, store, here, gets, all, queue, running, posts, drops, bulk,
                   saves, errors>>

ManualChecked(i) ==
    /\ i \in checking /\ checking' = checking \ {i} /\ i \in DOMAIN db
    /\ Checked(i) /\ ReloadActive
    /\ UNCHANGED <<cache, here, all, queue, running, posts, drops, bulk, saves, ops,
                   errors, disturbed>>

ManualFailed(i) ==
    /\ i \in checking /\ checking' = checking \ {i}
    /\ \/ (IF i \in DOMAIN db THEN Fails ELSE UNCHANGED errors) /\ UNCHANGED <<db, disturbed>>
       \/ i \in DOMAIN db /\ Checked(i) /\ Unheard
    /\ UNCHANGED <<cache, store, here, gets, all, queue, running, posts, drops, bulk, saves,
                   ops>>

\* The buttons are on the page of the list and on the dashboard.
CheckAll ==
    /\ ~all /\ UserStarts /\ all' = TRUE
    /\ UNCHANGED <<db, cache, store, here, gets, checking, queue, running, posts, drops,
                   bulk, saves, errors>>

\* save_domain_checks_batch is one transaction, and the run goes on when it was
\* rolled back.
AllChecked ==
    /\ all /\ all' = FALSE
    /\ LET checked == [i \in DOMAIN db |-> [db[i] EXCEPT !.checks = @ + 1]]
       IN \/ /\ \/ db' = checked /\ UNCHANGED errors
                \/ UNCHANGED db /\ Fails
             /\ ReloadActive /\ UNCHANGED disturbed
          \/ Fails /\ UNCHANGED <<db, store, gets, disturbed>>
          \/ Unheard /\ db' = checked /\ UNCHANGED <<store, gets>>
    /\ UNCHANGED <<cache, here, checking, queue, running, posts, drops, bulk, saves, ops>>

\* quickCheck and the quick-add form.
FromDashboard ==
    /\ ~here /\ UserStarts
    /\ \E s \in [what : {"quickcheck", "quickadd"}, id : Ids, text : {{}}] \ saves :
         saves' = saves \cup {s}
    /\ UNCHANGED <<db, cache, store, here, gets, checking, all, queue, running, posts,
                   drops, bulk, errors>>

-----------------------------------------------------------------------------
(* The queue of bulk checks *)

\* Mutant: a second loop is started beside the first.
StartQueueAgain(S) ==
    /\ here /\ S # {} /\ S \subseteq DOMAIN cache /\ UserStarts
    /\ queue' = Tail(SetToSeq(S)) /\ running' = TRUE
    /\ posts' = Append(posts, Head(SetToSeq(S)))
    /\ UNCHANGED <<db, cache, store, here, gets, checking, all, drops, bulk, saves, errors>>

\* bulkAction 'check': the ids replace the queue, of a running loop as well.
StartQueue(S) ==
    /\ here /\ S # {} /\ S \subseteq DOMAIN cache /\ UserStarts
    /\ IF running THEN queue' = SetToSeq(S) /\ UNCHANGED <<running, posts>>
                  ELSE /\ queue' = Tail(SetToSeq(S)) /\ running' = TRUE
                       /\ posts' = Append(posts, Head(SetToSeq(S)))
    /\ UNCHANGED <<db, cache, store, here, gets, checking, all, drops, bulk, saves, errors>>

\* Mutant: a failed check ends the loop without its last lines.
QueueStepStops(k) ==
    /\ \/ Checked(posts[k]) /\ UNCHANGED errors
          /\ IF queue # <<>>
             THEN /\ posts' = [posts EXCEPT ![k] = Head(queue)] /\ queue' = Tail(queue)
                  /\ UNCHANGED <<running, store, gets>>
             ELSE posts' = RemoveAt(posts, k) /\ running' = FALSE /\ ClearAndLoad
                  /\ UNCHANGED queue
       \/ Fails /\ posts' = RemoveAt(posts, k) /\ UNCHANGED <<db, queue, running, store, gets>>
    /\ UNCHANGED <<cache, here, checking, all, drops, bulk, saves, ops, disturbed>>

\* An answer of processBulkCheckQueue: the next id, or the end, which reloads.
QueueStep(k) ==
    /\ \/ Checked(posts[k]) /\ (UNCHANGED errors \/ Fails)
       \/ Fails /\ UNCHANGED db
    /\ IF queue # <<>>
       THEN /\ posts' = [posts EXCEPT ![k] = Head(queue)] /\ queue' = Tail(queue)
            /\ UNCHANGED <<running, store, gets>>
       ELSE posts' = RemoveAt(posts, k) /\ running' = FALSE /\ ClearAndLoad
            /\ UNCHANGED queue
    /\ UNCHANGED <<cache, here, checking, all, drops, bulk, saves, ops, disturbed>>

-----------------------------------------------------------------------------
(* Deleting *)

\* Mutant: the row leaves the list but stays in the store.
DropKeepsStore(i) ==
    /\ here /\ i \in DOMAIN cache /\ UserStarts
    /\ drops' = Append(drops, [id |-> i, row |-> cache[i]])
    /\ cache' = Without(cache, {i})
    /\ UNCHANGED <<db, store, here, gets, checking, all, queue, running, posts, bulk, saves,
                   errors>>

\* The confirm dialog: the row leaves the list and the store is cleared before
\* the server is asked.
Drop(i) ==
    /\ here /\ i \in DOMAIN cache /\ UserStarts
    /\ drops' = Append(drops, [id |-> i, row |-> cache[i]])
    /\ cache' = Without(cache, {i}) /\ store' = None
    /\ UNCHANGED <<db, here, gets, checking, all, queue, running, posts, bulk, saves, errors>>

Dropped(k) ==
    /\ drops[k].id \in DOMAIN db /\ db' = Without(db, {drops[k].id})
    /\ drops' = RemoveAt(drops, k)
    /\ UNCHANGED <<cache, store, here, gets, checking, all, queue, running, posts, bulk,
                   saves, ops, errors, disturbed>>

\* The row comes back, when the DELETE failed or found no such domain, and when
\* it failed after the domain was deleted.  Loaded again meanwhile, it is listed
\* twice, which a list of rows by id does not show (DomainTable does).
DropFailed(k) ==
    /\ LET i == drops[k].id
       IN \/ (IF i \in DOMAIN db THEN Fails ELSE UNCHANGED errors) /\ UNCHANGED <<db, disturbed>>
          \/ i \in DOMAIN db /\ db' = Without(db, {i}) /\ Unheard
    /\ drops' = RemoveAt(drops, k)
    /\ cache' = With(cache, drops[k].id, drops[k].row) /\ store' = None
    /\ UNCHANGED <<here, gets, checking, all, queue, running, posts, bulk, saves, ops>>

\* bulkAction 'delete' and submitBulkTags take the selected ids one by one.
StartBulk(S) ==
    /\ here /\ S # {} /\ S \subseteq DOMAIN cache /\ bulk = None /\ UserStarts
    /\ \E what \in {"delete", "tags"} : bulk' = [what |-> what, todo |-> S, done |-> {}]
    /\ UNCHANGED <<db, cache, store, here, gets, checking, all, queue, running, posts,
                   drops, saves, errors>>

\* Mutant: a failed DELETE counts as done.
BulkStepOptimistic(i) ==
    /\ bulk # None /\ i \in bulk.todo
    /\ \/ /\ db' = IF bulk.what = "delete" THEN Without(db, {i}) ELSE db
          /\ UNCHANGED errors
       \/ Fails /\ UNCHANGED db
    /\ bulk' = [bulk EXCEPT !.todo = @ \ {i}, !.done = @ \cup {i}]
    /\ UNCHANGED <<cache, store, here, gets, checking, all, queue, running, posts, drops,
                   saves, ops, disturbed>>

\* A domain that is gone is answered 404 and counts as failed, like one whose
\* DELETE failed after it was deleted.  A PUT of tags changes nothing:
\* update_domain_route does not read them.
BulkStep(i) ==
    /\ bulk # None /\ i \in bulk.todo
    /\ \/ /\ i \in DOMAIN db /\ UNCHANGED <<errors, disturbed>>
          /\ db' = IF bulk.what = "delete" THEN Without(db, {i}) ELSE db
          /\ bulk' = [bulk EXCEPT !.todo = @ \ {i}, !.done = @ \cup {i}]
       \/ /\ IF i \in DOMAIN db THEN Fails ELSE UNCHANGED errors
          /\ bulk' = [bulk EXCEPT !.todo = @ \ {i}] /\ UNCHANGED <<db, disturbed>>
       \/ /\ i \in DOMAIN db /\ bulk.what = "delete" /\ db' = Without(db, {i}) /\ Unheard
          /\ bulk' = [bulk EXCEPT !.todo = @ \ {i}]
    /\ UNCHANGED <<cache, store, here, gets, checking, all, queue, running, posts, drops,
                   saves, ops>>

\* Deleted rows leave the list and the store is cleared; tags reload.
BulkEnds ==
    /\ bulk # None /\ bulk.todo = {} /\ bulk' = None
    /\ IF bulk.what = "delete"
       THEN cache' = Without(cache, bulk.done) /\ store' = None /\ UNCHANGED gets
       ELSE ClearAndLoad /\ UNCHANGED cache
    /\ UNCHANGED <<db, here, checking, all, queue, running, posts, drops, saves, ops,
                   errors, disturbed>>

-----------------------------------------------------------------------------
(* Adding, editing, notes and import *)

\* The form of a new or an edited domain, a note edited in place, an import.
StartSave ==
    /\ here /\ UserStarts
    /\ \E s \in [what : {"add", "edit", "note", "import"}, id : Ids, text : SUBSET Words]
               \ saves :
         /\ s.what \in {"edit", "note"} => s.id \in DOMAIN cache
         /\ saves' = saves \cup {s}
    /\ UNCHANGED <<db, cache, store, here, gets, checking, all, queue, running, posts,
                   drops, bulk, errors>>

\* What the server refuses: a domain that is already there, one that is gone.
Refused(s) == \/ s.what \in {"add", "quickadd"} /\ s.id \in DOMAIN db
              \/ s.what \in {"edit", "note", "quickcheck"} /\ s.id \notin DOMAIN db

Written(s) == db' = With(db, s.id, [IF s.id \in DOMAIN db THEN db[s.id] ELSE New
                                      EXCEPT !.text = s.text])

FormSaved(s) ==
    /\ s.what \in {"add", "edit"} /\ ~Refused(s) /\ saves' = saves \ {s}
    /\ Written(s) /\ ReloadActive
    /\ UNCHANGED <<cache, here, checking, all, queue, running, posts, drops, bulk, ops,
                   errors, disturbed>>

\* quickCheck leaves the store alone; the quick-add form clears it.
QuickSaved(s) ==
    /\ s.what \in {"quickcheck", "quickadd"} /\ ~Refused(s) /\ saves' = saves \ {s}
    /\ IF s.what = "quickadd" THEN Written(s) /\ store' = None
                              ELSE Checked(s.id) /\ UNCHANGED store
    /\ UNCHANGED <<cache, here, gets, checking, all, queue, running, posts, drops, bulk,
                   ops, errors, disturbed>>

\* activateInlineNotes: the row in memory is updated, the store is not.
NoteSaved(s) ==
    /\ s.what = "note" /\ ~Refused(s) /\ saves' = saves \ {s} /\ Written(s)
    /\ cache' = IF s.id \in DOMAIN cache
                THEN [cache EXCEPT ![s.id].text = s.text] ELSE cache
    /\ UNCHANGED <<store, here, gets, checking, all, queue, running, posts, drops, bulk,
                   ops, errors, disturbed>>

\* handleImportResult loads without clearing the store: a fresh entry, read
\* before the import, is what the list shows.
Imported(s) ==
    /\ s.what = "import" /\ saves' = saves \ {s}
    /\ IF s.id \in DOMAIN db THEN UNCHANGED db ELSE Written(s)
    /\ IF here /\ store # None
       THEN cache' = store /\ disturbed' = TRUE /\ UNCHANGED <<store, gets>>
       ELSE /\ IF here THEN gets' = Append(gets, None) ELSE UNCHANGED gets
            /\ UNCHANGED <<cache, store, disturbed>>
    /\ UNCHANGED <<here, checking, all, queue, running, posts, drops, bulk, ops, errors>>

\* What a request that failed has done all the same.
DoneUnheard(s) ==
    CASE s.what = "quickcheck" -> Checked(s.id)
      [] s.what = "import"     -> s.id \notin DOMAIN db /\ Written(s)
      [] OTHER                 -> Written(s)

SaveFailed(s) ==
    /\ saves' = saves \ {s}
    /\ \/ (IF Refused(s) THEN UNCHANGED errors ELSE Fails) /\ UNCHANGED <<db, disturbed>>
       \/ ~Refused(s) /\ DoneUnheard(s) /\ Unheard
    /\ UNCHANGED <<cache, store, here, gets, checking, all, queue, running, posts, drops,
                   bulk, ops>>

-----------------------------------------------------------------------------
Answers ==
    \/ (\E k \in DOMAIN gets : Served(k) \/ Loaded(k) \/ LoadFailed(k))
    \/ (\E i \in Ids : ManualChecked(i) \/ ManualFailed(i) \/ BulkStep(i))
    \/ AllChecked \/ (\E k \in DOMAIN posts : QueueStep(k))
    \/ (\E k \in DOMAIN drops : Dropped(k) \/ DropFailed(k)) \/ BulkEnds
    \/ (\E s \in saves : \/ FormSaved(s) \/ QuickSaved(s) \/ NoteSaved(s)
                         \/ Imported(s) \/ SaveFailed(s))

User ==
    \/ Enter \/ Leave \/ Refresh \/ CheckAll \/ FromDashboard \/ StartSave
    \/ (\E i \in Ids : ManualCheck(i) \/ Drop(i))
    \/ (\E S \in SUBSET Ids : StartQueue(S) \/ StartBulk(S))

Next == Answers \/ User \/ Expire

Spec == Init /\ [][Next]_vars

\* Every request is answered or fails; the user need not do anything.
FairSpec == Spec /\ WF_vars(Answers)

-----------------------------------------------------------------------------
(* Properties *)

\* When the list is on the screen and everything the user started one after the
\* other has been answered, it shows the rows the server has: after deletions
\* that failed, bulk operations that failed in part, notes and reloads that
\* could be answered by sessionStorage (clearDomainsCache before every load).
\* Until the user loads again that is not said after a request that failed and
\* had taken effect: no handler of an error loads the list.
ListIsCurrent == here /\ Silent /\ ~disturbed => cache = db

\* Then the entry in sessionStorage, which an import loads the list from, has the
\* domains of the server and what the last check of each found: every deletion
\* and every check clears it in time.  Only notes may be old in it: a note edited
\* in place is written into the row in memory alone.
StoreIsCurrent ==
    here /\ Silent /\ ~disturbed /\ store # None =>
      /\ DOMAIN store = DOMAIN db
      /\ \A i \in DOMAIN db : store[i].checks = db[i].checks

\* "Rate-limited bulk check": however often it is started, one check of the
\* queue is on its way at a time (_bulkCheckRunning).
OneQueueLoop == Len(posts) <= 1

\* What was started ends: locks of checks are released, the queue is worked
\* off, deletions and loads end, whichever requests fail.
WorkEnds == ~Silent ~> Silent
==============================================================================
