--------------------------- MODULE DomainOps_proofs ---------------------------
(***************************************************************************)
(* Proofs about the operations on domains, for any list of domains and any *)
(* number of operations and failures: one check of the queue is on its way *)
(* at a time, and the list in memory and its copy in sessionStorage end    *)
(* equal to the server's.                                                  *)
(***************************************************************************)
EXTENDS DomainOps, TLAPS

\* The flag says whether there is a loop, which waits for one answer.
LoopInv == \/ ~running /\ posts = <<>>
           \/ running /\ \E i : posts = <<i>>

LEMMA LoopInit == Init => LoopInv
BY DEF Init, LoopInv

\* The answers of the loop, and the user's, keep the invariant; nothing else
\* touches the flag or the requests.
LEMMA LoopStep == LoopInv /\ [Next]_vars => LoopInv'
<1> SUFFICES ASSUME LoopInv, [Next]_vars PROVE LoopInv'
  OBVIOUS
<1>1. ASSUME NEW S \in SUBSET Ids, StartQueue(S) PROVE LoopInv'
  <2>1. CASE running
    BY <1>1, <2>1 DEF StartQueue, LoopInv
  <2>2. CASE ~running
    <3> DEFINE i == Head(SetToSeq(S))
    <3>1. running' /\ posts' = Append(<<>>, i)
      BY <1>1, <2>2 DEF StartQueue, LoopInv
    <3>2. Append(<<>>, i) = <<i>>
      OBVIOUS
    <3> QED
      BY <3>1, <3>2 DEF LoopInv
  <2> QED
    BY <2>1, <2>2
<1>2. ASSUME NEW k \in DOMAIN posts, QueueStep(k) PROVE LoopInv'
  <2>1. PICK i : running /\ posts = <<i>> /\ k = 1
    BY <1>2 DEF LoopInv
  <2>2. CASE queue # <<>>
    <3> DEFINE j == Head(queue)
    <3>1. running' /\ posts' = [<<i>> EXCEPT ![1] = j]
      BY <1>2, <2>1, <2>2 DEF QueueStep
    <3>2. [<<i>> EXCEPT ![1] = j] = <<j>>
      OBVIOUS
    <3> QED
      BY <3>1, <3>2 DEF LoopInv
  <2>3. CASE queue = <<>>
    <3>1. ~running' /\ posts' = RemoveAt(<<i>>, 1)
      BY <1>2, <2>1, <2>3 DEF QueueStep
    <3>2. RemoveAt(<<i>>, 1) = <<>>
      BY DEF RemoveAt
    <3> QED
      BY <3>1, <3>2 DEF LoopInv
  <2> QED
    BY <2>2, <2>3
<1>3. CASE UNCHANGED <<running, posts>>
  BY <1>3 DEF LoopInv
<1>4. ASSUME \/ Enter \/ Leave \/ Refresh \/ CheckAll \/ FromDashboard \/ StartSave \/ Expire
             \/ \E i \in Ids : ManualCheck(i) \/ Drop(i)
             \/ \E S \in SUBSET Ids : StartBulk(S)
      PROVE UNCHANGED <<running, posts>>
  BY <1>4 DEF Enter, Leave, Refresh, CheckAll, FromDashboard, StartSave, Expire, ManualCheck,
              Drop, StartBulk
<1>5. ASSUME \/ \E k \in DOMAIN gets : Served(k) \/ Loaded(k) \/ LoadFailed(k)
             \/ \E i \in Ids : ManualChecked(i) \/ ManualFailed(i) \/ BulkStep(i)
             \/ AllChecked
             \/ \E k \in DOMAIN drops : Dropped(k) \/ DropFailed(k)
             \/ BulkEnds
             \/ \E s \in saves : \/ FormSaved(s) \/ QuickSaved(s) \/ NoteSaved(s)
                                 \/ Imported(s) \/ SaveFailed(s)
      PROVE UNCHANGED <<running, posts>>
  BY <1>5 DEF Served, Loaded, LoadFailed, ManualChecked, ManualFailed, BulkStep, AllChecked,
              Dropped, DropFailed, BulkEnds, FormSaved, QuickSaved, NoteSaved, Imported,
              SaveFailed
<1>6. CASE UNCHANGED vars
  BY <1>6, <1>3 DEF vars
<1> QED
  BY <1>1, <1>2, <1>3, <1>4, <1>5, <1>6 DEF Next, Answers, User

\* However often the bulk check is started while one is under way, only one
\* request of the queue waits for its answer (_bulkCheckRunning).
THEOREM QueueIsSingle == Spec => []OneQueueLoop
<1>1. ASSUME LoopInv PROVE OneQueueLoop
  <2>1. CASE posts = <<>>
    BY <2>1 DEF OneQueueLoop
  <2>2. ASSUME NEW i, posts = <<i>> PROVE OneQueueLoop
    <3>1. Len(<<i>>) = 1
      OBVIOUS
    <3> QED
      BY <2>2, <3>1 DEF OneQueueLoop
  <2> QED
    BY <1>1, <2>1, <2>2 DEF LoopInv
<1> QED
  BY LoopInit, LoopStep, <1>1, PTL DEF Spec

-------------------------------------------------------------------------------
(* The list on the screen *)

(* While the user does one thing after the other, at most one thing is     *)
(* under way, and each says how the rows in memory differ from the         *)
(* server's until its answer was worked off.                               *)
NoGets == gets = <<>>
NoChecks == checking = {} /\ ~all
NoQueue == ~running /\ posts = <<>>
NoDeletion == drops = <<>> /\ bulk = None

\* The entry in sessionStorage differs from the server in notes only.
StoreFits ==
  store # None => DOMAIN store = DOMAIN db /\ \A i \in DOMAIN db : store[i].checks = db[i].checks

Resting ==
  NoGets /\ NoChecks /\ NoQueue /\ NoDeletion /\ saves = {} /\ cache = db /\ StoreFits
Loading ==
  gets \in {<<None>>, <<db>>} /\ NoChecks /\ NoQueue /\ NoDeletion /\ saves = {}
Checking ==
  /\ NoGets /\ NoQueue /\ NoDeletion /\ saves = {} /\ cache = db /\ StoreFits
  /\ \/ all /\ checking = {}
     \/ ~all /\ \E i \in Ids : checking = {i}
Queueing ==
  NoGets /\ NoChecks /\ running /\ NoDeletion /\ saves = {}
Dropping ==
  /\ NoGets /\ NoChecks /\ NoQueue /\ bulk = None /\ saves = {} /\ store = None
  /\ \E i \in DOMAIN db : drops = <<[id |-> i, row |-> db[i]]>> /\ cache = Without(db, {i})
Deleting ==
  /\ NoGets /\ NoChecks /\ NoQueue /\ drops = <<>> /\ saves = {}
  /\ bulk \in Bulks
  /\ bulk.what = "delete" => db = Without(cache, bulk.done)
Saving ==
  /\ NoGets /\ NoChecks /\ NoQueue /\ NoDeletion /\ cache = db /\ StoreFits
  /\ \E s \in saves : saves = {s} /\ s.what \in {"add", "edit", "note", "import"}

StageInv ==
  here /\ ~disturbed =>
    Resting \/ Loading \/ Checking \/ Queueing \/ Dropping \/ Deleting \/ Saving

(* The server's rows are a list.                                           *)
DbIsList == db = [i \in DOMAIN db |-> db[i]]

LEMMA DbStep == DbIsList /\ [Next]_vars => DbIsList'
<1> SUFFICES ASSUME DbIsList, [Next]_vars PROVE DbIsList'
  OBVIOUS
<1>1. ASSUME db' = db PROVE DbIsList'
  BY <1>1 DEF DbIsList
<1>2. ASSUME NEW i, Checked(i) PROVE DbIsList'
  BY <1>2 DEF Checked, DbIsList
<1>3. ASSUME NEW list, NEW S, db' = Without(list, S) PROVE DbIsList'
  BY <1>3 DEF Without, DbIsList
<1>4. ASSUME NEW s, Written(s) PROVE DbIsList'
  BY <1>4 DEF Written, With, DbIsList
<1>5. CASE User
  BY <1>1, <1>5 DEF User, Enter, Leave, Refresh, CheckAll, FromDashboard, StartSave,
                    ManualCheck, Drop, StartQueue, StartBulk
<1>6. CASE Answers
  <2>1. CASE \E k \in DOMAIN gets : Served(k) \/ Loaded(k) \/ LoadFailed(k)
    BY <2>1, <1>1 DEF Served, Loaded, LoadFailed
  <2>2. CASE \/ \E i \in Ids : ManualChecked(i) \/ ManualFailed(i)
             \/ \E k \in DOMAIN posts : QueueStep(k)
    BY <2>2, <1>1, <1>2 DEF ManualChecked, ManualFailed, QueueStep
  <2>3. CASE AllChecked
    <3>1. db' = db \/ db' = [i \in DOMAIN db |-> [db[i] EXCEPT !.checks = @ + 1]]
      BY <2>3 DEF AllChecked
    <3> QED
      BY <1>1, <3>1 DEF DbIsList
  <2>4. CASE \E i \in Ids : BulkStep(i)
    BY <2>4, <1>1, <1>3 DEF BulkStep
  <2>5. CASE (\E k \in DOMAIN drops : Dropped(k) \/ DropFailed(k)) \/ BulkEnds
    BY <2>5, <1>1, <1>3 DEF Dropped, DropFailed, BulkEnds
  <2>6. CASE \E s \in saves : \/ FormSaved(s) \/ QuickSaved(s) \/ NoteSaved(s)
                              \/ Imported(s) \/ SaveFailed(s)
    BY <2>6, <1>1, <1>2, <1>4 DEF FormSaved, QuickSaved, NoteSaved, Imported, SaveFailed,
                                  DoneUnheard
  <2> QED
    BY <1>6, <2>1, <2>2, <2>3, <2>4, <2>5, <2>6 DEF Answers
<1>7. CASE Expire \/ UNCHANGED vars
  BY <1>1, <1>7 DEF Expire, vars
<1> QED
  BY <1>5, <1>6, <1>7 DEF Next

(* A request that is the only one leaves none when it is answered.         *)
LEMMA OneOnly ==
  ASSUME NEW x
  PROVE  /\ Append(<<>>, x) = <<x>> /\ DOMAIN <<x>> = {1} /\ <<x>>[1] = x
         /\ RemoveAt(<<x>>, 1) = <<>> /\ <<x>> # <<>>
         /\ \A y : [<<x>> EXCEPT ![1] = y] = <<y>>
<1>1. Append(<<>>, x) = <<x>> /\ DOMAIN <<x>> = {1} /\ <<x>>[1] = x /\ <<x>> # <<>>
  OBVIOUS
<1>2. RemoveAt(<<x>>, 1) = <<>>
  BY DEF RemoveAt
<1>3. \A y : [<<x>> EXCEPT ![1] = y] = <<y>>
  OBVIOUS
<1> QED
  BY <1>1, <1>2, <1>3

(* Rows that are taken out and put back, or taken out one after the other. *)
LEMMA RowsOfList ==
  ASSUME NEW list, list = [i \in DOMAIN list |-> list[i]]
  PROVE  /\ Without(list, {}) = list
         /\ \A i \in DOMAIN list : With(Without(list, {i}), i, list[i]) = list
BY DEF Without, With

LEMMA WithoutMore ==
  ASSUME NEW list, NEW S, NEW i
  PROVE  Without(Without(list, S), {i}) = Without(list, S \cup {i})
BY DEF Without

(* When nothing is under way the list is the server's.                     *)
LEMMA SilentRests ==
  ASSUME StageInv, here, ~disturbed, Silent
  PROVE  Resting
BY OneOnly, OpsAssumption DEF StageInv, Silent, Resting, Loading, Checking, Queueing, Dropping, Deleting, Saving,
               NoGets

(* Each row of the server has a number of checks, which the answer to a    *)
(* form or a note leaves alone.                                            *)
RowsInv == \A i \in DOMAIN db : "checks" \in DOMAIN db[i]

LEMMA RowsStep == RowsInv /\ [Next]_vars => RowsInv'
<1> SUFFICES ASSUME RowsInv, [Next]_vars PROVE RowsInv'
  OBVIOUS
<1>1. ASSUME db' = db PROVE RowsInv'
  BY <1>1 DEF RowsInv
<1>2. ASSUME NEW i, Checked(i) PROVE RowsInv'
  BY <1>2 DEF Checked, RowsInv
<1>3. ASSUME NEW S, db' = Without(db, S) PROVE RowsInv'
  BY <1>3 DEF Without, RowsInv
<1>4. ASSUME NEW s, Written(s) PROVE RowsInv'
  <2>1. "checks" \in DOMAIN New
    BY DEF New
  <2> QED
    BY <1>4, <2>1 DEF Written, With, RowsInv
<1>5. CASE User
  BY <1>1, <1>5 DEF User, Enter, Leave, Refresh, CheckAll, FromDashboard, StartSave,
                    ManualCheck, Drop, StartQueue, StartBulk
<1>6. CASE Answers
  <2>1. CASE \E k \in DOMAIN gets : Served(k) \/ Loaded(k) \/ LoadFailed(k)
    BY <2>1, <1>1 DEF Served, Loaded, LoadFailed
  <2>2. CASE \/ \E i \in Ids : ManualChecked(i) \/ ManualFailed(i)
             \/ \E k \in DOMAIN posts : QueueStep(k)
    BY <2>2, <1>1, <1>2 DEF ManualChecked, ManualFailed, QueueStep
  <2>3. CASE AllChecked
    <3>1. db' = db \/ db' = [i \in DOMAIN db |-> [db[i] EXCEPT !.checks = @ + 1]]
      BY <2>3 DEF AllChecked
    <3> QED
      BY <1>1, <3>1 DEF RowsInv
  <2>4. CASE \E i \in Ids : BulkStep(i)
    BY <2>4, <1>1, <1>3 DEF BulkStep
  <2>5. CASE (\E k \in DOMAIN drops : Dropped(k) \/ DropFailed(k)) \/ BulkEnds
    BY <2>5, <1>1, <1>3 DEF Dropped, DropFailed, BulkEnds
  <2>6. CASE \E s \in saves : \/ FormSaved(s) \/ QuickSaved(s) \/ NoteSaved(s)
                              \/ Imported(s) \/ SaveFailed(s)
    BY <2>6, <1>1, <1>2, <1>4 DEF FormSaved, QuickSaved, NoteSaved, Imported, SaveFailed,
                                  DoneUnheard
  <2> QED
    BY <1>6, <2>1, <2>2, <2>3, <2>4, <2>5, <2>6 DEF Answers
<1>7. CASE Expire \/ UNCHANGED vars
  BY <1>1, <1>7 DEF Expire, vars
<1> QED
  BY <1>5, <1>6, <1>7 DEF Next

(* The user starts something: alone, or from then on things overlap.       *)
LEMMA UserKeepsStage ==
  ASSUME LoopInv, DbIsList, StageInv, User
  PROVE  StageInv'
<1> SUFFICES ASSUME here', ~disturbed' PROVE StageInv'
  BY DEF StageInv
<1>1. ASSUME Silent, gets' = Append(gets, None),
             UNCHANGED <<checking, all, running, posts, drops, bulk, saves>>
      PROVE  StageInv'
  BY <1>1, OneOnly DEF Silent, StageInv, Loading, NoChecks, NoQueue, NoDeletion
<1>2. CASE Enter \/ Refresh
  BY <1>1, <1>2 DEF Enter, Refresh, ClearAndLoad
<1>3. CASE Leave \/ FromDashboard
  BY <1>3 DEF Leave, FromDashboard
<1>4. ASSUME UserStarts, here' = here PROVE Resting
  BY <1>4, SilentRests DEF UserStarts
<1>5. CASE CheckAll
  <2>1. Resting
    BY <1>4, <1>5 DEF CheckAll
  <2>2. Checking'
    BY <1>5, <2>1 DEF CheckAll, Resting, Checking, StoreFits, NoGets, NoChecks, NoQueue, NoDeletion
  <2> QED
    BY <2>2 DEF StageInv
<1>6. ASSUME NEW i \in Ids, ManualCheck(i) PROVE StageInv'
  <2>1. Resting
    BY <1>4, <1>6 DEF ManualCheck
  <2>2. Checking'
    BY <1>6, <2>1
       DEF ManualCheck, Resting, Checking, StoreFits, NoGets, NoChecks, NoQueue, NoDeletion
  <2> QED
    BY <2>2 DEF StageInv
<1>7. ASSUME NEW S \in SUBSET Ids, StartQueue(S) PROVE StageInv'
  <2>1. Resting
    BY <1>4, <1>7 DEF StartQueue
  <2>2. Queueing'
    BY <1>7, <2>1 DEF StartQueue, Resting, Queueing, NoGets, NoChecks, NoQueue, NoDeletion
  <2> QED
    BY <2>2 DEF StageInv
<1>8. ASSUME NEW i \in Ids, Drop(i) PROVE StageInv'
  <2>1. Resting
    BY <1>4, <1>8 DEF Drop
  <2>2. drops' = <<[id |-> i, row |-> db[i]]>> /\ i \in DOMAIN db /\ db' = db
        /\ cache' = Without(db, {i})
    BY <1>8, <2>1, OneOnly DEF Drop, Resting, NoDeletion
  <2>3. Dropping'
    BY <1>8, <2>1, <2>2 DEF Drop, Resting, Dropping, NoGets, NoChecks, NoQueue, NoDeletion
  <2> QED
    BY <2>3 DEF StageInv
<1>9. ASSUME NEW S \in SUBSET Ids, StartBulk(S) PROVE StageInv'
  <2>1. Resting
    BY <1>4, <1>9 DEF StartBulk
  <2>2. PICK what \in {"delete", "tags"} : bulk' = [what |-> what, todo |-> S, done |-> {}]
    BY <1>9 DEF StartBulk
  <2>3. db' = Without(cache', {})
    BY <1>9, <2>1, RowsOfList DEF StartBulk, Resting, DbIsList
  <2>4. UNCHANGED <<gets, checking, all, running, posts, drops, saves>>
    BY <1>9 DEF StartBulk
  <2>5. bulk' \in Bulks /\ bulk'.what = what /\ bulk'.done = {}
    BY <2>2 DEF Bulks
  <2>6. Deleting'
    BY <2>1, <2>2, <2>3, <2>4, <2>5
       DEF Resting, Deleting, NoGets, NoChecks, NoQueue, NoDeletion
  <2> QED
    BY <2>6 DEF StageInv
<1>10. CASE StartSave
  <2>1. Resting
    BY <1>4, <1>10 DEF StartSave
  <2>2. PICK s \in [what : {"add", "edit", "note", "import"}, id : Ids, text : SUBSET Words] :
          saves' = saves \cup {s}
    BY <1>10 DEF StartSave
  <2>3. saves' = {s} /\ s.what \in {"add", "edit", "note", "import"}
    BY <2>1, <2>2 DEF Resting
  <2>4. Saving'
    BY <1>10, <2>1, <2>3
       DEF StartSave, Resting, Saving, StoreFits, NoGets, NoChecks, NoQueue, NoDeletion
  <2> QED
    BY <2>4 DEF StageInv
<1> QED
  BY <1>2, <1>3, <1>5, <1>6, <1>7, <1>8, <1>9, <1>10 DEF User

(* The server's answers to what the user does to domains one by one.       *)
LEMMA ChecksKeepStage ==
  ASSUME LoopInv, StageInv,
         \/ \E i \in Ids : ManualChecked(i) \/ ManualFailed(i)
         \/ AllChecked \/ \E k \in DOMAIN posts : QueueStep(k)
  PROVE  StageInv'
<1>0. here' = here /\ (disturbed' \/ disturbed' = disturbed)
  BY DEF ManualChecked, ManualFailed, AllChecked, QueueStep, Unheard
<1> SUFFICES ASSUME here', ~disturbed', here, ~disturbed PROVE StageInv'
  BY <1>0 DEF StageInv
<1>1. ASSUME gets = <<>>, ClearAndLoad, NoChecks', NoQueue', NoDeletion', saves' = {}
      PROVE  StageInv'
  BY <1>1, OneOnly DEF ClearAndLoad, StageInv, Loading
<1>2. ASSUME NEW i \in Ids, ManualChecked(i) \/ ManualFailed(i) PROVE StageInv'
  <2>1. Checking /\ checking = {i} /\ ~all
    BY <1>2 DEF StageInv, ManualChecked, ManualFailed, Resting, Loading, Checking, Queueing,
                Dropping, Deleting, Saving, NoChecks
  <2>2. CASE ManualChecked(i)
    <3>1. /\ ClearAndLoad /\ checking' = {}
          /\ UNCHANGED <<all, running, posts, drops, bulk, saves>>
      BY <2>1, <2>2 DEF ManualChecked, ReloadActive
    <3> QED
      BY <1>1, <2>1, <3>1 DEF Checking, NoGets, NoChecks, NoQueue, NoDeletion
  <2>3. CASE ManualFailed(i)
    <3>1. UNCHANGED <<db, cache, store, gets, all, running, posts, drops, bulk, saves>>
      BY <2>3 DEF ManualFailed, Unheard
    <3>2. checking' = {}
      BY <2>1, <2>3 DEF ManualFailed
    <3>3. Resting'
      BY <2>1, <3>1, <3>2
         DEF Checking, Resting, StoreFits, NoGets, NoChecks, NoQueue, NoDeletion
    <3> QED
      BY <3>3 DEF StageInv
  <2> QED
    BY <1>2, <2>2, <2>3
<1>3. CASE AllChecked
  <2>1. Checking /\ checking = {}
    BY <1>3 DEF StageInv, AllChecked, Resting, Loading, Checking, Queueing, Dropping,
                Deleting, Saving, NoChecks
  <2>2. CASE ClearAndLoad
    BY <1>1, <1>3, <2>1, <2>2 DEF AllChecked, Checking, NoGets, NoChecks, NoQueue, NoDeletion
  <2>3. CASE UNCHANGED <<db, store, gets>>
    <3>1. Resting'
      BY <1>3, <2>1, <2>3 DEF AllChecked, Checking, Resting, StoreFits, NoGets, NoChecks, NoQueue,
                              NoDeletion
    <3> QED
      BY <3>1 DEF StageInv
  <2> QED
    BY <1>3, <2>2, <2>3 DEF AllChecked, ReloadActive, Unheard
<1>4. ASSUME NEW k \in DOMAIN posts, QueueStep(k) PROVE StageInv'
  <2>1. PICK i : running /\ posts = <<i>> /\ k = 1
    BY <1>4 DEF LoopInv
  <2>2. Queueing
    BY <2>1 DEF StageInv, Resting, Loading, Checking, Dropping, Deleting, Saving, NoQueue
  <2>3. UNCHANGED <<checking, all, drops, bulk, saves>>
    BY <1>4 DEF QueueStep
  <2>4. CASE queue # <<>>
    <3>1. Queueing'
      BY <1>4, <2>2, <2>3, <2>4 DEF QueueStep, Queueing, NoGets, NoChecks, NoDeletion
    <3> QED
      BY <3>1 DEF StageInv
  <2>5. CASE queue = <<>>
    <3>1. ~running' /\ posts' = <<>> /\ ClearAndLoad
      BY <1>4, <2>1, <2>5, OneOnly DEF QueueStep
    <3> QED
      BY <1>1, <2>2, <2>3, <3>1 DEF Queueing, NoGets, NoChecks, NoQueue, NoDeletion
  <2> QED
    BY <2>4, <2>5
<1> QED
  BY <1>2, <1>3, <1>4

LEMMA LoadsKeepStage ==
  ASSUME StageInv, NEW k \in DOMAIN gets, Served(k) \/ Loaded(k) \/ LoadFailed(k)
  PROVE  StageInv'
<1>0. here' = here /\ (disturbed' \/ (disturbed' = disturbed /\ (Served(k) \/ Loaded(k))))
  BY DEF Served, Loaded, LoadFailed
<1> SUFFICES ASSUME here', ~disturbed', here, ~disturbed, Served(k) \/ Loaded(k)
             PROVE  StageInv'
  BY <1>0 DEF StageInv
<1>1. Loading
  <2>1. gets # <<>>
    OBVIOUS
  <2> QED
    BY <2>1 DEF StageInv, Resting, Checking, Queueing, Dropping, Deleting, Saving, NoGets
<1>2. PICK x \in {None, db} : gets = <<x>> /\ k = 1
  BY <1>1, OneOnly DEF Loading
<1>3. UNCHANGED <<checking, all, running, posts, drops, bulk, saves, db>>
  BY DEF Served, Loaded
<1>4. CASE Served(k)
  <2>1. gets' = <<db>>
    BY <1>2, <1>4, OneOnly DEF Served
  <2> QED
    BY <1>1, <1>3, <2>1 DEF StageInv, Loading, NoChecks, NoQueue, NoDeletion
<1>5. CASE Loaded(k)
  <2>1. x = db /\ cache' = db /\ store' = db /\ gets' = <<>>
    BY <1>2, <1>5, OneOnly DEF Loaded
  <2>2. Resting'
    BY <1>1, <1>3, <2>1 DEF Loading, Resting, StoreFits, NoGets, NoChecks, NoQueue, NoDeletion
  <2> QED
    BY <2>2 DEF StageInv
<1> QED
  BY <1>4, <1>5

LEMMA DeletionsKeepStage ==
  ASSUME DbIsList, StageInv,
         \/ \E k \in DOMAIN drops : Dropped(k) \/ DropFailed(k)
         \/ BulkEnds \/ \E i \in Ids : BulkStep(i)
  PROVE  StageInv'
<1>0. here' = here /\ (disturbed' \/ disturbed' = disturbed)
  BY DEF Dropped, DropFailed, BulkEnds, BulkStep, Unheard
<1> SUFFICES ASSUME here', ~disturbed', here, ~disturbed PROVE StageInv'
  BY <1>0 DEF StageInv
<1>1. ASSUME NEW k \in DOMAIN drops, Dropped(k) \/ DropFailed(k) PROVE StageInv'
  <2>1. Dropping
    <3>1. drops # <<>>
      OBVIOUS
    <3> QED
      BY <3>1 DEF StageInv, Resting, Loading, Checking, Queueing, Deleting, Saving, NoDeletion
  <2>2. PICK i \in DOMAIN db :
          /\ drops = <<[id |-> i, row |-> db[i]]>> /\ cache = Without(db, {i}) /\ k = 1
    BY <2>1, OneOnly DEF Dropping
  <2>3. drops[k].id = i /\ drops[k].row = db[i] /\ RemoveAt(drops, k) = <<>>
    BY <2>2, OneOnly
  <2>4. /\ drops' = <<>> /\ store' = None
        /\ UNCHANGED <<gets, checking, all, running, posts, bulk, saves>>
    BY <1>1, <2>1, <2>3 DEF Dropped, DropFailed, Dropping
  <2>5. cache' = db'
    <3>1. CASE Dropped(k)
      BY <2>2, <2>3, <3>1 DEF Dropped
    <3>2. CASE DropFailed(k)
      BY <2>2, <2>3, <3>2, RowsOfList DEF DropFailed, DbIsList, Unheard
    <3> QED
      BY <1>1, <3>1, <3>2
  <2>6. Resting'
    BY <2>1, <2>4, <2>5 DEF Dropping, Resting, StoreFits, NoGets, NoChecks, NoQueue, NoDeletion
  <2> QED
    BY <2>6 DEF StageInv
<1>2. ASSUME bulk # None PROVE Deleting
  BY <1>2 DEF StageInv, Resting, Loading, Checking, Queueing, Dropping, Saving, NoDeletion
<1>3. CASE BulkEnds
  <2>1. Deleting
    BY <1>2, <1>3 DEF BulkEnds
  <2>2. bulk' = None /\ UNCHANGED <<db, checking, all, running, posts, drops, saves>>
    BY <1>3 DEF BulkEnds
  <2>3. CASE bulk.what = "delete"
    <3>1. Resting'
      BY <1>3, <2>1, <2>2, <2>3
         DEF BulkEnds, Deleting, Resting, StoreFits, NoGets, NoChecks, NoQueue, NoDeletion
    <3> QED
      BY <3>1 DEF StageInv
  <2>4. CASE bulk.what # "delete"
    <3>1. gets' = <<None>>
      BY <1>3, <2>1, <2>4, OneOnly DEF BulkEnds, ClearAndLoad, Deleting, NoGets
    <3>2. Loading'
      BY <2>1, <2>2, <3>1 DEF Deleting, Loading, NoChecks, NoQueue, NoDeletion
    <3> QED
      BY <3>2 DEF StageInv
  <2> QED
    BY <2>3, <2>4
<1>4. ASSUME NEW i \in Ids, BulkStep(i) PROVE StageInv'
  <2>1. Deleting
    BY <1>2, <1>4 DEF BulkStep
  <2> DEFINE less == bulk.todo \ {i}  more == bulk.done \cup {i}
  <2>2. UNCHANGED <<cache, gets, checking, all, running, posts, drops, saves>>
    BY <1>4 DEF BulkStep
  <2>3. CASE /\ bulk' = [bulk EXCEPT !.todo = @ \ {i}, !.done = @ \cup {i}]
             /\ db' = IF bulk.what = "delete" THEN Without(db, {i}) ELSE db
    <3>1. bulk' \in Bulks /\ bulk'.what = bulk.what /\ bulk'.done = more
      <4>1. less \subseteq Ids /\ more \subseteq Ids
        BY <2>1 DEF Deleting, Bulks
      <4>2. bulk' = [what |-> bulk.what, todo |-> less, done |-> more]
        BY <2>1, <2>3 DEF Deleting, Bulks
      <4> HIDE DEF less, more
      <4> QED
        BY <2>1, <4>1, <4>2 DEF Deleting, Bulks
    <3>2. bulk.what = "delete" => db' = Without(cache', more)
      <4> DEFINE done == bulk.done
      <4>1. Without(Without(cache, done), {i}) = Without(cache, done \cup {i})
        <5> HIDE DEF done
        <5> QED
          BY WithoutMore
      <4>2. bulk.what = "delete" => db = Without(cache, bulk.done)
        BY <2>1 DEF Deleting
      <4> QED
        BY <2>2, <2>3, <4>1, <4>2
    <3> QED
      BY <2>1, <2>2, <3>1, <3>2 DEF Deleting, StageInv, NoGets, NoChecks, NoQueue
  <2>4. CASE bulk' = [bulk EXCEPT !.todo = @ \ {i}] /\ db' = db
    <3>1. bulk' \in Bulks /\ bulk'.what = bulk.what /\ bulk'.done = bulk.done
      BY <2>1, <2>4 DEF Deleting, Bulks
    <3> QED
      BY <2>1, <2>2, <2>4, <3>1 DEF Deleting, StageInv, NoGets, NoChecks, NoQueue
  <2> QED
    BY <1>4, <2>3, <2>4 DEF BulkStep, Unheard
<1> QED
  BY <1>1, <1>3, <1>4

(* Forms, notes and imports: a note is written into the row in memory as   *)
(* the server writes it, the others reload.                                *)
LEMMA SavesKeepStage ==
  ASSUME DbIsList, RowsInv, StageInv, NEW s \in saves,
         FormSaved(s) \/ QuickSaved(s) \/ NoteSaved(s) \/ Imported(s) \/ SaveFailed(s)
  PROVE  StageInv'
<1>0. here' = here /\ (disturbed' \/ disturbed' = disturbed)
  BY DEF FormSaved, QuickSaved, NoteSaved, Imported, SaveFailed, Unheard
<1> SUFFICES ASSUME here', ~disturbed', here, ~disturbed PROVE StageInv'
  BY <1>0 DEF StageInv
<1>1. Saving /\ saves = {s} /\ s.what \in {"add", "edit", "note", "import"}
  BY DEF StageInv, Resting, Loading, Checking, Queueing, Dropping, Deleting, Saving
<1>2. /\ saves' = {}
      /\ UNCHANGED <<checking, all, running, posts, drops, bulk>>
  BY <1>1 DEF FormSaved, QuickSaved, NoteSaved, Imported, SaveFailed
<1>3. ASSUME gets' = Append(gets, None) PROVE StageInv'
  <2>1. gets' = <<None>>
    BY <1>1, <1>3, OneOnly DEF Saving, NoGets
  <2>2. Loading'
    BY <1>1, <1>2, <2>1 DEF Saving, Loading, NoChecks, NoQueue, NoDeletion
  <2> QED
    BY <2>2 DEF StageInv
<1>4. ASSUME gets' = gets, cache' = db', StoreFits' PROVE StageInv'
  <2>1. Resting'
    BY <1>1, <1>2, <1>4 DEF Saving, Resting, NoGets, NoChecks, NoQueue, NoDeletion
  <2> QED
    BY <2>1 DEF StageInv
<1>5. CASE FormSaved(s)
  BY <1>3, <1>5 DEF FormSaved, ReloadActive, ClearAndLoad
<1>6. CASE QuickSaved(s)
  BY <1>1, <1>6 DEF QuickSaved
<1>7. CASE NoteSaved(s)
  <2>1. s.id \in DOMAIN db /\ cache = db
    BY <1>1, <1>7 DEF NoteSaved, Refused, Saving
  <2>2. db' = With(db, s.id, [db[s.id] EXCEPT !.text = s.text])
    BY <1>7, <2>1 DEF NoteSaved, Written
  <2>3. cache' = [db EXCEPT ![s.id].text = s.text]
    BY <1>7, <2>1 DEF NoteSaved
  <2>4. cache' = db'
    BY <2>1, <2>2, <2>3 DEF With, DbIsList
  <2>5. gets' = gets /\ store' = store
    BY <1>7 DEF NoteSaved
  <2>6. DOMAIN db' = DOMAIN db /\ \A i \in DOMAIN db : db'[i].checks = db[i].checks
    BY <2>1, <2>3, <2>4 DEF RowsInv
  <2>7. StoreFits'
    BY <1>1, <2>5, <2>6 DEF Saving, StoreFits
  <2> QED
    BY <1>4, <2>4, <2>5, <2>7
<1>8. CASE Imported(s)
  BY <1>0, <1>3, <1>8 DEF Imported
<1>9. CASE SaveFailed(s)
  <2>1. UNCHANGED <<db, cache, store, gets>>
    BY <1>9 DEF SaveFailed, Unheard
  <2> QED
    BY <1>1, <1>4, <2>1 DEF Saving, StoreFits
<1> QED
  BY <1>5, <1>6, <1>7, <1>8, <1>9

LEMMA StageStep == LoopInv /\ DbIsList /\ RowsInv /\ StageInv /\ [Next]_vars => StageInv'
<1> SUFFICES ASSUME LoopInv, DbIsList, RowsInv, StageInv, [Next]_vars PROVE StageInv'
  OBVIOUS
<1>1. CASE User
  BY <1>1, UserKeepsStage
<1>2. CASE Answers
  BY <1>2, ChecksKeepStage, LoadsKeepStage, DeletionsKeepStage, SavesKeepStage DEF Answers
<1>3. CASE Expire \/ UNCHANGED vars
  BY <1>3 DEF Expire, vars, StageInv, StoreFits, Resting, Loading, Checking, Queueing, Dropping,
              Deleting, Saving, NoGets, NoChecks, NoQueue, NoDeletion
<1> QED
  BY <1>1, <1>2, <1>3 DEF Next

OpsInv == LoopInv /\ DbIsList /\ RowsInv /\ StageInv

LEMMA OpsInit == Init => OpsInv
<1>1. Init => RowsInv
  BY DEF Init, RowsInv, Empty, New
<1> QED
  BY <1>1, LoopInit DEF OpsInv, Init, DbIsList, StageInv, Empty

LEMMA OpsStep == OpsInv /\ [Next]_vars => OpsInv'
BY LoopStep, DbStep, RowsStep, StageStep DEF OpsInv

\* When the user did one thing after the other and everything was answered, the
\* list on the screen is the server's: requests may have failed before they
\* changed the server, or been done in part.  After one that failed and had
\* changed it, as the routes that commit before they can raise allow, that is
\* so again from the next load by the user.
THEOREM ListEndsCurrent == Spec => []ListIsCurrent
<1>1. OpsInv => ListIsCurrent
  BY SilentRests DEF OpsInv, ListIsCurrent, Resting
<1> QED
  BY <1>1, OpsInit, OpsStep, PTL DEF Spec

\* Then an entry of sessionStorage has the domains of the server, with what the
\* last check of each found (clearDomainsCache); only notes may be old in it.
THEOREM StoreEndsCurrent == Spec => []StoreIsCurrent
<1>1. OpsInv => StoreIsCurrent
  BY SilentRests DEF OpsInv, StoreIsCurrent, StoreFits, Resting
<1> QED
  BY <1>1, OpsInit, OpsStep, PTL DEF Spec
===============================================================================
