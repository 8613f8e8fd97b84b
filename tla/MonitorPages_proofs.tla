-------------------------- MODULE MonitorPages_proofs --------------------------
(***************************************************************************)
(* Proofs about the pages of web apps, DNS records and ports, for any rows, *)
(* any size of a page and any number of requests, in whatever order they    *)
(* are answered.                                                            *)
(***************************************************************************)
EXTENDS MonitorPages, SequenceTheorems, FiniteSetTheorems, TLAPS

-------------------------------------------------------------------------------
(* Ranks and pages *)

(* In a finite set whose elements stand above different parts of it, nested *)
(* in each other, every rank from 1 is taken.                              *)
LEMMA RanksAreTaken ==
  ASSUME NEW S, IsFiniteSet(S), NEW below \in [S -> SUBSET S],
         \A i \in S : i \in below[i],
         \A i, j \in S : i # j => \/ below[i] \subseteq below[j] /\ j \notin below[i]
                                  \/ below[j] \subseteq below[i] /\ i \notin below[j],
         NEW r \in 1..Cardinality(S)
  PROVE  \E i \in S : Cardinality(below[i]) = r
<1> DEFINE n == Cardinality(S)
           rank == [i \in S |-> Cardinality(below[i])]
<1>1. \A i \in S : IsFiniteSet(below[i]) /\ Cardinality(below[i]) \in 1..n
  <2>1. n \in Nat
    BY FS_CardinalityType
  <2> TAKE i \in S
  <2>2. IsFiniteSet(below[i]) /\ Cardinality(below[i]) <= n
    BY FS_Subset
  <2>3. Cardinality(below[i]) \in Nat /\ Cardinality(below[i]) # 0
    BY <2>2, FS_CardinalityType, FS_EmptySet
  <2> QED
    BY <2>1, <2>2, <2>3
<1>2. \A i, j \in S : i # j => Cardinality(below[i]) # Cardinality(below[j])
  <2> SUFFICES ASSUME NEW i \in S, NEW j \in S, i # j, below[i] \subseteq below[j], j \notin below[i]
               PROVE  Cardinality(below[i]) # Cardinality(below[j])
    OBVIOUS
  <2>1. below[i] # below[j]
    OBVIOUS
  <2> QED
    BY <1>1, <2>1, FS_Subset
<1>3. rank \in Injection(S, 1..n)
  BY <1>1, <1>2 DEF Injection, IsInjective
<1>4. IsFiniteSet(1..n) /\ Cardinality(1..n) = n
  BY FS_CardinalityType, FS_Interval
<1>5. rank \in Surjection(S, 1..n)
  BY <1>3, <1>4, FS_Injection
<1> QED
  BY <1>5 DEF Surjection

(* The pages of n rows: the last one has a row, and none comes after it.   *)
LEMMA PagesOf ==
  ASSUME NEW n \in Nat \ {0}, NEW d \in Nat \ {0}
  PROVE  LET q == (n + d - 1) \div d
         IN  q \in Nat \ {0} /\ (q - 1) * d < n /\ n <= q * d
<1> DEFINE q == (n + d - 1) \div d
<1>1. q \in Int /\ q * d <= n + d - 1 /\ n + d - 1 < (q + 1) * d
  OBVIOUS
<1>2. (q + 1) * d = q * d + d /\ (q - 1) * d = q * d - d
  BY <1>1
<1>3. (q - 1) * d < n /\ n <= q * d
  BY <1>1, <1>2
<1>4. q > 0
  <2> HIDE DEF q
  <2> SUFFICES ASSUME q <= 0 PROVE FALSE
    BY <1>1
  <2>1. q * d <= 0
    BY <1>1
  <2> QED
    BY <1>1, <1>3, <2>1
<1> QED
  BY <1>1, <1>3, <1>4

LEMMA TimesGrows ==
  ASSUME NEW a \in Int, NEW b \in Int, NEW d \in Nat, a <= b
  PROVE  a * d <= b * d
<1>1. b * d = a * d + (b - a) * d
  OBVIOUS
<1>2. (b - a) * d >= 0
  OBVIOUS
<1> QED
  BY <1>1, <1>2

-------------------------------------------------------------------------------
(* Rows *)

(* Lists of rows, as the server has them and as an answer brings them.     *)
Lists == UNION {[S -> Row] : S \in SUBSET Ids}

LEMMA ListRows ==
  ASSUME NEW f \in Lists
  PROVE  /\ DOMAIN f \in SUBSET Ids /\ f \in [DOMAIN f -> Row]
         /\ \A i \in DOMAIN f : f[i] \in Row
BY DEF Lists

LEMMA RowsList ==
  ASSUME NEW S \in SUBSET Ids, NEW f \in [S -> Row]
  PROVE  f \in Lists
BY DEF Lists

LEMMA IdsFinite ==
  ASSUME NEW S \in SUBSET Ids
  PROVE  IsFiniteSet(S) /\ Cardinality(S) \in Nat /\ S \subseteq Nat
<1>1. IsFiniteSet(S) /\ S \subseteq Nat
  BY PagesAssumption, FS_Subset
<1> QED
  BY <1>1, FS_CardinalityType

LEMMA PagesType ==
  ASSUME NEW S \in SUBSET Ids
  PROVE  Pages(S) \in Nat \ {0}
<1>1. CASE S = {}
  BY <1>1 DEF Pages
<1>2. CASE S # {}
  <2>1. Cardinality(S) \in Nat \ {0} /\ PageSize \in Nat \ {0}
    BY <1>2, IdsFinite, FS_EmptySet, PagesAssumption
  <2> QED
    BY <1>2, <2>1, PagesOf DEF Pages
<1> QED
  BY <1>1, <1>2

(* What the filter, the search and the direction on the screen select, as   *)
(* Passing and PageOf say it of the next state.                            *)
PassingNow(list) ==
    {i \in DOMAIN list : filter \in {"all", list[i].status} /\ (text => i \in Matching)}

PageNow(S, p) ==
    {i \in S : LET rank == Cardinality({j \in S : dir * j <= dir * i})
               IN  (p - 1) * PageSize < rank /\ rank <= p * PageSize}

(* A page that is one of the pages of some rows has one of them, in either  *)
(* direction of the sort.                                                   *)
LEMMA PageHasRow ==
  ASSUME NEW S \in SUBSET Ids, S # {}, NEW p \in Nat \ {0}, p <= Pages(S), dir \in {1, -1}
  PROVE  PageNow(S, p) # {}
<1> DEFINE below == [i \in S |-> {j \in S : dir * j <= dir * i}]
           n == Cardinality(S)
           r == (p - 1) * PageSize + 1
<1>1. S \subseteq Nat /\ IsFiniteSet(S) /\ n \in Nat \ {0} /\ PageSize \in Nat \ {0}
  BY IdsFinite, FS_EmptySet, PagesAssumption
<1>2. /\ below \in [S -> SUBSET S] /\ \A i \in S : i \in below[i]
      /\ \A i, j \in S : i # j => \/ below[i] \subseteq below[j] /\ j \notin below[i]
                                  \/ below[j] \subseteq below[i] /\ i \notin below[j]
  <2>1. below \in [S -> SUBSET S]
    OBVIOUS
  <2>2. \A i \in S : dir * i \in Int
    BY <1>1
  <2>3. \A i \in S : i \in below[i]
    BY <2>2
  <2>4. ASSUME NEW i \in S, NEW j \in S, dir * i < dir * j
        PROVE  below[i] \subseteq below[j] /\ j \notin below[i]
    <3>1. below[i] = {k \in S : dir * k <= dir * i} /\ below[j] = {k \in S : dir * k <= dir * j}
      OBVIOUS
    <3>2. \A k \in S : dir * k <= dir * i => dir * k <= dir * j
      BY <2>2, <2>4
    <3>3. ~(dir * j <= dir * i)
      BY <2>2, <2>4
    <3> HIDE DEF below
    <3> QED
      BY <3>1, <3>2, <3>3
  <2>5. \A i, j \in S : i # j => dir * i < dir * j \/ dir * j < dir * i
    BY <1>1
  <2> HIDE DEF below
  <2> QED
    BY <2>1, <2>3, <2>4, <2>5
<1>3. Pages(S) \in Nat \ {0} /\ (Pages(S) - 1) * PageSize < n
  BY <1>1, PagesOf DEF Pages
<1>4. (p - 1) * PageSize <= (Pages(S) - 1) * PageSize
  <2>1. p - 1 \in Int /\ Pages(S) - 1 \in Int /\ p - 1 <= Pages(S) - 1
    BY <1>3
  <2> QED
    BY <1>1, <2>1, TimesGrows
<1>5. (p - 1) * PageSize \in Nat /\ p * PageSize = (p - 1) * PageSize + PageSize
      /\ (Pages(S) - 1) * PageSize \in Int
  BY <1>1, <1>3
<1>6. r \in 1..n
  BY <1>1, <1>3, <1>4, <1>5
<1>7. PICK i \in S : Cardinality(below[i]) = r
  <2>1. IsFiniteSet(S) /\ r \in 1..Cardinality(S)
    BY <1>1, <1>6
  <2> HIDE DEF below, r
  <2> QED
    BY <1>2, <2>1, RanksAreTaken, SMTT(60)
<1>8. (p - 1) * PageSize < r /\ r <= p * PageSize
  BY <1>1, <1>5
<1>9. Cardinality({j \in S : dir * j <= dir * i}) = r
  BY <1>7
<1> QED
  BY <1>8, <1>9 DEF PageNow

-------------------------------------------------------------------------------
(* Types *)

NetTyped ==
    /\ {db, cache} \subseteq Lists /\ gets \in Seq(Lists \cup {None})
    /\ reqs \subseteq [what : Whats, ids : SUBSET Ids] /\ errors \in Nat /\ disturbed \in BOOLEAN

LookTyped ==
    /\ filter \in Filters /\ saved \in Filters \cup {None} /\ {text, typing} \subseteq BOOLEAN
    /\ dir \in {1, -1} /\ mode \in Layouts

ScreenTyped ==
    /\ page \in Nat \ {0} /\ {drawn, ticked} \subseteq [Layouts -> SUBSET Ids]
    /\ selected \subseteq Ids /\ count \in Nat

Typed == kind \in Kinds /\ ops \in Nat /\ NetTyped /\ LookTyped /\ ScreenTyped

LEMMA TypedIsTypeOK == Typed => TypeOK
<1> SUFFICES ASSUME Typed PROVE TypeOK
  OBVIOUS
<1>1. IsList(db) /\ IsList(cache)
  BY ListRows DEF IsList, Typed, NetTyped
<1>2. \A k \in DOMAIN gets : gets[k] \in Lists \cup {None}
  BY DEF Typed, NetTyped
<1>3. \A k \in DOMAIN gets : gets[k] = None \/ IsList(gets[k])
  BY <1>2, ListRows DEF IsList
<1> QED
  BY <1>1, <1>3 DEF TypeOK, Typed, NetTyped, LookTyped, ScreenTyped

LEMMA InitTyped == Init => Typed
<1> SUFFICES ASSUME Init PROVE Typed
  OBVIOUS
<1>1. db \in Lists
  <2>1. PICK s \in {"up", "down"} : db = [i \in Ids |-> [status |-> s, edits |-> 0]]
    BY DEF Init
  <2>2. db \in [Ids -> Row]
    BY <2>1 DEF Row
  <2> QED
    BY <2>2, RowsList
<1>2. cache \in Lists
  <2>1. cache \in [{} -> Row]
    BY DEF Init
  <2> QED
    BY <2>1, RowsList
<1>3. gets \in Seq(Lists \cup {None})
  BY EmptySeq DEF Init
<1>4. NetTyped
  BY <1>1, <1>2, <1>3 DEF NetTyped, Init
<1>5. LookTyped
  BY DEF LookTyped, Init, Filters, Layouts
<1>6. ScreenTyped
  BY DEF ScreenTyped, Init
<1> QED
  BY <1>4, <1>5, <1>6 DEF Typed, Init

(* A GET is one more.                                                      *)
LEMMA AskTyped ==
  ASSUME gets \in Seq(Lists \cup {None}), Ask
  PROVE  /\ gets' \in Seq(Lists \cup {None}) /\ gets' # <<>> /\ Len(gets') = Len(gets) + 1
         /\ gets = <<>> => Len(gets') = 1 /\ DOMAIN gets' = {1} /\ gets'[1] = None
<1>1. gets' = Append(gets, None)
  BY DEF Ask
<1> QED
  BY <1>1

LEMMA RemoveAtSeq ==
  ASSUME NEW S, NEW s \in Seq(S), NEW k \in DOMAIN s
  PROVE  RemoveAt(s, k) \in Seq(S)
<1>1. k \in 1..Len(s)
  OBVIOUS
<1>2. SubSeq(s, 1, k - 1) \in Seq(S)
  BY <1>1
<1>3. SubSeq(s, k + 1, Len(s)) \in Seq(S)
  BY <1>1
<1> QED
  BY <1>2, <1>3 DEF RemoveAt

(* Drawing the web apps: a page there is, and the boxes of what is on it.  *)
LEMMA WebAppsDrawn ==
  ASSUME ScreenTyped, LookTyped', NEW list \in Lists, NEW p \in Nat \ {0}, selected' \subseteq Ids,
         DrawWebApps(list, p)
  PROVE  /\ ScreenTyped' /\ page' <= Pages(Passing(list))
         /\ drawn'[mode'] = PageOf(Passing(list), page')
         /\ ticked'[mode'] = drawn'[mode'] \cap selected'
<1> DEFINE S == PageOf(Passing(list), page')
<1>1. Passing(list) \in SUBSET Ids
  BY ListRows DEF Passing
<1>2. Pages(Passing(list)) \in Nat \ {0}
  BY <1>1, PagesType
<1>3. page' \in Nat \ {0} /\ page' <= Pages(Passing(list))
  <2>1. page' = IF p > Pages(Passing(list)) THEN Pages(Passing(list)) ELSE p
    BY DEF DrawWebApps
  <2>2. \A q \in Nat \ {0} : LET m == IF p > q THEN q ELSE p IN m \in Nat \ {0} /\ m <= q
    OBVIOUS
  <2> QED
    BY <1>2, <2>1, <2>2, Zenon
<1>4. S \in SUBSET Ids
  BY <1>1 DEF PageOf
<1>5. /\ drawn' = [drawn EXCEPT ![mode'] = S] /\ ticked' = [ticked EXCEPT ![mode'] = S \cap selected']
      /\ count' = Cardinality(selected')
  BY DEF DrawWebApps, Draw, UpdateToolbar
<1> HIDE DEF S
<1>6. mode' \in Layouts /\ {drawn, ticked} \subseteq [Layouts -> SUBSET Ids]
  BY DEF LookTyped, ScreenTyped
<1>7. {drawn', ticked'} \subseteq [Layouts -> SUBSET Ids] /\ drawn'[mode'] = S
      /\ ticked'[mode'] = S \cap selected'
  BY <1>4, <1>5, <1>6
<1>8. count' \in Nat
  BY <1>5, IdsFinite
<1>9. ScreenTyped'
  BY <1>3, <1>7, <1>8 DEF ScreenTyped
<1> QED
  BY <1>3, <1>7, <1>9 DEF S

(* The same in terms of the state it leads to.                             *)
LEMMA PrimedPage ==
  /\ Passing(cache') = PassingNow(cache)'
  /\ PageOf(Passing(cache'), page') = PageNow(PassingNow(cache), page)'
  /\ Pages(Passing(cache')) = Pages(PassingNow(cache))'
BY DEF Passing, PassingNow, PageOf, PageNow, Pages

LEMMA RedrawTyped ==
  ASSUME Typed, LookTyped', selected' = selected, Redraw
  PROVE  ScreenTyped' /\ gets' \in Seq(Lists \cup {None}) /\ disturbed' \in BOOLEAN
<1>a. /\ ScreenTyped /\ selected \subseteq Ids /\ cache \in Lists /\ page \in Nat \ {0}
      /\ gets \in Seq(Lists \cup {None}) /\ disturbed \in BOOLEAN
  BY DEF Typed, NetTyped, ScreenTyped
<1>1. CASE kind = "webapp"
  <2>1. DrawWebApps(cache, page) /\ UNCHANGED <<gets, disturbed>>
    BY <1>1 DEF Redraw
  <2>2. ScreenTyped'
    BY <1>a, <2>1, WebAppsDrawn
  <2> QED
    BY <1>a, <2>1, <2>2
<1>2. CASE kind # "webapp"
  <2>1. Ask /\ disturbed' = ~Quiet /\ UNCHANGED screen /\ selected' = selected
    BY <1>2 DEF Redraw
  <2>2. disturbed' \in BOOLEAN
    BY <2>1
  <2>3. ScreenTyped'
    BY <1>a, <2>1 DEF ScreenTyped, screen
  <2> QED
    BY <1>a, <2>1, <2>2, <2>3, AskTyped
<1> QED
  BY <1>1, <1>2

LEMMA EffectTyped ==
  ASSUME db \in Lists, NEW what \in Whats, NEW S \in SUBSET Ids, Effect(what, S)
  PROVE  db' \in Lists
<1>1. DOMAIN db \in SUBSET Ids /\ \A i \in DOMAIN db : db[i] \in Row
  BY ListRows
<1>2. CASE what \in {"check", "checkAll", "bulkCheck"}
  <2>1. PICK f \in [S -> {"up", "down"}] :
          db' = [i \in DOMAIN db |-> IF i \in S THEN [db[i] EXCEPT !.status = f[i]] ELSE db[i]]
    BY <1>2 DEF Effect
  <2>2. ASSUME NEW i \in DOMAIN db, i \in S PROVE [db[i] EXCEPT !.status = f[i]] \in Row
    <3>1. db[i] \in Row /\ f[i] \in {"up", "down"}
      BY <1>1, <2>2
    <3> QED
      BY <3>1 DEF Row
  <2>3. db' \in [DOMAIN db -> Row]
    BY <1>1, <2>1, <2>2
  <2> QED
    BY <1>1, <2>3, RowsList
<1>3. CASE what \in {"delete", "bulkDelete"}
  <2>1. db' = [i \in DOMAIN db \ S |-> db[i]]
    BY <1>3 DEF Effect
  <2>2. DOMAIN db \ S \in SUBSET Ids /\ db' \in [DOMAIN db \ S -> Row]
    BY <1>1, <2>1
  <2> QED
    BY <2>2, RowsList
<1>4. CASE what \in {"edit", "bulkEdit"}
  <2>1. db' = [i \in DOMAIN db |-> IF i \in S THEN [db[i] EXCEPT !.edits = @ + 1] ELSE db[i]]
    BY <1>4 DEF Effect
  <2>2. ASSUME NEW i \in DOMAIN db PROVE [db[i] EXCEPT !.edits = @ + 1] \in Row
    <3>1. db[i] \in Row
      BY <1>1
    <3> QED
      BY <3>1 DEF Row
  <2>3. db' \in [DOMAIN db -> Row]
    BY <1>1, <2>1, <2>2
  <2> QED
    BY <1>1, <2>3, RowsList
<1>5. CASE what = "add"
  <2> DEFINE D == DOMAIN db \cup S
  <2>1. db' = [i \in D |-> IF i \in DOMAIN db THEN db[i] ELSE [status |-> "up", edits |-> 0]]
    BY <1>5 DEF Effect
  <2>2. D \in SUBSET Ids
    BY <1>1
  <2>3. [status |-> "up", edits |-> 0] \in Row
    BY DEF Row
  <2> HIDE DEF D
  <2>4. db' \in [D -> Row]
    BY <1>1, <2>1, <2>3
  <2> QED
    BY <2>2, <2>4, RowsList
<1> QED
  BY <1>2, <1>3, <1>4, <1>5 DEF Whats

LEMMA LoadsTyped ==
  ASSUME Typed, NEW k \in DOMAIN gets, Served(k) \/ Loaded(k) \/ LoadFailed(k)
  PROVE  Typed'
<1>a. /\ {db, cache} \subseteq Lists /\ gets \in Seq(Lists \cup {None}) /\ page \in Nat \ {0}
      /\ gets[k] \in Lists \cup {None} /\ selected \subseteq Ids /\ errors \in Nat
  BY DEF Typed, NetTyped, ScreenTyped
<1>b. RemoveAt(gets, k) \in Seq(Lists \cup {None})
  BY <1>a, RemoveAtSeq
<1>1. CASE Served(k)
  <2>1. gets' \in Seq(Lists \cup {None})
    BY <1>1, <1>a DEF Served
  <2> QED
    BY <1>1, <2>1 DEF Served, Typed, NetTyped, LookTyped, ScreenTyped, screen, look
<1>2. CASE Loaded(k)
  <2>1. /\ gets[k] \in Lists /\ cache' = gets[k] /\ gets' \in Seq(Lists \cup {None})
        /\ UNCHANGED <<kind, db, look, selected, reqs, ops, errors, disturbed>> /\ DrawLoaded(gets[k])
    BY <1>2, <1>a, <1>b DEF Loaded
  <2>2. NetTyped' /\ LookTyped' /\ selected' \subseteq Ids /\ ScreenTyped
    BY <2>1 DEF Typed, NetTyped, LookTyped, ScreenTyped, look
  <2>3. ScreenTyped'
    <3>1. CASE kind = "webapp"
      <4>1. DrawWebApps(gets[k], page)
        BY <2>1, <3>1 DEF DrawLoaded
      <4> QED
        BY <1>a, <2>1, <2>2, <4>1, WebAppsDrawn
    <3>2. CASE kind = "dns"
      <4>1. DrawDns(gets[k])
        BY <2>1, <3>2 DEF DrawLoaded
      <4>2. Passing(gets[k]) \in SUBSET Ids /\ drawn["cards"] \in SUBSET Ids
        BY <2>1, <2>2, ListRows DEF Passing, ScreenTyped, Layouts
      <4>3. drawn' \in [Layouts -> SUBSET Ids] /\ UNCHANGED <<page, ticked, count>>
        BY <4>1, <4>2 DEF DrawDns, Layouts
      <4> QED
        BY <2>1, <2>2, <4>3 DEF ScreenTyped
    <3>3. CASE kind = "port"
      BY <2>1, <2>2, <3>3 DEF DrawLoaded, DrawPorts, ScreenTyped, screen
    <3> QED
      BY <3>1, <3>2, <3>3, PagesAssumption DEF Typed
  <2> QED
    BY <2>1, <2>2, <2>3 DEF Typed
<1>3. CASE LoadFailed(k)
  <2>1. gets' \in Seq(Lists \cup {None}) /\ errors' \in Nat
    BY <1>3, <1>a, <1>b DEF LoadFailed, Fails
  <2> QED
    BY <1>3, <2>1 DEF LoadFailed, Typed, NetTyped, LookTyped, ScreenTyped, screen, look
<1> QED
  BY <1>1, <1>2, <1>3

LEMMA LooksTyped ==
  ASSUME Typed,
         \/ Open \/ SetFilter \/ SetFilterOnly \/ Type \/ SearchFires \/ ToggleLayout \/ Sort \/ GoToPage
  PROVE  Typed'
<1>a. /\ {db, cache} \subseteq Lists /\ gets \in Seq(Lists \cup {None}) /\ page \in Nat \ {0}
      /\ selected \subseteq Ids /\ ScreenTyped /\ LookTyped /\ NetTyped /\ ops \in Nat
  BY DEF Typed, NetTyped, ScreenTyped
<1>b. UserActs => ops' \in Nat
  BY <1>a DEF UserActs
<1>c. ASSUME NEW p \in Nat \ {0}, DrawWebApps(cache, p), LookTyped', selected' = selected,
             UNCHANGED <<kind, db, cache, gets, reqs, errors, disturbed>>, ops' \in Nat
      PROVE  Typed'
  <2>1. ScreenTyped'
    BY <1>a, <1>c, WebAppsDrawn
  <2> QED
    BY <1>c, <2>1 DEF Typed, NetTyped
<1>d. ASSUME Redraw, LookTyped', UNCHANGED <<kind, db, cache, selected, reqs, errors>>, ops' \in Nat
      PROVE  Typed'
  <2>1. ScreenTyped' /\ gets' \in Seq(Lists \cup {None}) /\ disturbed' \in BOOLEAN
    BY <1>d, RedrawTyped
  <2> QED
    BY <1>d, <2>1 DEF Typed, NetTyped
<1>1. CASE Open
  <2>1. /\ Ask /\ disturbed' = ~Quiet /\ ops' \in Nat
        /\ UNCHANGED <<kind, db, cache, saved, text, typing, dir, mode, selected, reqs, errors>>
        /\ UNCHANGED screen
    BY <1>1, <1>b DEF Open
  <2>2. filter' \in Filters
    BY <1>1, <1>a DEF Open, LookTyped
  <2>3. gets' \in Seq(Lists \cup {None})
    BY <1>a, <2>1, AskTyped
  <2>4. disturbed' \in BOOLEAN
    BY <2>1
  <2> QED
    BY <2>1, <2>2, <2>3, <2>4 DEF Typed, NetTyped, LookTyped, ScreenTyped, screen
<1>2. CASE SetFilter
  <2>1. /\ UNCHANGED <<kind, db, cache, selected, reqs, errors>> /\ ops' \in Nat
        /\ LookTyped'
        /\ \/ DrawWebApps(cache, 1) /\ UNCHANGED <<gets, disturbed>>
           \/ Redraw
    BY <1>2, <1>a, <1>b DEF SetFilter, LookTyped
  <2> QED
    BY <2>1, <1>c, <1>d
<1>3. CASE SetFilterOnly
  <2>1. UNCHANGED <<kind, db, cache, selected, reqs, errors>> /\ ops' \in Nat /\ Redraw
    BY <1>3, <1>b DEF SetFilterOnly
  <2>2. LookTyped'
    BY <1>3, <1>a DEF SetFilterOnly, LookTyped, Filters
  <2> QED
    BY <2>1, <2>2, <1>d
<1>4. CASE Type
  <2>1. UNCHANGED <<kind, db, cache, filter, saved, dir, mode, selected, reqs, errors>> /\ ops' \in Nat
        /\ text' \in BOOLEAN
    BY <1>4, <1>b DEF Type
  <2>2. CASE kind = "webapp"
    <3>1. typing' = TRUE /\ page' = 1 /\ UNCHANGED <<drawn, ticked, count, gets, disturbed>>
      BY <1>4, <2>2 DEF Type
    <3>2. LookTyped'
      BY <1>a, <2>1, <3>1 DEF LookTyped
    <3> QED
      BY <2>1, <3>1, <3>2 DEF Typed, NetTyped, ScreenTyped
  <2>3. CASE kind # "webapp"
    <3>1. UNCHANGED typing /\ Redraw
      BY <1>4, <2>3 DEF Type
    <3>2. LookTyped'
      BY <1>a, <2>1, <3>1 DEF LookTyped
    <3> QED
      BY <2>1, <3>1, <3>2, <1>d
  <2> QED
    BY <2>2, <2>3
<1>5. CASE SearchFires
  <2>1. /\ DrawWebApps(cache, page) /\ UNCHANGED <<kind, db, cache, selected, gets, reqs, errors, ops, disturbed>>
    BY <1>5 DEF SearchFires, network
  <2>2. LookTyped'
    BY <1>5, <1>a DEF SearchFires, LookTyped
  <2> QED
    BY <1>a, <2>1, <2>2, <1>c
<1>6. CASE ToggleLayout
  <2>1. Redraw /\ UNCHANGED <<kind, db, cache, selected, reqs, errors>> /\ ops' \in Nat
    BY <1>6, <1>b DEF ToggleLayout
  <2>2. LookTyped'
    BY <1>6, <1>a DEF ToggleLayout, LookTyped
  <2> QED
    BY <2>1, <2>2, <1>d
<1>7. CASE Sort
  <2>1. /\ DrawWebApps(cache, 1) /\ UNCHANGED <<kind, db, cache, selected, gets, reqs, errors, disturbed>>
        /\ ops' \in Nat
    BY <1>7, <1>b DEF Sort, network
  <2>2. LookTyped'
    BY <1>7, <1>a DEF Sort, LookTyped
  <2> QED
    BY <2>1, <2>2, <1>c
<1>8. CASE GoToPage
  <2>1. /\ UNCHANGED <<kind, db, cache, selected, gets, reqs, errors, disturbed>> /\ ops' \in Nat
    BY <1>8, <1>b DEF GoToPage, network
  <2>2. PICK p \in {1, IF page > 1 THEN page - 1 ELSE 1, page + 1, 9999} : DrawWebApps(cache, p)
    BY <1>8 DEF GoToPage
  <2>3. p \in Nat \ {0}
    BY <1>a
  <2>4. LookTyped'
    BY <1>8, <1>a DEF GoToPage, LookTyped, look
  <2> QED
    BY <2>1, <2>2, <2>3, <2>4, <1>c
<1> QED
  BY <1>1, <1>2, <1>3, <1>4, <1>5, <1>6, <1>7, <1>8

LEMMA RequestsTyped ==
  ASSUME Typed,
         \/ \E i \in Ids : Tick(i)
         \/ SelectAll \/ DeselectAll \/ Start
         \/ \E r \in reqs : Done(r) \/ Failed(r)
  PROVE  Typed'
<1>a. /\ {db, cache} \subseteq Lists /\ gets \in Seq(Lists \cup {None}) /\ page \in Nat \ {0}
      /\ {drawn, ticked} \subseteq [Layouts -> SUBSET Ids] /\ selected \subseteq Ids
      /\ ScreenTyped /\ LookTyped /\ NetTyped /\ ops \in Nat /\ errors \in Nat /\ mode \in Layouts
      /\ reqs \subseteq [what : Whats, ids : SUBSET Ids] /\ disturbed \in BOOLEAN
  BY DEF Typed, NetTyped, ScreenTyped, LookTyped
<1>b. UserActs => ops' \in Nat
  BY <1>a DEF UserActs
<1>c. ASSUME selected' \subseteq Ids, UpdateToolbar, ticked' \in [Layouts -> SUBSET Ids], ops' \in Nat,
             UNCHANGED <<kind, cache, look, page, drawn, disturbed>>, UNCHANGED network
      PROVE  Typed'
  <2>1. count' \in Nat
    BY <1>c, IdsFinite DEF UpdateToolbar
  <2> QED
    BY <1>c, <2>1 DEF Typed, NetTyped, LookTyped, ScreenTyped, look, network
<1>1. ASSUME NEW i \in Ids, Tick(i) PROVE Typed'
  <2>1. selected' \subseteq Ids /\ ticked' \in [Layouts -> SUBSET Ids]
    BY <1>1, <1>a DEF Tick
  <2>2. /\ UpdateToolbar /\ UNCHANGED <<kind, cache, look, page, drawn, disturbed>> /\ UNCHANGED network
        /\ ops' \in Nat
    BY <1>1, <1>b DEF Tick
  <2> QED
    BY <2>1, <2>2, <1>c
<1>2. CASE SelectAll
  <2>1. selected' \subseteq Ids /\ ticked' \in [Layouts -> SUBSET Ids]
    BY <1>2, <1>a DEF SelectAll, Layouts
  <2>2. /\ UpdateToolbar /\ UNCHANGED <<kind, cache, look, page, drawn, disturbed>> /\ UNCHANGED network
        /\ ops' \in Nat
    BY <1>2, <1>b DEF SelectAll
  <2> QED
    BY <2>1, <2>2, <1>c
<1>3. CASE DeselectAll
  <2>1. /\ selected' = {} /\ UNCHANGED <<kind, cache, look, disturbed>> /\ UNCHANGED network
        /\ DrawWebApps(cache, page) /\ ops' \in Nat
    BY <1>3, <1>b DEF DeselectAll
  <2>2. LookTyped' /\ NetTyped'
    BY <1>a, <2>1 DEF LookTyped, NetTyped, look, network
  <2>3. ScreenTyped'
    BY <1>a, <2>1, <2>2, WebAppsDrawn
  <2> QED
    BY <2>1, <2>2, <2>3 DEF Typed
<1>4. CASE Start
  <2>1. /\ UNCHANGED <<kind, db, cache, look, selected, gets, errors>> /\ UNCHANGED screen
        /\ ops' \in Nat /\ disturbed' = (disturbed \/ ~Quiet)
    BY <1>4, <1>b DEF Start
  <2>2. PICK what \in Whats, S \in SUBSET Ids : reqs' = reqs \cup {[what |-> what, ids |-> S]}
    BY <1>4 DEF Start
  <2>3. reqs' \subseteq [what : Whats, ids : SUBSET Ids]
    BY <1>a, <2>2
  <2>4. disturbed' \in BOOLEAN
    BY <1>a, <2>1
  <2> QED
    BY <2>1, <2>3, <2>4 DEF Typed, NetTyped, LookTyped, ScreenTyped, look, screen
<1>5. ASSUME NEW r \in reqs, Done(r) PROVE Typed'
  <2>1. /\ Effect(r.what, r.ids) /\ Ask /\ reqs' \subseteq reqs
        /\ UNCHANGED <<kind, cache, look, ops, errors, disturbed>> /\ UNCHANGED screen
    BY <1>5 DEF Done
  <2>2. selected' \subseteq Ids
    BY <1>5, <1>a DEF Done
  <2>3. db' \in Lists
    <3>1. r.what \in Whats /\ r.ids \in SUBSET Ids
      BY <1>a
    <3> QED
      BY <1>a, <2>1, <3>1, EffectTyped
  <2>4. gets' \in Seq(Lists \cup {None})
    BY <1>a, <2>1, AskTyped
  <2> QED
    BY <2>1, <2>2, <2>3, <2>4 DEF Typed, NetTyped, LookTyped, ScreenTyped, look, screen
<1>6. ASSUME NEW r \in reqs, Failed(r) PROVE Typed'
  <2>1. /\ UNCHANGED <<kind, cache, look, selected, ops>> /\ UNCHANGED screen /\ reqs' \subseteq reqs
        /\ (Fails \/ UNCHANGED errors) /\ (Ask \/ UNCHANGED gets)
    BY <1>6 DEF Failed
  <2>2. PICK S \in SUBSET r.ids : Effect(r.what, S)
    BY <1>6 DEF Failed
  <2>3. db' \in Lists
    <3>1. r.what \in Whats /\ S \in SUBSET Ids
      BY <1>a
    <3> QED
      BY <1>a, <2>2, <3>1, EffectTyped
  <2>4. gets' \in Seq(Lists \cup {None}) /\ errors' \in Nat
    BY <1>a, <2>1, AskTyped DEF Fails
  <2>5. disturbed' \in BOOLEAN
    BY <1>6, <1>a DEF Failed
  <2> QED
    BY <2>1, <2>3, <2>4, <2>5 DEF Typed, NetTyped, LookTyped, ScreenTyped, look, screen
<1> QED
  BY <1>1, <1>2, <1>3, <1>4, <1>5, <1>6

LEMMA TypedStep == Typed /\ [Next]_vars => Typed'
<1> SUFFICES ASSUME Typed, [Next]_vars PROVE Typed'
  OBVIOUS
<1>1. CASE UNCHANGED vars
  BY <1>1 DEF vars, Typed, NetTyped, LookTyped, ScreenTyped
<1>2. CASE Next
  BY <1>2, LoadsTyped, LooksTyped, RequestsTyped DEF Next
<1> QED
  BY <1>1, <1>2

-------------------------------------------------------------------------------
(* What holds while requests do not overlap *)

(* Without a disturbance one request is on its way at a time, and what a    *)
(* GET has read is what the server has.                                     *)
Serial ==
  ~disturbed => /\ Len(gets) <= 1 /\ (gets # <<>> => reqs = {})
                /\ \A r, s \in reqs : r = s
                /\ \A k \in DOMAIN gets : gets[k] \in {None, db}

(* Between loads the list in memory is the server's, or still empty.       *)
Kept == ~disturbed /\ gets = <<>> => DOMAIN cache = {} \/ cache = db

(* The timer of the search box is the web apps', and the page of ports has  *)
(* no rows.                                                                 *)
KindsApart == (typing => kind = "webapp") /\ (kind = "port" => \A l \in Layouts : drawn[l] = {})

(* Between loads the screen shows what passes in memory, of the web apps    *)
(* the page it says.                                                        *)
Synced ==
  ~disturbed /\ gets = <<>> /\ ~typing =>
    /\ kind = "webapp" => /\ drawn[mode] = PageNow(PassingNow(cache), page)
                          /\ page <= Pages(PassingNow(cache))
    /\ kind = "dns" => /\ drawn[mode] = PassingNow(cache)
                       /\ mode = "cards" \/ PassingNow(cache) = {} => OnScreen = PassingNow(cache)

PagesInv == Typed /\ Serial /\ Kept /\ KindsApart /\ Synced /\ SelectedIsTicked

LEMMA PagesInvInit == Init => PagesInv
<1> SUFFICES ASSUME Init PROVE PagesInv
  OBVIOUS
<1>1. Typed
  BY InitTyped
<1>2. gets = <<>> /\ reqs = {} /\ DOMAIN cache = {} /\ typing = FALSE /\ selected = {} /\ page = 1
      /\ mode \in Layouts /\ \A l \in Layouts : drawn[l] = {}
  BY DEF Init, Layouts
<1>3. PassingNow(cache) = {}
  BY <1>2 DEF PassingNow
<1>4. Synced
  BY <1>2, <1>3 DEF Synced, PageNow, Pages, OnScreen, Layouts
<1>5. Len(gets) <= 1 /\ DOMAIN gets = {}
  BY <1>2
<1> QED
  BY <1>1, <1>2, <1>4, <1>5 DEF PagesInv, Serial, Kept, KindsApart, SelectedIsTicked

(* A GET, of whichever action: no request is on its way beside it, or the   *)
(* page counts as disturbed.                                                *)
LEMMA AskKeeps ==
  ASSUME PagesInv, Typed', Ask, ~disturbed' => gets = <<>> /\ reqs' = {}, KindsApart', SelectedIsTicked'
  PROVE  PagesInv'
<1>1. /\ gets' # <<>>
      /\ gets = <<>> => Len(gets') = 1 /\ DOMAIN gets' = {1} /\ gets'[1] = None
  BY AskTyped DEF PagesInv, Typed, NetTyped
<1>2. ASSUME ~disturbed'
      PROVE  Len(gets') <= 1 /\ reqs' = {} /\ \A k \in DOMAIN gets' : gets'[k] = None
  <2>1. reqs' = {} /\ Len(gets') = 1 /\ DOMAIN gets' = {1} /\ gets'[1] = None
    BY <1>1, <1>2
  <2>2. \A k \in DOMAIN gets' : k = 1
    BY <2>1, Zenon
  <2> QED
    BY <2>1, <2>2
<1>3. Serial'
  BY <1>2 DEF Serial
<1> QED
  BY <1>1, <1>3 DEF PagesInv, Kept, Synced

(* The web apps are drawn again, whatever changed but the rows.             *)
LEMMA DrawKeeps ==
  ASSUME PagesInv, Typed', NEW p \in Nat \ {0}, DrawWebApps(cache, p), kind = "webapp",
         UNCHANGED <<kind, db, cache, gets, reqs, disturbed>>
  PROVE  PagesInv'
<1>1. ScreenTyped /\ LookTyped' /\ selected' \subseteq Ids /\ cache \in Lists /\ cache' = cache
  BY DEF PagesInv, Typed, NetTyped, ScreenTyped
<1>2. /\ page' <= Pages(Passing(cache)) /\ drawn'[mode'] = PageOf(Passing(cache), page')
      /\ ticked'[mode'] = drawn'[mode'] \cap selected'
  BY <1>1, WebAppsDrawn
<1>3. Synced' /\ SelectedIsTicked'
  <2>1. kind' = "webapp" /\ page' <= Pages(PassingNow(cache))'
        /\ drawn'[mode'] = PageNow(PassingNow(cache), page)'
    BY <1>1, <1>2, PrimedPage
  <2>2. Synced'
    BY <2>1 DEF Synced
  <2>3. SelectedIsTicked'
    BY <1>2 DEF SelectedIsTicked
  <2> QED
    BY <2>2, <2>3
<1>4. Serial' /\ Kept' /\ KindsApart'
  BY DEF PagesInv, Serial, Kept, KindsApart
<1> QED
  BY <1>3, <1>4 DEF PagesInv

(* Without a disturbance the answer that comes is that of the only GET.    *)
LEMMA OneGet ==
  ASSUME PagesInv, ~disturbed, NEW k \in DOMAIN gets, gets[k] # None
  PROVE  RemoveAt(gets, k) = <<>> /\ gets[k] = db /\ reqs = {}
<1>1. gets \in Seq(Lists \cup {None}) /\ Len(gets) <= 1
  BY DEF PagesInv, Typed, NetTyped, Serial
<1>2. Len(gets) = 1 /\ k = 1
  <2>1. Len(gets) \in Nat /\ k \in 1..Len(gets)
    BY <1>1
  <2>2. \A n \in Nat : \A j \in 1..n : n <= 1 => n = 1 /\ j = 1
    OBVIOUS
  <2> QED
    BY <1>1, <2>1, <2>2, Zenon
<1>3. RemoveAt(gets, k) = <<>>
  <2>1. SubSeq(gets, 1, 0) = <<>> /\ SubSeq(gets, 2, 1) = <<>>
    BY <1>1
  <2> QED
    BY <1>2, <2>1 DEF RemoveAt
<1>4. gets # <<>>
  BY <1>2
<1> QED
  BY <1>3, <1>4 DEF PagesInv, Serial

LEMMA LoadsKeep ==
  ASSUME PagesInv, Typed', NEW k \in DOMAIN gets, Served(k) \/ Loaded(k) \/ LoadFailed(k)
  PROVE  PagesInv'
<1>a. gets \in Seq(Lists \cup {None}) /\ gets # <<>> /\ page \in Nat \ {0}
  BY DEF PagesInv, Typed, NetTyped, ScreenTyped
<1>1. CASE Served(k)
  <2>1. /\ gets' = [gets EXCEPT ![k] = db]
        /\ UNCHANGED <<kind, db, cache, selected, reqs, disturbed, page, drawn, ticked, typing, mode>>
    BY <1>1 DEF Served, screen, look
  <2>2. /\ DOMAIN gets' = DOMAIN gets /\ Len(gets') = Len(gets) /\ gets' # <<>>
        /\ \A j \in DOMAIN gets : gets'[j] = gets[j] \/ gets'[j] = db
    BY <1>a, <2>1
  <2>3. Serial'
    BY <1>a, <2>1, <2>2 DEF PagesInv, Serial
  <2> QED
    BY <2>1, <2>2, <2>3 DEF PagesInv, Kept, KindsApart, Synced, SelectedIsTicked
<1>2. CASE Loaded(k)
  <2>1. /\ gets[k] # None /\ gets' = RemoveAt(gets, k) /\ cache' = gets[k]
        /\ UNCHANGED <<kind, db, typing, mode, selected, reqs, disturbed>> /\ DrawLoaded(gets[k])
    BY <1>2 DEF Loaded, look
  <2>2. ~disturbed => gets' = <<>> /\ cache' = db /\ reqs = {}
    BY <2>1, OneGet
  <2>3. Serial' /\ Kept'
    <3>1. gets' = <<>> => Len(gets') <= 1 /\ DOMAIN gets' = {}
      OBVIOUS
    <3> QED
      BY <2>1, <2>2, <3>1 DEF Serial, Kept
  <2>4. CASE kind = "webapp"
    <3>1. DrawWebApps(cache', page)
      BY <2>1, <2>4 DEF DrawLoaded
    <3>2. ScreenTyped /\ LookTyped' /\ selected' \subseteq Ids /\ cache' \in Lists
      BY DEF PagesInv, Typed, NetTyped, ScreenTyped
    <3>3. /\ page' <= Pages(Passing(cache')) /\ drawn'[mode'] = PageOf(Passing(cache'), page')
          /\ ticked'[mode'] = drawn'[mode'] \cap selected'
      BY <1>a, <3>1, <3>2, WebAppsDrawn
    <3>4. Synced' /\ SelectedIsTicked' /\ KindsApart'
      BY <2>1, <2>4, <3>3, PrimedPage DEF Synced, SelectedIsTicked, KindsApart
    <3> QED
      BY <2>3, <3>4 DEF PagesInv
  <2>5. CASE kind = "dns"
    <3>1. DrawDns(cache') /\ kind' = "dns"
      BY <2>1, <2>5 DEF DrawLoaded
    <3>2. PICK m, S : m = mode' /\ S = Passing(cache')
      OBVIOUS
    <3>3. /\ m \in {"cards", "table"}
          /\ drawn'["cards"] = IF m = "cards" \/ S = {} THEN S ELSE drawn["cards"]
          /\ drawn'["table"] = IF m = "table" THEN S ELSE {}
      BY <3>1, <3>2 DEF DrawDns, PagesInv, Typed, LookTyped, Layouts
    <3>5. /\ drawn'[m] = S
          /\ m = "cards" => drawn'["cards"] \cup drawn'["table"] = S
          /\ S = {} => drawn'["cards"] \cup drawn'["table"] = {}
      BY <3>3
    <3>6. S = PassingNow(cache)'
      BY <3>2, PrimedPage
    <3>4. Synced' /\ SelectedIsTicked' /\ KindsApart'
      BY <2>1, <3>1, <3>2, <3>5, <3>6 DEF PagesInv, Synced, SelectedIsTicked, KindsApart, OnScreen
    <3> QED
      BY <2>3, <3>4 DEF PagesInv
  <2>6. CASE kind = "port"
    <3>1. drawn' = drawn /\ kind' = "port"
      BY <2>1, <2>6 DEF DrawLoaded, DrawPorts, screen
    <3>2. Synced' /\ SelectedIsTicked' /\ KindsApart'
      BY <2>1, <3>1 DEF PagesInv, Synced, SelectedIsTicked, KindsApart
    <3> QED
      BY <2>3, <3>2 DEF PagesInv
  <2> QED
    BY <2>4, <2>5, <2>6, PagesAssumption DEF PagesInv, Typed
<1>3. CASE LoadFailed(k)
  <2>1. disturbed' /\ UNCHANGED <<kind, selected, drawn, ticked, typing, mode>>
    BY <1>3 DEF LoadFailed, screen, look
  <2> QED
    BY <2>1 DEF PagesInv, Serial, Kept, KindsApart, Synced, SelectedIsTicked
<1> QED
  BY <1>1, <1>2, <1>3

LEMMA RedrawKeeps ==
  ASSUME PagesInv, Typed', Redraw, UNCHANGED <<kind, db, cache, typing, selected, reqs>>
  PROVE  PagesInv'
<1>1. CASE kind = "webapp"
  <2>1. DrawWebApps(cache, page) /\ UNCHANGED <<gets, disturbed>> /\ page \in Nat \ {0}
    BY <1>1 DEF Redraw, PagesInv, Typed, ScreenTyped
  <2> QED
    BY <1>1, <2>1, DrawKeeps
<1>2. CASE kind # "webapp"
  <2>1. Ask /\ disturbed' = ~Quiet /\ drawn' = drawn
    BY <1>2 DEF Redraw, screen
  <2>2. ~disturbed' => gets = <<>> /\ reqs' = {}
    BY <2>1 DEF Quiet
  <2>3. KindsApart' /\ SelectedIsTicked'
    BY <1>2, <2>1 DEF PagesInv, KindsApart, SelectedIsTicked
  <2> QED
    BY <2>1, <2>2, <2>3, AskKeeps
<1> QED
  BY <1>1, <1>2

LEMMA LooksKeep ==
  ASSUME PagesInv, Typed',
         \/ Open \/ SetFilter \/ SetFilterOnly \/ Type \/ SearchFires \/ ToggleLayout \/ Sort \/ GoToPage
  PROVE  PagesInv'
<1>a. page \in Nat \ {0} /\ (typing => kind = "webapp")
  BY DEF PagesInv, Typed, ScreenTyped, KindsApart
<1>1. CASE Open
  <2>1. Ask /\ disturbed' = ~Quiet /\ UNCHANGED <<kind, typing, mode, selected, reqs, drawn, ticked>>
    BY <1>1 DEF Open, screen
  <2>2. ~disturbed' => gets = <<>> /\ reqs' = {}
    BY <2>1 DEF Quiet
  <2>3. KindsApart' /\ SelectedIsTicked'
    BY <2>1 DEF PagesInv, KindsApart, SelectedIsTicked
  <2> QED
    BY <2>1, <2>2, <2>3, AskKeeps
<1>2. CASE SetFilter
  <2>1. UNCHANGED <<kind, db, cache, typing, selected, reqs>>
    BY <1>2 DEF SetFilter
  <2>2. CASE kind = "webapp"
    <3>1. DrawWebApps(cache, 1) /\ UNCHANGED <<gets, disturbed>>
      BY <1>2, <2>2 DEF SetFilter
    <3> QED
      BY <2>1, <2>2, <3>1, DrawKeeps
  <2>3. CASE kind # "webapp"
    <3>1. Redraw
      BY <1>2, <2>3 DEF SetFilter
    <3> QED
      BY <2>1, <3>1, RedrawKeeps
  <2> QED
    BY <2>2, <2>3
<1>3. CASE SetFilterOnly
  <2>1. UNCHANGED <<kind, db, cache, typing, selected, reqs>> /\ Redraw
    BY <1>3 DEF SetFilterOnly
  <2> QED
    BY <2>1, RedrawKeeps
<1>4. CASE Type
  <2>1. UNCHANGED <<kind, db, cache, mode, selected, reqs>>
    BY <1>4 DEF Type
  <2>2. CASE kind = "webapp"
    <3>1. typing' = TRUE /\ UNCHANGED <<drawn, ticked, gets, disturbed>>
      BY <1>4, <2>2 DEF Type
    <3>2. Synced' /\ KindsApart'
      BY <2>1, <2>2, <3>1 DEF Synced, KindsApart
    <3> QED
      BY <2>1, <3>1, <3>2 DEF PagesInv, Serial, Kept, SelectedIsTicked
  <2>3. CASE kind # "webapp"
    <3>1. typing' = typing /\ Redraw
      BY <1>4, <2>3 DEF Type
    <3> QED
      BY <2>1, <3>1, RedrawKeeps
  <2> QED
    BY <2>2, <2>3
<1>5. CASE SearchFires
  <2>1. DrawWebApps(cache, page) /\ UNCHANGED <<kind, db, cache, gets, reqs, disturbed>> /\ kind = "webapp"
    BY <1>5, <1>a DEF SearchFires, network
  <2> QED
    BY <1>a, <2>1, DrawKeeps
<1>6. CASE ToggleLayout
  <2>1. UNCHANGED <<kind, db, cache, typing, selected, reqs>> /\ Redraw
    BY <1>6 DEF ToggleLayout
  <2> QED
    BY <2>1, RedrawKeeps
<1>7. CASE Sort
  <2>1. DrawWebApps(cache, 1) /\ UNCHANGED <<kind, db, cache, gets, reqs, disturbed>> /\ kind = "webapp"
    BY <1>7 DEF Sort, network
  <2> QED
    BY <2>1, DrawKeeps
<1>8. CASE GoToPage
  <2>1. UNCHANGED <<kind, db, cache, gets, reqs, disturbed>> /\ kind = "webapp"
    BY <1>8 DEF GoToPage, network
  <2>2. PICK p \in {1, IF page > 1 THEN page - 1 ELSE 1, page + 1, 9999} : DrawWebApps(cache, p)
    BY <1>8 DEF GoToPage
  <2>3. p \in Nat \ {0}
    BY <1>a
  <2> QED
    BY <2>1, <2>2, <2>3, DrawKeeps
<1> QED
  BY <1>1, <1>2, <1>3, <1>4, <1>5, <1>6, <1>7, <1>8

LEMMA RequestsKeep ==
  ASSUME PagesInv, Typed',
         \/ \E i \in Ids : Tick(i)
         \/ SelectAll \/ DeselectAll \/ Start
         \/ \E r \in reqs : Done(r) \/ Failed(r)
  PROVE  PagesInv'
<1>a. /\ {drawn, ticked} \subseteq [Layouts -> SUBSET Ids] /\ mode \in Layouts /\ page \in Nat \ {0}
      /\ KindsApart /\ Synced /\ Kept /\ Serial
      /\ kind = "webapp" => selected \cap drawn[mode] \subseteq ticked[mode]
  BY DEF PagesInv, Typed, LookTyped, ScreenTyped, SelectedIsTicked
<1>b. ASSUME UNCHANGED <<kind, db, cache, filter, text, typing, dir, mode, page, drawn, gets>>,
             ~disturbed' => ~disturbed
      PROVE  Kept' /\ KindsApart' /\ Synced'
  <2>1. Synced'
    BY <1>a, <1>b DEF Synced, PassingNow, PageNow, OnScreen
  <2> QED
    BY <1>a, <1>b, <2>1 DEF Kept, KindsApart
<1>c. ASSUME UNCHANGED <<kind, cache, look, page, drawn, disturbed>>, UNCHANGED network,
             SelectedIsTicked'
      PROVE  PagesInv'
  <2>1. Serial'
    BY <1>a, <1>c DEF Serial, network
  <2> QED
    BY <1>b, <1>c, <2>1 DEF PagesInv, network, look
<1>1. ASSUME NEW i \in Ids, Tick(i) PROVE PagesInv'
  <2>1. UNCHANGED <<kind, cache, look, page, drawn, disturbed>> /\ UNCHANGED network /\ kind = "webapp"
    BY <1>1 DEF Tick
  <2>2. \/ /\ ticked' = [ticked EXCEPT ![mode] = ticked[mode] \ {i}]
           /\ selected' = selected \ {i}
        \/ /\ ticked' = [ticked EXCEPT ![mode] = ticked[mode] \cup {i}]
           /\ selected' = selected \cup {i}
    BY <1>1 DEF Tick
  <2>3. \/ ticked'[mode] = ticked[mode] \ {i} /\ selected' = selected \ {i}
        \/ ticked'[mode] = ticked[mode] \cup {i} /\ selected' = selected \cup {i}
    BY <1>a, <2>2
  <2>4. SelectedIsTicked'
    BY <1>a, <2>1, <2>3 DEF SelectedIsTicked, look
  <2> QED
    BY <1>c, <2>1, <2>4
<1>2. CASE SelectAll
  <2>1. UNCHANGED <<kind, cache, look, page, drawn, disturbed>> /\ UNCHANGED network
    BY <1>2 DEF SelectAll
  <2>2. \/ selected' = selected \ (drawn["cards"] \cup drawn["table"])
        \/ ticked' = drawn
    BY <1>2 DEF SelectAll
  <2>3. SelectedIsTicked'
    BY <1>a, <2>1, <2>2 DEF SelectedIsTicked, look, Layouts
  <2> QED
    BY <1>c, <2>1, <2>3
<1>3. CASE DeselectAll
  <2>1. DrawWebApps(cache, page) /\ UNCHANGED <<kind, db, cache, gets, reqs, disturbed>> /\ kind = "webapp"
    BY <1>3 DEF DeselectAll, network
  <2> QED
    BY <1>a, <2>1, DrawKeeps
<1>4. CASE Start
  <2>1. UNCHANGED <<kind, db, cache, filter, text, typing, dir, mode, page, drawn, ticked, selected, gets>>
    BY <1>4 DEF Start, look, screen
  <2>2. disturbed' = (disturbed \/ ~Quiet) /\ \E r : reqs' = reqs \cup {r}
    BY <1>4 DEF Start
  <2>3. Serial'
    <3>1. CASE ~disturbed'
      <4>1. reqs = {} /\ gets = <<>> /\ gets' = <<>>
        BY <2>1, <2>2, <3>1 DEF Quiet
      <4>2. Len(gets') = 0 /\ DOMAIN gets' = {}
        BY <4>1
      <4> QED
        BY <2>2, <4>1, <4>2 DEF Serial
    <3>2. CASE disturbed'
      BY <3>2 DEF Serial
    <3> QED
      BY <3>1, <3>2
  <2>4. SelectedIsTicked'
    BY <1>a, <2>1 DEF SelectedIsTicked
  <2> QED
    BY <1>b, <2>1, <2>2, <2>3, <2>4 DEF PagesInv
<1>5. ASSUME NEW r \in reqs, Done(r) PROVE PagesInv'
  <2>1. /\ Ask /\ reqs' = reqs \ {r} /\ selected' \subseteq selected
        /\ UNCHANGED <<kind, typing, mode, drawn, ticked, disturbed>>
    BY <1>5 DEF Done, look, screen
  <2>2. ~disturbed => gets = <<>> /\ reqs' = {}
    BY <1>a, <2>1 DEF Serial
  <2>3. KindsApart' /\ SelectedIsTicked'
    BY <1>a, <2>1 DEF KindsApart, SelectedIsTicked
  <2> QED
    BY <2>1, <2>2, <2>3, AskKeeps
<1>6. ASSUME NEW r \in reqs, Failed(r) PROVE PagesInv'
  <2>1. /\ UNCHANGED <<kind, cache, filter, text, typing, dir, mode, page, drawn, ticked, selected>>
        /\ reqs' = reqs \ {r}
    BY <1>6 DEF Failed, look, screen
  <2>2. ~disturbed' => ~disturbed /\ gets = <<>> /\ reqs' = {}
    BY <1>6, <1>a, <2>1 DEF Failed, Serial
  <2>3. SelectedIsTicked'
    BY <1>a, <2>1 DEF SelectedIsTicked
  <2>4. CASE Swallows(r)
    <3>1. Ask /\ KindsApart'
      BY <1>6, <1>a, <2>1, <2>4 DEF Failed, KindsApart
    <3> QED
      BY <2>2, <2>3, <3>1, AskKeeps
  <2>5. CASE ~Swallows(r)
    <3>1. gets' = gets /\ disturbed' = (disturbed \/ db' # db)
      BY <1>6, <2>5 DEF Failed
    <3>2. CASE disturbed'
      BY <1>a, <2>1, <2>3, <3>2 DEF PagesInv, Serial, Kept, Synced, KindsApart
    <3>3. CASE ~disturbed'
      <4>1. db' = db /\ gets' = <<>> /\ reqs' = {} /\ ~disturbed
        BY <2>2, <3>1, <3>3
      <4>2. Len(gets') = 0 /\ DOMAIN gets' = {}
        BY <4>1
      <4>3. Serial'
        BY <4>1, <4>2 DEF Serial
      <4> QED
        BY <1>b, <2>1, <2>3, <3>1, <4>1, <4>3 DEF PagesInv
    <3> QED
      BY <3>2, <3>3
  <2> QED
    BY <2>4, <2>5
<1> QED
  BY <1>1, <1>2, <1>3, <1>4, <1>5, <1>6

LEMMA PagesStep == PagesInv /\ [Next]_vars => PagesInv'
<1> SUFFICES ASSUME PagesInv, [Next]_vars PROVE PagesInv'
  OBVIOUS
<1>1. Typed'
  BY TypedStep DEF PagesInv
<1>2. CASE UNCHANGED vars
  <2>1. Synced'
    BY <1>2 DEF vars, PagesInv, Synced, PassingNow, PageNow, OnScreen
  <2> QED
    BY <1>1, <1>2, <2>1 DEF vars, PagesInv, Serial, Kept, KindsApart, SelectedIsTicked
<1>3. CASE Next
  BY <1>1, <1>3, LoadsKeep, LooksKeep, RequestsKeep DEF Next
<1> QED
  BY <1>2, <1>3

-------------------------------------------------------------------------------
(* Theorems *)

(* For any rows, any size of a page and any number of requests: the page of *)
(* web apps has a row while some pass the chip and the search, in either    *)
(* layout and direction, and a web app a bulk operation would take is ticked. *)
THEOREM PagesHold == Spec => []PageOK
<1>1. PagesInv => PageOK
  <2> SUFFICES ASSUME PagesInv PROVE WebAppPageShowsRows
    BY TypedIsTypeOK DEF PagesInv, PageOK
  <2> SUFFICES ASSUME kind = "webapp", drawn[mode] = {}, Quiesced, ~typing
               PROVE  PassingNow(cache) = {}
    BY DEF WebAppPageShowsRows, PassingNow
  <2>1. cache \in Lists /\ page \in Nat \ {0} /\ dir \in {1, -1}
    BY DEF PagesInv, Typed, NetTyped, LookTyped, ScreenTyped
  <2>2. PassingNow(cache) \in SUBSET Ids
    BY <2>1, ListRows DEF PassingNow
  <2>3. PageNow(PassingNow(cache), page) = {} /\ page <= Pages(PassingNow(cache))
    BY DEF PagesInv, Synced, Quiesced, Quiet
  <2> QED
    BY <2>1, <2>2, <2>3, PageHasRow
<1> QED
  BY <1>1, PagesInvInit, PagesStep, PTL DEF Spec

(* For any rows and any number of requests: of web apps and DNS records     *)
(* what is on the screen passes the chip and the search that are set, when  *)
(* all was answered and nothing overlapped or failed, but for the cards     *)
(* that are left above a table of DNS records.                              *)
THEOREM ScreenObeysFilter == Spec => []DrawnObeysFilter
<1>1. PagesInv => DrawnObeysFilter
  <2> SUFFICES ASSUME PagesInv, kind # "port", ~typing, Quiesced, NEW i \in OnScreen
               PROVE  i \in PassingNow(cache) \/ LeftCard(i)
    BY DEF DrawnObeysFilter, PassingNow
  <2>1. kind \in {"webapp", "dns"} /\ mode \in {"cards", "table"} /\ gets = <<>> /\ ~disturbed
    BY PagesAssumption DEF PagesInv, Typed, LookTyped, Layouts, Quiesced, Quiet
  <2>2. CASE kind = "webapp"
    <3>1. i \in PageNow(PassingNow(cache), page)
      BY <2>1, <2>2 DEF PagesInv, Synced, OnScreen
    <3> QED
      BY <3>1 DEF PageNow
  <2>3. CASE kind = "dns" /\ (mode = "cards" \/ PassingNow(cache) = {})
    <3>1. OnScreen = PassingNow(cache)
      BY <2>1, <2>3 DEF PagesInv, Synced
    <3> QED
      BY <3>1
  <2>4. CASE kind = "dns" /\ mode = "table" /\ PassingNow(cache) # {}
    <3>1. drawn["table"] = PassingNow(cache)
      BY <2>1, <2>4 DEF PagesInv, Synced
    <3> QED
      BY <2>4, <3>1 DEF LeftCard
  <2> QED
    BY <2>1, <2>2, <2>3, <2>4
<1> QED
  BY <1>1, PagesInvInit, PagesStep, PTL DEF Spec

(* For any rows and any number of requests: when all was answered, and      *)
(* since the last load nothing overlapped and no request failed after it    *)
(* had changed the server, a list that was loaded is the server's.          *)
THEOREM RowsEndCurrent == Spec => []ListIsCurrent
<1>1. PagesInv => ListIsCurrent
  BY DEF PagesInv, Kept, ListIsCurrent, Quiesced, Quiet
<1> QED
  BY <1>1, PagesInvInit, PagesStep, PTL DEF Spec
===============================================================================
