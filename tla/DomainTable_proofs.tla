-------------------------- MODULE DomainTable_proofs --------------------------
(***************************************************************************)
(* Proofs about the domain list, for any domains, statuses and page sizes  *)
(* and any order of what the user does and the server answers.             *)
(***************************************************************************)
EXTENDS DomainTable, SequenceTheorems, FiniteSetTheorems, TLAPS

-------------------------------------------------------------------------------
(* Ranks and pages *)

(* In a finite set whose elements stand above different parts of it, nested *)
(* in each other, every rank from 1 is taken.                              *)
LEMMA RanksAreTaken ==
  ASSUME NEW S, IsFiniteSet(S), NEW below \in [S -> SUBSET S],
         \A i \in S : i \in below[i],
         \A i, j \in S : i # j => \/ below[i] \subseteq below[j] /\ j \notin below[i]
                                  \/ below[j] \subseteq below[i] /\ i \notin below[j],
         NEW r \in 1..Cardinality(S)
  PROVE  \E i \in S : Cardinality(below[i]) = r
<1> DEFINE n == Cardinality(S)
           rank == [i \in S |-> Cardinality(below[i])]
<1>1. \A i \in S : IsFiniteSet(below[i]) /\ Cardinality(below[i]) \in 1..n
  <2>1. n \in Nat
    BY FS_CardinalityType
  <2> TAKE i \in S
  <2>2. IsFiniteSet(below[i]) /\ Cardinality(below[i]) <= n
    BY FS_Subset
  <2>3. Cardinality(below[i]) \in Nat /\ Cardinality(below[i]) # 0
    BY <2>2, FS_CardinalityType, FS_EmptySet
  <2> QED
    BY <2>1, <2>2, <2>3
<1>2. \A i, j \in S : i # j => Cardinality(below[i]) # Cardinality(below[j])
  <2> SUFFICES ASSUME NEW i \in S, NEW j \in S, i # j, below[i] \subseteq below[j], j \notin below[i]
               PROVE  Cardinality(below[i]) # Cardinality(below[j])
    OBVIOUS
  <2>1. below[i] # below[j]
    OBVIOUS
  <2> QED
    BY <1>1, <2>1, FS_Subset
<1>3. rank \in Injection(S, 1..n)
  BY <1>1, <1>2 DEF Injection, IsInjective
<1>4. IsFiniteSet(1..n) /\ Cardinality(1..n) = n
  BY FS_CardinalityType, FS_Interval
<1>5. rank \in Surjection(S, 1..n)
  BY <1>3, <1>4, FS_Injection
<1> QED
  BY <1>5 DEF Surjection

(* The pages of n rows: the last one has a row, and none comes after it.   *)
LEMMA PagesOf ==
  ASSUME NEW n \in Nat \ {0}, NEW d \in Nat \ {0}
  PROVE  LET q == (n + d - 1) \div d
         IN  q \in Nat \ {0} /\ (q - 1) * d < n /\ n <= q * d
<1> DEFINE q == (n + d - 1) \div d
<1>1. q \in Int /\ q * d <= n + d - 1 /\ n + d - 1 < (q + 1) * d
  OBVIOUS
<1>2. (q + 1) * d = q * d + d /\ (q - 1) * d = q * d - d
  BY <1>1
<1>3. (q - 1) * d < n /\ n <= q * d
  BY <1>1, <1>2
<1>4. q > 0
  <2> HIDE DEF q
  <2> SUFFICES ASSUME q <= 0 PROVE FALSE
    BY <1>1
  <2>1. q * d <= 0
    BY <1>1
  <2> QED
    BY <1>1, <1>3, <2>1
<1> QED
  BY <1>1, <1>3, <1>4

LEMMA TimesGrows ==
  ASSUME NEW a \in Int, NEW b \in Int, NEW d \in Nat, a <= b
  PROVE  a * d <= b * d
<1>1. b * d = a * d + (b - a) * d
  OBVIOUS
<1>2. (b - a) * d >= 0
  OBVIOUS
<1> QED
  BY <1>1, <1>2

-------------------------------------------------------------------------------
(* Filtering and sorting *)

(* The places of a sequence, and the rows at them.                         *)
LEMMA Places ==
  ASSUME NEW rows \in Seq(Rows)
  PROVE  /\ DOMAIN rows = 1..Len(rows) /\ Len(rows) \in Nat
         /\ IsFiniteSet(DOMAIN rows) /\ Cardinality(DOMAIN rows) = Len(rows)
         /\ \A i \in DOMAIN rows : i \in Nat \ {0} /\ rows[i] \in Rows
<1>1. DOMAIN rows = 1..Len(rows) /\ Len(rows) \in Nat
  OBVIOUS
<1>2. IsFiniteSet(1..Len(rows)) /\ Cardinality(1..Len(rows)) = Len(rows)
  BY <1>1, FS_Interval
<1> QED
  BY <1>1, <1>2

(* What filter keeps is a sequence of the rows at the places it names.     *)
LEMMA KeepRows ==
  ASSUME NEW rows \in Seq(Rows), NEW places \in SUBSET DOMAIN rows
  PROVE  /\ Keep(rows, places) \in Seq(Rows)
         /\ \A k \in DOMAIN Keep(rows, places) : \E i \in places : Keep(rows, places)[k] = rows[i]
<1> DEFINE n == Cardinality(places)
           below == [i \in places |-> places \cap 1..i]
           at(k) == CHOOSE i \in places : Cardinality(places \cap 1..i) = k
<1>1. IsFiniteSet(places) /\ n \in Nat /\ \A i \in places : i \in Nat \ {0} /\ rows[i] \in Rows
  BY Places, FS_Subset, FS_CardinalityType
<1>2. ASSUME NEW k \in 1..n PROVE at(k) \in places
  <2>1. below \in [places -> SUBSET places]
    OBVIOUS
  <2>2. \A i \in places : i \in below[i]
    BY <1>1
  <2>3. \A i, j \in places : i # j => \/ below[i] \subseteq below[j] /\ j \notin below[i]
                                      \/ below[j] \subseteq below[i] /\ i \notin below[j]
    BY <1>1
  <2>4. \E i \in places : Cardinality(below[i]) = k
    <3> HIDE DEF below
    <3> QED
      BY <1>1, <1>2, <2>1, <2>2, <2>3, RanksAreTaken
  <2> QED
    BY <2>4
<1>3. Keep(rows, places) = [k \in 1..n |-> rows[at(k)]]
  BY DEF Keep
<1> HIDE DEF n, at
<1> QED
  BY <1>1, <1>2, <1>3

LEMMA SortKeys ==
  ASSUME NEW rows \in Seq(Rows), NEW sort \in Sorts, NEW i \in DOMAIN rows
  PROVE  sort.dir * SortKey(rows[i], sort.field) \in Int
<1>1. rows[i].id \in Nat /\ sort.dir \in {1, -1}
  BY Places, TableAssumption DEF Rows, Sorts
<1>2. StatusOrder(rows[i].status) \in 0..7
  BY DEF StatusOrder
<1>3. SortKey(rows[i], sort.field) \in Int
  BY <1>1, <1>2 DEF SortKey
<1> QED
  BY <1>1, <1>3

(* Sorting gives every place one of the rows.                              *)
LEMMA SortedRows ==
  ASSUME NEW rows \in Seq(Rows), NEW sort \in Sorts
  PROVE  /\ SortDomains(rows, sort) \in Seq(Rows) /\ DOMAIN SortDomains(rows, sort) = DOMAIN rows
         /\ \A k \in DOMAIN rows : \E i \in DOMAIN rows : SortDomains(rows, sort)[k] = rows[i]
<1> DEFINE D == DOMAIN rows
           key(i) == sort.dir * SortKey(rows[i], sort.field)
           rank(i) == Cardinality({j \in D : key(j) < key(i) \/ (key(j) = key(i) /\ j <= i)})
           below == [i \in D |-> {j \in D : key(j) < key(i) \/ (key(j) = key(i) /\ j <= i)}]
           at(k) == CHOOSE i \in D : rank(i) = k
<1>1. /\ IsFiniteSet(D) /\ Cardinality(D) = Len(rows) /\ D = 1..Len(rows) /\ Len(rows) \in Nat
      /\ \A i \in D : i \in Nat \ {0} /\ rows[i] \in Rows
  BY Places
<1>2. \A i \in D : key(i) \in Int
  BY SortKeys
<1>3. SortDomains(rows, sort) = [k \in D |-> rows[at(k)]]
  BY DEF SortDomains
<1>4. ASSUME NEW k \in D PROVE at(k) \in D
  <2>1. below \in [D -> SUBSET D]
    OBVIOUS
  <2> HIDE DEF key, D
  <2>2. \A i \in D : i \in below[i]
    BY <1>1, <1>2
  <2>3. \A i, j \in D : i # j => \/ below[i] \subseteq below[j] /\ j \notin below[i]
                                 \/ below[j] \subseteq below[i] /\ i \notin below[j]
    <3> SUFFICES ASSUME NEW i \in D, NEW j \in D, key(i) < key(j) \/ (key(i) = key(j) /\ i < j)
                 PROVE  below[i] \subseteq below[j] /\ j \notin below[i]
      BY <1>1, <1>2
    <3>1. \A l \in D : key(l) < key(i) \/ (key(l) = key(i) /\ l <= i)
                         => key(l) < key(j) \/ (key(l) = key(j) /\ l <= j)
      BY <1>1, <1>2
    <3>2. ~(key(j) < key(i) \/ (key(j) = key(i) /\ j <= i))
      BY <1>1, <1>2
    <3> QED
      BY <3>1, <3>2
  <2>4. \E i \in D : Cardinality(below[i]) = k
    <3>1. k \in 1..Cardinality(D)
      BY <1>1
    <3> HIDE DEF below
    <3> QED
      BY <1>1, <2>1, <2>2, <2>3, <3>1, RanksAreTaken
  <2>5. \E i \in D : rank(i) = k
    BY <2>4
  <2> QED
    BY <2>5
<1> HIDE DEF at, D
<1>5. /\ SortDomains(rows, sort) \in Seq(Rows) /\ DOMAIN SortDomains(rows, sort) = D
      /\ \A k \in D : \E i \in D : SortDomains(rows, sort)[k] = rows[i]
  BY <1>1, <1>3, <1>4
<1> QED
  BY <1>5 DEF D

(* A row getFilteredDomains returns is in memory and passes the three.     *)
LEMMA FilteredRows ==
  ASSUME NEW rows \in Seq(Rows), NEW v, NEW q
  PROVE  /\ Filtered(rows, v, q) \in Seq(Rows)
         /\ \A k \in DOMAIN Filtered(rows, v, q) :
              \E i \in DOMAIN rows : /\ Filtered(rows, v, q)[k] = rows[i]
                                     /\ q => rows[i].id \in Matching
                                     /\ Passes(rows[i].status, v.filter)
                                     /\ v.tld => rows[i].id \in InTld
<1> DEFINE places == {i \in DOMAIN rows : /\ q => rows[i].id \in Matching
                                          /\ Passes(rows[i].status, v.filter)
                                          /\ v.tld => rows[i].id \in InTld}
<1>1. Filtered(rows, v, q) = Keep(rows, places)
  BY DEF Filtered
<1>2. places \in SUBSET DOMAIN rows
  OBVIOUS
<1>3. /\ Keep(rows, places) \in Seq(Rows)
      /\ \A k \in DOMAIN Keep(rows, places) : \E i \in places : Keep(rows, places)[k] = rows[i]
  <2> HIDE DEF places
  <2> QED
    BY <1>2, KeepRows
<1> QED
  BY <1>1, <1>3

LEMMA RemoveAtSeq ==
  ASSUME NEW S, NEW s \in Seq(S), NEW k \in DOMAIN s
  PROVE  RemoveAt(s, k) \in Seq(S)
<1>1. k \in 1..Len(s)
  OBVIOUS
<1>2. SubSeq(s, 1, k - 1) \in Seq(S)
  BY <1>1
<1>3. SubSeq(s, k + 1, Len(s)) \in Seq(S)
  BY <1>1
<1> QED
  BY <1>2, <1>3 DEF RemoveAt

(* A page is one of those there are, and has a row when there are rows.    *)
LEMMA PagesType ==
  ASSUME NEW rows \in Seq(Rows), NEW size \in Nat \ {0}
  PROVE  /\ TotalPages(rows, size) \in Nat \ {0}
         /\ rows # <<>> => (TotalPages(rows, size) - 1) * size < Len(rows)
<1>1. CASE rows = <<>>
  BY <1>1 DEF TotalPages
<1>2. CASE rows # <<>>
  <2>1. Len(rows) \in Nat \ {0}
    BY <1>2
  <2> QED
    BY <1>2, <2>1, PagesOf DEF TotalPages
<1> QED
  BY <1>1, <1>2

LEMMA PageHasItem ==
  ASSUME NEW rows \in Seq(Rows), rows # <<>>, NEW size \in Nat \ {0}, NEW p \in Nat \ {0},
         p <= TotalPages(rows, size), NEW items \in Seq(Rows), DOMAIN items = DOMAIN rows
  PROVE  PageItems(items, p, size) # {}
<1> DEFINE i == (p - 1) * size + 1
<1>1. TotalPages(rows, size) \in Nat \ {0} /\ (TotalPages(rows, size) - 1) * size < Len(rows)
  BY PagesType
<1>2. (p - 1) * size <= (TotalPages(rows, size) - 1) * size
  <2>1. p - 1 \in Int /\ TotalPages(rows, size) - 1 \in Int /\ p - 1 <= TotalPages(rows, size) - 1
    BY <1>1
  <2> QED
    BY <2>1, TimesGrows
<1>3. (p - 1) * size \in Nat /\ p * size = (p - 1) * size + size
      /\ (TotalPages(rows, size) - 1) * size \in Int /\ Len(rows) \in Nat
  BY <1>1
<1>4. i \in 1..Len(rows) /\ (p - 1) * size < i /\ i <= p * size
  BY <1>1, <1>2, <1>3
<1>5. i \in DOMAIN items
  BY <1>4
<1> HIDE DEF i
<1> QED
  BY <1>4, <1>5 DEF PageItems

-------------------------------------------------------------------------------
(* The invariant: what is in memory, and what is on the screen             *)

DataTyped ==
    /\ cache \in Seq(Rows) /\ view \in Views /\ saved \in Views \cup {None}
    /\ {query, typing, asking} \subseteq BOOLEAN /\ jump \in Filters \cup {None}
    /\ selected \subseteq Ids /\ deleting \subseteq Ids /\ dropped \in Seq(Rows)

ScreenTyped ==
    /\ page \in Nat \ {0} /\ {narrowed, blank, strayed} \subseteq BOOLEAN
    /\ shown \subseteq Ids /\ ticked \subseteq shown /\ listed \in Nat
    /\ toolbar \in [count : Nat, all : BOOLEAN]

TableInv ==
    /\ DataTyped /\ ScreenTyped
    /\ PageShowsRows /\ CountIsSelection /\ SelectedIsTicked /\ NarrowedObeysFilter

LEMMA IdsFinite ==
  ASSUME NEW S \in SUBSET Ids
  PROVE  IsFiniteSet(S) /\ Cardinality(S) \in Nat
<1>1. IsFiniteSet(S)
  BY TableAssumption, FS_Subset
<1> QED
  BY <1>1, FS_CardinalityType

LEMMA ViewFields ==
  ASSUME NEW v \in Views
  PROVE  v.sort \in Sorts /\ v.size \in Nat \ {0}
BY TableAssumption DEF Views

LEMMA ViewChip ==
  ASSUME NEW v \in Views, NEW f \in Filters, NEW t \in Menu
  PROVE  [v EXCEPT !.filter = f, !.tld = t] \in Views
BY DEF Views

LEMMA ToolbarUpdated ==
  ASSUME UpdateToolbar, selected' \subseteq Ids
  PROVE  toolbar' \in [count : Nat, all : BOOLEAN] /\ toolbar'.count = Cardinality(selected')
<1> DEFINE all == VisibleIds' # {} /\ VisibleIds' \subseteq selected'
<1>1. toolbar' = [count |-> Cardinality(selected'), all |-> all]
  BY DEF UpdateToolbar
<1>2. all \in BOOLEAN
  OBVIOUS
<1>3. Cardinality(selected') \in Nat
  BY IdsFinite
<1> HIDE DEF all
<1> QED
  BY <1>1, <1>2, <1>3

LEMMA TableInit == Init => TableInv
<1> SUFFICES ASSUME Init PROVE TableInv
  OBVIOUS
<1>1. view \in Views
  <2> DEFINE size == CHOOSE n \in PageSizes : TRUE
             look == CHOOSE l \in Looks : TRUE
  <2>1. size \in PageSizes /\ look \in Looks /\ "all" \in Filters /\ FALSE \in Menu
    BY TableAssumption
  <2>2. view = [sort |-> [field |-> "url", dir |-> 1], filter |-> "all", tld |-> FALSE,
                size |-> size, look |-> look]
    BY DEF Init
  <2> HIDE DEF size, look
  <2> QED
    BY <2>1, <2>2 DEF Views, Sorts
<1>2. saved \in Views \cup {None}
  <2>1. CASE saved = None
    BY <2>1
  <2>2. CASE saved # None
    <3>1. PICK f \in Filters : saved = [view EXCEPT !.filter = f]
      BY <2>2 DEF Init
    <3> QED
      BY <1>1, <3>1 DEF Views
  <2> QED
    BY <2>1, <2>2
<1>3. cache \in Seq(Rows) /\ dropped \in Seq(Rows)
  BY EmptySeq DEF Init
<1>4. DataTyped
  BY <1>1, <1>2, <1>3 DEF Init, DataTyped
<1>5. ScreenTyped
  <2>1. toolbar \in [count : Nat, all : BOOLEAN]
    BY DEF Init
  <2>2. narrowed \in BOOLEAN /\ blank \in BOOLEAN /\ strayed \in BOOLEAN
    BY DEF Init
  <2>3. page = 1 /\ shown = {} /\ ticked = {} /\ listed = 0
    BY DEF Init
  <2> QED
    BY <2>1, <2>2, <2>3 DEF ScreenTyped
<1>6. toolbar.count = 0 /\ selected = {} /\ Cardinality({}) = 0
  BY FS_EmptySet DEF Init
<1> QED
  BY <1>4, <1>5, <1>6
     DEF Init, TableInv, PageShowsRows, CountIsSelection, SelectedIsTicked, NarrowedObeysFilter

LEMMA TableInvIs ==
  TableInv => TypeOK /\ PageShowsRows /\ SelectionIsShown /\ NarrowedObeysFilter
BY DEF TableInv, TypeOK, DataTyped, ScreenTyped, SelectionIsShown

(* What a render of any rows leaves on the screen.                         *)
LEMMA Rendered ==
  ASSUME NEW rows \in Seq(Rows), NEW p \in Nat \ {0}, DataTyped', Render(rows, p)
  PROVE  /\ page' \in Nat \ {0} /\ blank' = FALSE /\ strayed' = FALSE /\ listed' \in Nat
         /\ shown' \subseteq Ids /\ ticked' = shown' \cap selected'
         /\ listed' > 0 => shown' # {}
         /\ \A i \in shown' : \E k \in DOMAIN rows : rows[k].id = i
<1> DEFINE items == SortDomains(rows, view'.sort)
<1>1. view'.sort \in Sorts /\ view'.size \in Nat \ {0}
  BY ViewFields DEF DataTyped
<1>2. /\ items \in Seq(Rows) /\ DOMAIN items = DOMAIN rows
      /\ \A k \in DOMAIN rows : \E i \in DOMAIN rows : items[k] = rows[i]
  BY <1>1, SortedRows
<1>3. /\ page' = IF p > TotalPages(rows, view'.size) THEN TotalPages(rows, view'.size) ELSE p
      /\ shown' = PageItems(items, page', view'.size)
      /\ ticked' = shown' \cap selected' /\ listed' = Len(rows) /\ blank' = FALSE /\ strayed' = FALSE
  BY DEF Render, Boxes
<1> HIDE DEF items
<1>4. page' \in Nat \ {0} /\ page' <= TotalPages(rows, view'.size)
  <2>1. TotalPages(rows, view'.size) \in Nat \ {0}
    BY <1>1, PagesType
  <2>2. \A q \in Nat \ {0} : LET m == IF p > q THEN q ELSE p IN m \in Nat \ {0} /\ m <= q
    OBVIOUS
  <2> QED
    BY <1>3, <2>1, <2>2, Zenon
<1>5. listed' > 0 => shown' # {}
  <2> SUFFICES ASSUME listed' > 0 PROVE shown' # {}
    OBVIOUS
  <2>1. rows # <<>>
    BY <1>3
  <2> QED
    BY <1>1, <1>2, <1>3, <1>4, <2>1, PageHasItem
<1>6. \A i \in shown' : \E k \in DOMAIN rows : rows[k].id = i
  BY <1>2, <1>3 DEF PageItems
<1>7. shown' \subseteq Ids
  <2>1. \A k \in DOMAIN rows : rows[k].id \in Ids
    BY Places DEF Rows
  <2> QED
    BY <1>6, <2>1
<1> QED
  BY <1>3, <1>4, <1>5, <1>6, <1>7

(* The toolbar after a render: an empty list leaves it as it was.          *)
LEMMA RenderEnds ==
  ASSUME TableInv, DataTyped', NEW rows, EndRender(rows), selected' = selected \/ rows # <<>>
  PROVE  toolbar' \in [count : Nat, all : BOOLEAN] /\ CountIsSelection'
<1>1. CASE rows = <<>>
  BY <1>1 DEF EndRender, TableInv, ScreenTyped, CountIsSelection
<1>2. CASE rows # <<>>
  <2>1. UpdateToolbar /\ selected' \subseteq Ids
    BY <1>2 DEF EndRender, DataTyped
  <2> QED
    BY <2>1, ToolbarUpdated DEF CountIsSelection
<1> QED
  BY <1>1, <1>2

(* The whole list is rendered, or a narrowed one.                          *)
LEMMA RenderAllKeeps ==
  ASSUME TableInv, DataTyped', RenderAll, selected' = selected
  PROVE  TableInv'
<1>1. /\ Render(cache', page) /\ EndRender(cache') /\ narrowed' = FALSE
      /\ cache' \in Seq(Rows) /\ page \in Nat \ {0}
  BY DEF RenderAll, TableInv, DataTyped, ScreenTyped
<1>2. /\ page' \in Nat \ {0} /\ blank' = FALSE /\ strayed' = FALSE /\ listed' \in Nat
      /\ shown' \subseteq Ids /\ ticked' = shown' \cap selected'
      /\ listed' > 0 => shown' # {}
  BY <1>1, Rendered
<1>3. toolbar' \in [count : Nat, all : BOOLEAN] /\ CountIsSelection'
  BY <1>1, RenderEnds
<1>4. ScreenTyped'
  BY <1>1, <1>2, <1>3 DEF ScreenTyped
<1> QED
  BY <1>1, <1>2, <1>3, <1>4 DEF TableInv, PageShowsRows, SelectedIsTicked, NarrowedObeysFilter

LEMMA ApplyKeeps ==
  ASSUME TableInv, DataTyped', NEW p \in Nat \ {0}, ApplyFilters(p),
         selected' = selected \/ Filtered(cache', view', query') # <<>>
  PROVE  TableInv'
<1> DEFINE rows == Filtered(cache', view', query')
<1>1. Render(rows, p) /\ EndRender(rows) /\ narrowed' = TRUE
  BY DEF ApplyFilters
<1>2. /\ rows \in Seq(Rows)
      /\ \A k \in DOMAIN rows :
           \E i \in DOMAIN cache' : /\ rows[k] = cache'[i]
                                    /\ query' => cache'[i].id \in Matching
                                    /\ Passes(cache'[i].status, view'.filter)
                                    /\ view'.tld => cache'[i].id \in InTld
  <2>1. cache' \in Seq(Rows)
    BY DEF DataTyped
  <2> QED
    BY <2>1, FilteredRows
<1>a. selected' = selected \/ rows # <<>>
  OBVIOUS
<1> HIDE DEF rows
<1>3. /\ page' \in Nat \ {0} /\ blank' = FALSE /\ strayed' = FALSE /\ listed' \in Nat
      /\ shown' \subseteq Ids /\ ticked' = shown' \cap selected'
      /\ listed' > 0 => shown' # {}
      /\ \A i \in shown' : \E k \in DOMAIN rows : rows[k].id = i
  BY <1>1, <1>2, Rendered
<1>4. toolbar' \in [count : Nat, all : BOOLEAN] /\ CountIsSelection'
  BY <1>1, <1>a, RenderEnds
<1>5. ScreenTyped'
  BY <1>1, <1>3, <1>4 DEF ScreenTyped
<1>6. NarrowedObeysFilter'
  <2> SUFFICES ASSUME NEW i \in shown'
               PROVE  /\ query' => i \in Matching
                      /\ view'.tld => i \in InTld
                      /\ \E r \in ToSet(cache') : r.id = i /\ Passes(r.status, view'.filter)
    BY DEF NarrowedObeysFilter
  <2>1. PICK k \in DOMAIN rows : rows[k].id = i
    BY <1>3
  <2>2. PICK j \in DOMAIN cache' : /\ rows[k] = cache'[j]
                                   /\ query' => cache'[j].id \in Matching
                                   /\ Passes(cache'[j].status, view'.filter)
                                   /\ view'.tld => cache'[j].id \in InTld
    BY <1>2, <2>1
  <2>3. cache'[j] \in ToSet(cache')
    BY <2>2 DEF ToSet
  <2> QED
    BY <2>1, <2>2, <2>3
<1> QED
  BY <1>3, <1>4, <1>5, <1>6 DEF TableInv, PageShowsRows, SelectedIsTicked

-------------------------------------------------------------------------------
(* Every action keeps the invariant                                        *)

(* Rows make way for a skeleton or an error.                               *)
LEMMA BlankKeeps ==
  ASSUME TableInv, DataTyped', blank' = TRUE, shown' = {}, ticked' = {}, strayed' = FALSE,
         UNCHANGED <<page, listed, narrowed, toolbar, selected>>
  PROVE  TableInv'
<1>1. ScreenTyped'
  BY DEF TableInv, ScreenTyped
<1> QED
  BY <1>1 DEF TableInv, PageShowsRows, CountIsSelection, SelectedIsTicked, NarrowedObeysFilter

LEMMA LoadsKeep ==
  ASSUME TableInv, BeginLoad \/ LoadAnswered \/ LoadFailed
  PROVE  TableInv'
<1>a. DataTyped
  BY DEF TableInv
<1>1. CASE BeginLoad
  <2>1. DataTyped'
    BY <1>a, <1>1 DEF BeginLoad, DataTyped
  <2> QED
    BY <1>1, <2>1, BlankKeeps DEF BeginLoad
<1>2. CASE LoadAnswered
  <2>1. cache' \in Seq(Rows)
    <3>1. PICK n \in 0..Cardinality(Ids) : cache' \in [1..n -> Rows]
      BY <1>2 DEF LoadAnswered, Answers
    <3>2. n \in Nat
      BY TableAssumption, FS_CardinalityType
    <3> QED
      BY <3>1, <3>2
  <2>2. view' \in Views
    BY <1>a, <1>2 DEF LoadAnswered, LoadViewPrefs, DataTyped
  <2>3. DataTyped'
    BY <1>a, <1>2, <2>1, <2>2 DEF LoadAnswered, DataTyped
  <2> QED
    BY <1>2, <2>3, RenderAllKeeps DEF LoadAnswered
<1>3. CASE LoadFailed
  <2>1. DataTyped'
    BY <1>a, <1>3 DEF LoadFailed, DataTyped
  <2> QED
    BY <1>3, <2>1, BlankKeeps DEF LoadFailed
<1> QED
  BY <1>1, <1>2, <1>3

LEMMA ChoicesKeep ==
  ASSUME TableInv,
         \/ ChooseChip \/ ChooseTld \/ ClearDomainFilters \/ ChooseLook \/ ChoosePageSize
         \/ GoToPage \/ Sort
  PROVE  TableInv'
<1>a. /\ DataTyped /\ view \in Views /\ cache \in Seq(Rows) /\ page \in Nat \ {0}
  BY DEF TableInv, DataTyped, ScreenTyped
<1>b. ASSUME view' \in Views, query' \in BOOLEAN, saved' = view',
             UNCHANGED <<cache, typing, jump, selected, Requests>>
      PROVE  DataTyped'
  BY <1>a, <1>b DEF DataTyped, Requests
<1>1. CASE ChooseChip
  <2>1. view' \in Views
    BY <1>a, <1>1 DEF ChooseChip, Views
  <2>2. UNCHANGED <<cache, query, typing, jump, selected, Requests>> /\ ApplyFilters(1) /\ saved' = view'
    BY <1>1 DEF ChooseChip, ApplyFilters
  <2>3. DataTyped'
    BY <1>a, <1>b, <2>1, <2>2 DEF DataTyped
  <2> QED
    BY <2>2, <2>3, ApplyKeeps
<1>2. CASE ChooseTld
  <2>1. view' \in Views
    BY <1>a, <1>2 DEF ChooseTld, Views
  <2>2. UNCHANGED <<cache, query, typing, jump, selected, Requests>> /\ ApplyFilters(1) /\ saved' = view'
    BY <1>2 DEF ChooseTld, ApplyFilters
  <2>3. DataTyped'
    BY <1>a, <1>b, <2>1, <2>2 DEF DataTyped
  <2> QED
    BY <2>2, <2>3, ApplyKeeps
<1>3. CASE ClearDomainFilters
  <2>1. view' \in Views
    BY <1>a, <1>3, TableAssumption DEF ClearDomainFilters, Views
  <2>2. UNCHANGED <<cache, typing, jump, selected, Requests>> /\ ApplyFilters(1) /\ saved' = view'
        /\ query' = FALSE
    BY <1>3 DEF ClearDomainFilters, ApplyFilters
  <2>3. DataTyped'
    BY <1>b, <2>1, <2>2
  <2> QED
    BY <2>2, <2>3, ApplyKeeps
<1>4. CASE ChooseLook
  <2>1. view' \in Views
    BY <1>a, <1>4 DEF ChooseLook, Views
  <2>2. UNCHANGED <<cache, query, typing, jump, selected, Requests>> /\ ApplyFilters(page) /\ saved' = view'
    BY <1>4 DEF ChooseLook, ApplyFilters
  <2>3. DataTyped'
    BY <1>a, <1>b, <2>1, <2>2 DEF DataTyped
  <2> QED
    BY <1>a, <2>2, <2>3, ApplyKeeps
<1>5. CASE ChoosePageSize
  <2>1. view' \in Views
    BY <1>a, <1>5 DEF ChoosePageSize, Views
  <2>2. UNCHANGED <<cache, query, typing, jump, selected, Requests>> /\ ApplyFilters(1) /\ saved' = view'
    BY <1>5 DEF ChoosePageSize, ApplyFilters
  <2>3. DataTyped'
    BY <1>a, <1>b, <2>1, <2>2 DEF DataTyped
  <2> QED
    BY <2>2, <2>3, ApplyKeeps
<1>6. CASE GoToPage
  <2>1. PICK p \in 1..TotalPages(Filtered(cache, view, query), view.size) :
          /\ UNCHANGED <<cache, view, query, typing, jump, selected, Requests>>
          /\ ApplyFilters(p)
    BY <1>6 DEF GoToPage
  <2>2. p \in Nat \ {0}
    <3>1. Filtered(cache, view, query) \in Seq(Rows) /\ view.size \in Nat \ {0}
      BY <1>a, FilteredRows, ViewFields
    <3>2. TotalPages(Filtered(cache, view, query), view.size) \in Nat \ {0}
      BY <3>1, PagesType
    <3> QED
      BY <3>2
  <2>3. DataTyped'
    BY <1>a, <1>b, <2>1 DEF DataTyped, ApplyFilters
  <2> QED
    BY <2>1, <2>2, <2>3, ApplyKeeps
<1>7. CASE Sort
  <2>1. view' \in Views
    <3>1. PICK f \in Fields :
            view' = [view EXCEPT !.sort = IF view.sort.field = f
                                          THEN [field |-> f, dir |-> -view.sort.dir]
                                          ELSE [field |-> f, dir |-> 1]]
      BY <1>7 DEF Sort
    <3>2. view.sort.dir \in {1, -1}
      BY <1>a, ViewFields DEF Sorts
    <3>3. [field |-> f, dir |-> -view.sort.dir] \in Sorts /\ [field |-> f, dir |-> 1] \in Sorts
      BY <3>2 DEF Sorts
    <3> QED
      BY <1>a, <3>1, <3>3 DEF Views
  <2>2. UNCHANGED <<cache, saved, query, typing, jump, selected, Requests>> /\ RenderAll
    BY <1>7 DEF Sort
  <2>3. DataTyped'
    BY <1>a, <2>1, <2>2 DEF DataTyped, Requests
  <2> QED
    BY <2>2, <2>3, RenderAllKeeps
<1> QED
  BY <1>1, <1>2, <1>3, <1>4, <1>5, <1>6, <1>7

LEMMA TimersKeep ==
  ASSUME TableInv, Type \/ SearchFires \/ FilterFromDashboard \/ JumpFires
  PROVE  TableInv'
<1>a. /\ DataTyped /\ ScreenTyped /\ view \in Views /\ page \in Nat \ {0}
      /\ \A f \in Filters : [view EXCEPT !.filter = f, !.tld = FALSE] \in Views
  <2>1. view \in Views /\ FALSE \in Menu
    BY TableAssumption DEF TableInv, DataTyped
  <2>2. \A f \in Filters : [view EXCEPT !.filter = f, !.tld = FALSE] \in Views
    BY <2>1, ViewChip
  <2> QED
    BY <2>1, <2>2 DEF TableInv, ScreenTyped
<1>1. CASE Type
  <2>1. DataTyped'
    <3>1. query' \in BOOLEAN /\ typing' \in BOOLEAN
      BY <1>1 DEF Type
    <3> QED
      BY <1>a, <1>1, <3>1 DEF Type, DataTyped, Requests
  <2>2. ScreenTyped'
    <3>1. ScreenTyped /\ page' = 1 /\ UNCHANGED <<narrowed, blank, strayed, shown, ticked, listed, toolbar>>
      BY <1>a, <1>1 DEF Type
    <3> QED
      BY <3>1 DEF ScreenTyped
  <2> QED
    BY <1>1, <2>1, <2>2
       DEF Type, TableInv, PageShowsRows, CountIsSelection, SelectedIsTicked, NarrowedObeysFilter
<1>2. CASE SearchFires
  <2>1. /\ UNCHANGED <<cache, view, query, jump, selected, Requests>> /\ ApplyFilters(page)
        /\ saved' = view' /\ typing' = FALSE
    BY <1>2 DEF SearchFires, ApplyFilters
  <2>2. DataTyped'
    BY <1>a, <2>1 DEF DataTyped, Requests
  <2> QED
    BY <1>a, <2>1, <2>2, ApplyKeeps
<1>3. CASE FilterFromDashboard
  <2>1. PICK f \in Filters \ {"all"} :
         IF cache # <<>>
         THEN /\ view' = [view EXCEPT !.filter = f, !.tld = FALSE]
              /\ query' = FALSE
              /\ UNCHANGED <<cache, typing, jump, selected, deleting, dropped>>
              /\ ApplyFilters(1)
         ELSE /\ jump' = f /\ blank' = TRUE /\ shown' = {} /\ ticked' = {} /\ strayed' = FALSE
              /\ UNCHANGED <<cache, view, saved, page, query, typing, listed, narrowed,
                             selected, toolbar, deleting, dropped>>
    BY <1>3 DEF FilterFromDashboard
  <2>2. asking' = TRUE
    BY <1>3 DEF FilterFromDashboard
  <2>3. CASE cache # <<>>
    <3>1. /\ view' \in Views /\ query' = FALSE /\ saved' = view' /\ ApplyFilters(1)
          /\ UNCHANGED <<cache, typing, jump, selected, deleting, dropped>>
      BY <1>a, <2>1, <2>3 DEF ApplyFilters
    <3>2. DataTyped'
      BY <1>a, <2>2, <3>1 DEF DataTyped
    <3> QED
      BY <3>1, <3>2, ApplyKeeps
  <2>4. CASE ~(cache # <<>>)
    <3>1. /\ jump' = f /\ blank' = TRUE /\ shown' = {} /\ ticked' = {} /\ strayed' = FALSE
          /\ UNCHANGED <<cache, view, saved, page, query, typing, listed, narrowed,
                         selected, toolbar, deleting, dropped>>
      BY <2>1, <2>4
    <3>2. DataTyped'
      BY <1>a, <2>2, <3>1 DEF DataTyped
    <3> QED
      BY <3>1, <3>2, BlankKeeps
  <2> QED
    BY <2>3, <2>4
<1>4. CASE JumpFires
  <2>1. /\ view' = [view EXCEPT !.filter = jump, !.tld = FALSE] /\ jump \in Filters /\ jump' = None
        /\ UNCHANGED <<cache, typing, selected, Requests>> /\ ApplyFilters(1) /\ saved' = view'
    BY <1>a, <1>4 DEF JumpFires, ApplyFilters, DataTyped
  <2>2. query' \in BOOLEAN
    BY <1>4 DEF JumpFires
  <2>3. view' \in Views
    BY <1>a, <2>1
  <2>4. DataTyped'
    BY <1>a, <2>1, <2>2, <2>3 DEF DataTyped, Requests
  <2> QED
    BY <2>1, <2>4, ApplyKeeps
<1> QED
  BY <1>1, <1>2, <1>3, <1>4

LEMMA SelectionKeeps ==
  ASSUME TableInv,
         \/ \E i \in Ids : Tick(i)
         \/ SelectAll \/ SelectByKey \/ DeselectAll \/ BulkCheck
  PROVE  TableInv'
<1>a. /\ DataTyped /\ ScreenTyped /\ page \in Nat \ {0} /\ cache \in Seq(Rows) /\ view \in Views
      /\ shown \subseteq Ids /\ ticked \subseteq shown /\ selected \subseteq Ids
      /\ PageShowsRows /\ SelectedIsTicked /\ NarrowedObeysFilter
  BY DEF TableInv, DataTyped, ScreenTyped
<1>b. VisibleIds \subseteq Ids /\ (VisibleIds # {} => Filtered(cache, view, query) # <<>>)
  <2>1. Filtered(cache, view, query) \in Seq(Rows)
    BY <1>a, FilteredRows
  <2>2. \A k \in DOMAIN Filtered(cache, view, query) : Filtered(cache, view, query)[k].id \in Ids
    BY <2>1, Places DEF Rows
  <2>3. Filtered(cache, view, query) = <<>> => DOMAIN Filtered(cache, view, query) = {}
    OBVIOUS
  <2> QED
    BY <2>2, <2>3 DEF VisibleIds, PageItems
(* A click on boxes: only ticks, selection and toolbar change.             *)
<1>c. ASSUME UNCHANGED <<cache, view, saved, page, query, typing, jump, shown, listed, narrowed,
                         blank, Requests>>,
             UpdateToolbar, selected' \subseteq Ids, ticked' \subseteq shown, strayed' \in BOOLEAN,
             ~strayed' => selected' \cap shown \subseteq ticked'
      PROVE  TableInv'
  <2>1. DataTyped'
    BY <1>a, <1>c DEF DataTyped, Requests
  <2>2. toolbar' \in [count : Nat, all : BOOLEAN] /\ CountIsSelection'
    BY <1>c, ToolbarUpdated DEF CountIsSelection
  <2>3. ScreenTyped'
    BY <1>a, <1>c, <2>2 DEF ScreenTyped
  <2>4. PageShowsRows' /\ SelectedIsTicked' /\ NarrowedObeysFilter'
    BY <1>a, <1>c DEF PageShowsRows, SelectedIsTicked, NarrowedObeysFilter
  <2> QED
    BY <2>1, <2>2, <2>3, <2>4 DEF TableInv
<1>1. ASSUME NEW i \in Ids, Tick(i) PROVE TableInv'
  <2>1. /\ UNCHANGED <<cache, view, saved, page, query, typing, jump, shown, listed, narrowed,
                       blank, Requests, strayed>>
        /\ UpdateToolbar /\ i \in shown
        /\ \/ ticked' = ticked \ {i} /\ selected' = selected \ {i}
           \/ ticked' = ticked \cup {i} /\ selected' = selected \cup {i}
    BY <1>1 DEF Tick
  <2>2. selected' \subseteq Ids /\ ticked' \subseteq shown /\ strayed' \in BOOLEAN
    BY <1>a, <2>1 DEF ScreenTyped
  <2>3. ~strayed' => selected' \cap shown \subseteq ticked'
    BY <1>a, <2>1 DEF SelectedIsTicked
  <2> QED
    BY <1>c, <2>1, <2>2, <2>3
<1>2. CASE SelectAll
  <2>1. /\ UNCHANGED <<cache, view, saved, page, query, typing, jump, shown, listed, narrowed,
                       blank, Requests>>
        /\ UpdateToolbar /\ strayed' = (strayed \/ ~(selected' \cap shown \subseteq ticked'))
        /\ ticked' = {} \/ ticked' = shown
        /\ selected' = selected \ VisibleIds \/ selected' = selected \cup VisibleIds
    BY <1>2 DEF SelectAll
  <2>2. selected' \subseteq Ids /\ ticked' \subseteq shown
    BY <1>a, <1>b, <2>1
  <2>3. strayed' \in BOOLEAN /\ (~strayed' => selected' \cap shown \subseteq ticked')
    BY <2>1
  <2> QED
    BY <1>c, <2>1, <2>2, <2>3
<1>3. CASE SelectByKey
  <2>1. /\ UNCHANGED <<cache, view, query, typing, jump, Requests>> /\ ApplyFilters(page)
        /\ saved' = view'
    BY <1>3 DEF SelectByKey, ApplyFilters
  <2>2. selected' \subseteq Ids /\ (selected' = selected \/ VisibleIds # {})
    BY <1>3, <1>a, <1>b DEF SelectByKey
  <2>3. DataTyped'
    BY <1>a, <2>1, <2>2 DEF DataTyped, Requests
  <2>4. selected' = selected \/ Filtered(cache', view', query') # <<>>
    BY <1>b, <2>1, <2>2
  <2> QED
    BY <1>a, <2>1, <2>3, <2>4, ApplyKeeps
<1>4. CASE DeselectAll
  <2>1. /\ UNCHANGED <<cache, view, saved, page, query, typing, jump, shown, listed, narrowed,
                       blank, Requests, strayed>>
        /\ UpdateToolbar /\ selected' = {} /\ ticked' = {} /\ strayed' \in BOOLEAN
    BY <1>4, <1>a DEF DeselectAll, ScreenTyped
  <2> QED
    BY <1>c, <2>1
<1>5. CASE BulkCheck
  <2>1. /\ UNCHANGED <<cache, view, saved, page, query, typing, jump, shown, listed, narrowed,
                       blank, ticked, Requests, strayed>>
        /\ UpdateToolbar /\ selected' = {} /\ strayed' \in BOOLEAN
    BY <1>5, <1>a DEF BulkCheck, ScreenTyped
  <2> QED
    BY <1>a, <1>c, <2>1
<1> QED
  BY <1>1, <1>2, <1>3, <1>4, <1>5

LEMMA DeletionsKeep ==
  ASSUME TableInv,
         \/ \E i \in Ids : Drop(i)
         \/ BulkDelete \/ BulkDeleted \/ DropDone \/ DropFailed
  PROVE  TableInv'
<1>a. /\ DataTyped /\ ScreenTyped /\ page \in Nat \ {0} /\ cache \in Seq(Rows) /\ dropped \in Seq(Rows)
      /\ selected \subseteq Ids
  BY DEF TableInv, DataTyped, ScreenTyped
<1>1. ASSUME NEW i \in Ids, Drop(i) PROVE TableInv'
  <2>1. PICK k \in DOMAIN cache : dropped' = <<cache[k]>> /\ cache' = RemoveAt(cache, k)
    BY <1>1 DEF Drop
  <2>2. /\ UNCHANGED <<view, saved, query, typing, jump, selected, asking, deleting>>
        /\ RenderAll
    BY <1>1 DEF Drop
  <2>3. dropped' \in Seq(Rows)
    <3>1. cache[k] \in Rows
      BY <1>a
    <3> QED
      BY <2>1, <3>1
  <2>4. cache' \in Seq(Rows)
    BY <1>a, <2>1, RemoveAtSeq
  <2>5. DataTyped'
    BY <1>a, <2>2, <2>3, <2>4 DEF DataTyped
  <2> QED
    BY <2>2, <2>5, RenderAllKeeps
<1>2. ASSUME BulkDelete \/ DropDone PROVE TableInv'
  <2>1. UNCHANGED <<cache, view, saved, page, query, typing, jump, shown, listed, narrowed,
                    blank, selected, ticked, toolbar, asking, strayed>>
    BY <1>2 DEF BulkDelete, DropDone
  <2>2. deleting' \subseteq Ids /\ dropped' \in Seq(Rows)
    BY <1>2, <1>a, EmptySeq DEF BulkDelete, DropDone, DataTyped
  <2>3. DataTyped'
    BY <1>a, <2>1, <2>2 DEF DataTyped
  <2>4. ScreenTyped'
    BY <1>a, <2>1 DEF ScreenTyped
  <2> QED
    BY <2>1, <2>3, <2>4
       DEF TableInv, PageShowsRows, CountIsSelection, SelectedIsTicked, NarrowedObeysFilter
<1>3. CASE BulkDeleted
  <2>1. PICK ok \in SUBSET deleting : cache' = Keep(cache, {k \in DOMAIN cache : cache[k].id \notin ok})
    BY <1>3 DEF BulkDeleted
  <2>2. cache' \in Seq(Rows)
    <3>1. {k \in DOMAIN cache : cache[k].id \notin ok} \in SUBSET DOMAIN cache
      OBVIOUS
    <3> QED
      BY <1>a, <2>1, <3>1, KeepRows
  <2>3. /\ UNCHANGED <<view, saved, query, typing, jump, asking, dropped>>
        /\ selected' = {} /\ deleting' = {}
        /\ Render(cache', page) /\ UpdateToolbar /\ narrowed' = FALSE
    BY <1>3 DEF BulkDeleted
  <2>4. DataTyped'
    BY <1>a, <2>2, <2>3 DEF DataTyped
  <2>5. /\ page' \in Nat \ {0} /\ blank' = FALSE /\ strayed' = FALSE /\ listed' \in Nat
        /\ shown' \subseteq Ids /\ ticked' = shown' \cap selected'
        /\ listed' > 0 => shown' # {}
    BY <1>a, <2>2, <2>3, <2>4, Rendered
  <2>6. toolbar' \in [count : Nat, all : BOOLEAN] /\ CountIsSelection'
    BY <2>3, ToolbarUpdated DEF CountIsSelection
  <2>7. ScreenTyped'
    BY <2>3, <2>5, <2>6 DEF ScreenTyped
  <2> QED
    BY <2>3, <2>4, <2>5, <2>6, <2>7 DEF TableInv, PageShowsRows, SelectedIsTicked, NarrowedObeysFilter
<1>4. CASE DropFailed
  <2>1. /\ UNCHANGED <<view, saved, query, typing, jump, selected, asking, deleting>>
        /\ RenderAll /\ cache' = cache \o dropped /\ dropped' = <<>>
    BY <1>4 DEF DropFailed
  <2>2. cache' \in Seq(Rows) /\ dropped' \in Seq(Rows)
    BY <1>a, <2>1, EmptySeq
  <2>3. DataTyped'
    BY <1>a, <2>1, <2>2 DEF DataTyped
  <2> QED
    BY <2>1, <2>3, RenderAllKeeps
<1> QED
  BY <1>1, <1>2, <1>3, <1>4

LEMMA TableStep == TableInv /\ [Next]_vars => TableInv'
<1> SUFFICES ASSUME TableInv, [Next]_vars PROVE TableInv'
  OBVIOUS
<1>1. CASE UNCHANGED vars
  <2>1. DataTyped' /\ ScreenTyped'
    BY <1>1 DEF vars, TableInv, DataTyped, ScreenTyped
  <2> QED
    BY <1>1, <2>1
       DEF vars, TableInv, PageShowsRows, CountIsSelection, SelectedIsTicked, NarrowedObeysFilter
<1>2. CASE Next
  BY <1>2, LoadsKeep, ChoicesKeep, TimersKeep, SelectionKeeps, DeletionsKeep DEF Next
<1> QED
  BY <1>1, <1>2

-------------------------------------------------------------------------------
(* Theorems *)

(* For any domains, statuses and page sizes: every variable of the domain   *)
(* list holds values of its type.                                           *)
THEOREM TableTypeCorrect == Spec => []TypeOK
BY TableInit, TableStep, TableInvIs, PTL DEF Spec

(* A rendered list with rows never shows an empty page, however many rows   *)
(* there are, whatever their size of a page and whatever is deleted.        *)
THEOREM PagesHaveRows == Spec => []PageShowsRows
BY TableInit, TableStep, TableInvIs, PTL DEF Spec

(* For any number of rows: the toolbar counts what a bulk operation takes,  *)
(* and a row on the screen that it takes is ticked, but for Select All over *)
(* a list it does not cover.                                                *)
THEOREM SelectionIsSeen == Spec => []SelectionIsShown
BY TableInit, TableStep, TableInvIs, PTL DEF Spec

(* For any rows, chips, menus and searches: what applyDomainFilters shows   *)
(* passes all three until the list changes or is rendered whole.            *)
THEOREM FilterIsObeyed == Spec => []NarrowedObeysFilter
BY TableInit, TableStep, TableInvIs, PTL DEF Spec
===============================================================================
