---------------------------- MODULE StorageProofs ----------------------------
(* For any saves of regions: an answered save is never undone               *)
(* by one that was superseded, and only a broken save loses the regions.    *)
(* For any page size: a reader of the alarm list misses no row that stays.  *)
(* And the pictures of the run are those of RetentionProofs.                *)
EXTENDS MCStorage, FiniteSetTheorems, TLAPS

-----------------------------------------------------------------------------
(* Regions (Zones).                                                         *)

\* A save that has passed its delete leaves no row of a save it supersedes behind.
PassedDelete == \A s \in Saves : at[s] \in {"insert", "saved", "lost"}
                  => \A i \in 1 .. Len(rows) : rows[i] \notin before[s]

\* Only answered saves are superseded.
BeforeIsSaved == \A s \in Saves : before[s] \subseteq Saved

\* An empty table has a save to blame.
EmptyIsExplained ==
  rows = << >> /\ Saved # {} => \E s \in Saves : at[s] \in {"insert", "lost"}

\* NoSuperseded is not inductive by itself: a save about to insert must not be among
\* those that an answered one has superseded, which BeforeIsSaved says.
IInv == TypeOK /\ PassedDelete /\ BeforeIsSaved /\ EmptyIsExplained

\* The table after an insert.
LEMMA AppendFacts ==
  ASSUME NEW s \in Saves, rows \in Seq(Saves)
  PROVE  /\ Append(rows, s) \in Seq(Saves)
         /\ Append(rows, s) # << >>
         /\ Len(Append(rows, s)) = Len(rows) + 1 /\ Len(rows) \in Nat
         /\ \A i \in 1 .. Len(rows) : Append(rows, s)[i] = rows[i]
         /\ Append(rows, s)[Len(rows) + 1] = s
OBVIOUS

LEMMA InitInv == Init => IInv
<1> SUFFICES ASSUME Init
             PROVE  IInv
  OBVIOUS
<1>1. TypeOK
  BY DEF Init, TypeOK, IsInjective
<1> QED
  BY <1>1 DEF Init, IInv, PassedDelete, BeforeIsSaved, EmptyIsExplained, Saved

\* A step that only moves a save leaves the table to the invariant.
LEMMA RequestKeeps == ASSUME IInv, NEW s \in Saves, Request(s) PROVE IInv'
<1> USE DEF IInv
<1>1. TypeOK'
  BY DEF Request, TypeOK, Saved
<1>2. Saved' = Saved
  BY DEF Request, TypeOK, Saved
<1>3. (PassedDelete /\ BeforeIsSaved)'
  BY <1>2 DEF Request, TypeOK, PassedDelete, BeforeIsSaved
<1>4. EmptyIsExplained'
  BY <1>2 DEF Request, TypeOK, EmptyIsExplained
<1> QED
  BY <1>1, <1>3, <1>4

LEMMA DeleteKeeps == ASSUME IInv, NEW s \in Saves, Delete(s) PROVE IInv'
<1> USE DEF IInv
<1>1. Saved' = Saved
  BY DEF Delete, TypeOK, Saved
<1>2. CASE at' = [at EXCEPT ![s] = "insert"] /\ rows' = << >>
  <2>1. TypeOK'
    BY <1>2 DEF Delete, TypeOK, IsInjective
  <2>2. at'[s] = "insert"
    BY <1>2 DEF TypeOK
  <2> QED
    BY <1>1, <1>2, <2>1, <2>2
    DEF Delete, PassedDelete, BeforeIsSaved, EmptyIsExplained
<1>3. CASE at' = [at EXCEPT ![s] = "failed"] /\ UNCHANGED rows
  <2>1. TypeOK'
    BY <1>3 DEF Delete, TypeOK
  <2>2. (PassedDelete /\ BeforeIsSaved)'
    BY <1>1, <1>3 DEF Delete, TypeOK, PassedDelete, BeforeIsSaved
  <2>3. EmptyIsExplained'
    BY <1>1, <1>3 DEF Delete, TypeOK, EmptyIsExplained
  <2> QED
    BY <2>1, <2>2, <2>3
<1> QED
  BY <1>2, <1>3 DEF Delete

LEMMA InsertKeeps == ASSUME IInv, NEW s \in Saves, Insert(s) PROVE IInv'
<1> USE DEF IInv
<1>1. CASE at' = [at EXCEPT ![s] = "saved"] /\ rows' = Append(rows, s)
  <2>1. at[s] = "insert" /\ s \notin Saved /\ Saved' = Saved \union {s}
    BY <1>1 DEF Insert, TypeOK, Saved
  <2>2. /\ Len(rows') = Len(rows) + 1 /\ Len(rows) \in Nat
        /\ \A i \in 1 .. Len(rows) : rows'[i] = rows[i]
        /\ rows'[Len(rows) + 1] = s
        /\ rows' \in Seq(Saves) /\ rows' # << >>
    BY <1>1, AppendFacts DEF TypeOK
  <2>3. \A i \in 1 .. Len(rows) : rows[i] \in Saved
    BY DEF TypeOK, Saved
  <2>4. IsInjective(rows')
    <3>1. DOMAIN rows = 1 .. Len(rows) /\ DOMAIN rows' = 1 .. Len(rows')
      BY <2>2 DEF TypeOK
    <3>2. \A a, b \in 1 .. Len(rows) : rows[a] = rows[b] => a = b
      BY <3>1 DEF TypeOK, IsInjective
    <3>3. \A a, b \in 1 .. Len(rows) + 1 : rows'[a] = rows'[b] => a = b
      BY <2>1, <2>2, <2>3, <3>2
    <3> QED
      BY <2>2, <3>1, <3>3 DEF IsInjective
  <2>5. \A i \in 1 .. Len(rows') : at'[rows'[i]] = "saved"
    BY <1>1, <2>1, <2>2, <2>3 DEF TypeOK, Saved
  <2>6. TypeOK'
    BY <1>1, <2>2, <2>4, <2>5 DEF Insert, TypeOK
  <2>7. BeforeIsSaved'
    BY <2>1 DEF Insert, BeforeIsSaved
  <2>8. PassedDelete'
    <3> SUFFICES ASSUME NEW t \in Saves, at'[t] \in {"insert", "saved", "lost"},
                        NEW i \in 1 .. Len(rows')
                 PROVE  rows'[i] \notin before[t]
      BY DEF PassedDelete, Insert
    <3>1. at[t] \in {"insert", "saved", "lost"}
      BY <1>1, <2>1 DEF TypeOK
    <3>2. CASE i = Len(rows) + 1
      BY <2>1, <2>2, <3>2 DEF BeforeIsSaved
    <3>3. CASE i \in 1 .. Len(rows)
      BY <2>2, <3>1, <3>3 DEF PassedDelete
    <3> QED
      BY <2>2, <3>2, <3>3
  <2> QED
    BY <2>2, <2>6, <2>7, <2>8 DEF EmptyIsExplained
<1>2. CASE at' = [at EXCEPT ![s] = "lost"] /\ UNCHANGED rows
  <2>1. Saved' = Saved /\ at'[s] = "lost"
    BY <1>2 DEF Insert, TypeOK, Saved
  <2>2. TypeOK'
    BY <1>2 DEF Insert, TypeOK
  <2>3. (PassedDelete /\ BeforeIsSaved)'
    BY <1>2, <2>1 DEF Insert, TypeOK, PassedDelete, BeforeIsSaved
  <2> QED
    BY <2>1, <2>2, <2>3 DEF EmptyIsExplained
<1> QED
  BY <1>1, <1>2 DEF Insert

LEMMA RestartKeeps == ASSUME IInv, Restart PROVE IInv'
<1> USE DEF IInv
<1>1. \A s \in Saves : /\ at'[s] = "saved" <=> at[s] = "saved"
                       /\ at'[s] \in {"insert", "saved", "lost"}
                            => at[s] \in {"insert", "saved", "lost"}
                       /\ at[s] \in {"insert", "lost"} => at'[s] = "lost"
  BY DEF Restart, TypeOK
<1>2. Saved' = Saved
  BY <1>1 DEF Saved
<1>3. TypeOK'
  <2>1. \A i \in 1 .. Len(rows) : rows[i] \in Saves
    BY DEF TypeOK
  <2> QED
    BY <1>1, <2>1 DEF Restart, TypeOK
<1>4. (PassedDelete /\ BeforeIsSaved)'
  BY <1>1, <1>2 DEF Restart, PassedDelete, BeforeIsSaved
<1>5. EmptyIsExplained'
  BY <1>1, <1>2 DEF Restart, EmptyIsExplained
<1> QED
  BY <1>3, <1>4, <1>5

LEMMA NextInv == IInv /\ [Next]_vars => IInv'
<1> SUFFICES ASSUME IInv, [Next]_vars
             PROVE  IInv'
  OBVIOUS
<1>1. ASSUME NEW s \in Saves, SaveZones(s)
      PROVE  IInv'
  BY <1>1, RequestKeeps, DeleteKeeps, InsertKeeps DEF SaveZones
<1>2. CASE Restart
  BY <1>2, RestartKeeps
<1>3. CASE UNCHANGED vars
  <2>1. Saved' = Saved
    BY <1>3 DEF vars, Saved
  <2> QED
    BY <1>3, <2>1 DEF vars, IInv, TypeOK, PassedDelete, BeforeIsSaved, EmptyIsExplained
<1> QED
  BY <1>1, <1>2, <1>3 DEF Next

\* The invariant holds in every reachable state.
THEOREM ZonesInvariance == Spec => []IInv
BY InitInv, NextInv, PTL DEF Spec

LEMMA InvKeepsRegions == IInv => RegionsKept
BY DEF IInv, TypeOK, PassedDelete, EmptyIsExplained, RegionsKept, NoSuperseded,
       LostOnlyByBrokenSave, Saved, InProgress

\* No configuration that an answered save had superseded is in the table, and the
\* regions are lost only by a save that broke (deviceService.go, SaveZones).
THEOREM RegionsAlwaysKept == Spec => []RegionsKept
BY InvKeepsRegions, ZonesInvariance, PTL

-----------------------------------------------------------------------------
(* The list of alarms (Paging).                                             *)

\* The module counts with the operator of its own instance of FiniteSets.
LEMMA CountIs == \A S : List!Cardinality(S) = Cardinality(S)
BY Zenon DEF List!Cardinality, Cardinality, List!IsFiniteSet, IsFiniteSet

\* The rows before r in the list, in any order of those of one second.
Newer(r) == {s \in List!Matching : s.at > r.at}

\* No other row of the list, there or removed since, has the second of r.
Untied(r) == \A s \in ever \ {r} : ~(s.at = r.at /\ stream \in {List!Any, s.stream})

\* A row that the reader has not got is still ahead of it: no fewer rows are newer
\* than the reader has passed, because rows newer than one that stays stay as well.
Ahead(r) == page > 0 => full /\ Cardinality(Newer(r)) >= (page - 1) * PageSize

NothingPassed ==
  \A r \in start \intersect alarms :
    r \notin seen /\ stream \in {List!Any, r.stream} /\ Untied(r) => Ahead(r)

\* Keys are never given twice, so a row that was removed does not come back.
KeysFresh == \A r \in ever : r.id <= lastId

\* Before the scan there is nothing to miss.
BeforeScan == page = 0 => full /\ start = {} /\ seen = {}

ListInv ==
  /\ List!PagingAssumption /\ List!TypeOK /\ IsFiniteSet(ever)
  /\ List!PagesBounded /\ KeysFresh /\ BeforeScan /\ NothingPassed

-----------------------------------------------------------------------------
LEMMA RowFacts ==
  ASSUME List!PagingAssumption, NEW r \in List!Row
  PROVE  r.id \in Int /\ r.at \in Int
<1>1. r.id \in 1 .. MaxRows /\ r.at \in Seconds
  BY DEF List!Row
<1>2. Seconds \subseteq Nat
  BY DEF List!PagingAssumption
<1>3. r.at \in Nat
  BY <1>1, <1>2
<1>4. r.id \in Int
  BY <1>1
<1> QED
  BY <1>3, <1>4

LEMMA FiniteList ==
  ASSUME ListInv
  PROVE  /\ IsFiniteSet(alarms) /\ IsFiniteSet(List!Matching) /\ List!Matching \subseteq alarms
         /\ IsFiniteSet(seen) /\ alarms \subseteq List!Row
         /\ \A r : IsFiniteSet(Newer(r)) /\ Cardinality(Newer(r)) \in Nat
<1>1. /\ List!Matching \subseteq alarms /\ alarms \subseteq ever /\ seen \subseteq ever
      /\ ever \subseteq List!Row
  BY DEF List!Matching, ListInv, List!TypeOK
<1>2. IsFiniteSet(alarms) /\ IsFiniteSet(seen)
  BY <1>1, FS_Subset DEF ListInv
<1>3. IsFiniteSet(List!Matching)
  BY <1>1, <1>2, FS_Subset
<1>4. ASSUME NEW r
      PROVE  IsFiniteSet(Newer(r)) /\ Cardinality(Newer(r)) \in Nat
  <2>1. Newer(r) \subseteq List!Matching
    BY DEF Newer
  <2> QED
    BY <1>3, <2>1, FS_Subset, FS_CardinalityType
<1> QED
  BY <1>1, <1>2, <1>3, <1>4

\* The offset of a page that is asked for.
LEMMA Offsets ==
  ASSUME List!PagingAssumption, page \in 1 .. MaxPage
  PROVE  LET o == (page - 1) * PageSize IN
         /\ o \in Nat /\ o + PageSize = page * PageSize
         /\ List!NewPageOption(page, PageSize) = [offset |-> o, limit |-> PageSize]
<1>1. page \in Nat /\ page >= 1 /\ PageSize \in Nat /\ PageSize > 0 /\ page <= MaxPage
  BY DEF List!PagingAssumption
<1>2. (page - 1) * PageSize \in Nat /\ (page - 1) * PageSize + PageSize = page * PageSize
  <2>1. \A n, m \in Nat : (n >= 1 => (n - 1) * m \in Nat) /\ (n - 1) * m + m = n * m
    OBVIOUS
  <2> QED
    BY <1>1, <2>1
<1>3. List!NewPageOption(page, PageSize) = [offset |-> (page - 1) * PageSize, limit |-> PageSize]
  BY <1>1 DEF List!NewPageOption, List!PagingAssumption
<1> QED
  BY <1>2, <1>3

LEMMA PageIs ==
  ASSUME ListInv, page \in 1 .. MaxPage, NEW p \in List!Pages(page)
  PROVE  LET o == (page - 1) * PageSize IN
         \E h \in List!Heads(o), t \in List!Heads(o + PageSize) : h \subseteq t /\ p = t \ h
<1> DEFINE o == (page - 1) * PageSize
<1>1. o \in Nat /\ List!NewPageOption(page, PageSize) = [offset |-> o, limit |-> PageSize]
  BY Offsets DEF ListInv
<1>2. (IF o > 0 THEN o ELSE 0) = o
  BY <1>1
<1> HIDE DEF o
<1>3. [offset |-> o, limit |-> PageSize].offset = o
      /\ [offset |-> o, limit |-> PageSize].limit = PageSize
  OBVIOUS
<1>4. \E h \in List!Heads(o), t \in List!Heads(o + PageSize) : h \subseteq t /\ p = t \ h
  BY <1>1, <1>2, <1>3 DEF List!Pages
<1> QED
  BY <1>4 DEF o

LEMMA HeadFacts ==
  ASSUME ListInv, NEW n \in Nat, NEW h \in List!Heads(n)
  PROVE  /\ h \subseteq List!Matching /\ IsFiniteSet(h) /\ Cardinality(h) \in Nat
         /\ Cardinality(List!Matching) \in Nat
         /\ Cardinality(h) <= n /\ Cardinality(h) <= Cardinality(List!Matching)
         /\ Cardinality(h) < n => h = List!Matching
         /\ \A r \in h, s \in List!Matching \ h : r.at >= s.at
<1>1. h \in SUBSET List!Matching /\ IsFiniteSet(List!Matching)
  BY FiniteList DEF List!Heads
<1>2. /\ IsFiniteSet(h) /\ Cardinality(h) \in Nat /\ Cardinality(List!Matching) \in Nat
      /\ Cardinality(h) = Cardinality(List!Matching) => h = List!Matching
  BY <1>1, FS_Subset, FS_CardinalityType
<1>3. /\ Cardinality(h) = IF n < Cardinality(List!Matching) THEN n ELSE Cardinality(List!Matching)
      /\ \A r \in h, s \in List!Matching \ h : r.at >= s.at
  BY CountIs DEF List!Heads
<1> QED
  BY <1>1, <1>2, <1>3

-----------------------------------------------------------------------------
\* An untied row that is ahead of the reader is on the page it gets, or behind it; and
\* a page before the row is not empty.
LEMMA PageShows ==
  ASSUME ListInv, page \in 1 .. MaxPage, NEW p \in List!Pages(page),
         NEW r \in List!Matching, Untied(r), Ahead(r), r \notin p
  PROVE  p # {} /\ Cardinality(Newer(r)) >= page * PageSize
<1> DEFINE o == (page - 1) * PageSize
           n == Cardinality(Newer(r))
<1>1. /\ o \in Nat /\ o + PageSize = page * PageSize
      /\ PageSize \in Nat /\ PageSize > 0 /\ n \in Nat /\ n >= o
  BY Offsets, FiniteList DEF ListInv, List!PagingAssumption, Ahead
<1>2. PICK h \in List!Heads(o), t \in List!Heads(o + PageSize) : h \subseteq t /\ p = t \ h
  BY PageIs
<1>3. /\ List!Matching \subseteq ever /\ List!Matching \subseteq List!Row
  BY FiniteList DEF ListInv, List!TypeOK
<1>4. \A s \in List!Matching \ {r} : s.at # r.at
  BY <1>3 DEF Untied, List!Matching
<1> HIDE DEF o
<1>5. r \notin h
  <2> SUFFICES ASSUME r \in h
               PROVE  FALSE
    OBVIOUS
  <2>1. Newer(r) \subseteq h \ {r}
    <3> SUFFICES ASSUME NEW s \in Newer(r), s \notin h
                 PROVE  FALSE
      BY RowFacts, <1>3 DEF Newer, ListInv
    <3>1. s \in List!Matching /\ s.at > r.at /\ r.at >= s.at
      BY <1>1, HeadFacts DEF Newer
    <3>2. s.at \in Int /\ r.at \in Int
      BY <1>3, <3>1, RowFacts DEF ListInv
    <3> QED
      BY <3>1, <3>2
  <2>2. IsFiniteSet(h) /\ Cardinality(h) \in Nat /\ Cardinality(h) <= o
    BY <1>1, HeadFacts
  <2>3. IsFiniteSet(h \ {r}) /\ Cardinality(h \ {r}) = Cardinality(h) - 1
    BY <2>2, FS_RemoveElement
  <2>4. n <= Cardinality(h) - 1
    BY <2>1, <2>3, FS_Subset
  <2> QED
    BY <1>1, <2>2, <2>4
<1>6. r \notin t
  BY <1>2, <1>5
<1>7. o + PageSize \in Nat
  BY <1>1
<1>8. /\ IsFiniteSet(t) /\ Cardinality(t) \in Nat /\ t \subseteq List!Matching
      /\ Cardinality(t) = o + PageSize
  <2>1. /\ IsFiniteSet(t) /\ Cardinality(t) \in Nat /\ t \subseteq List!Matching
        /\ Cardinality(t) <= o + PageSize
        /\ Cardinality(t) < o + PageSize => t = List!Matching
    BY <1>7, HeadFacts
  <2> QED
    BY <1>6, <1>7, <2>1
<1>9. t \subseteq Newer(r)
  <2> SUFFICES ASSUME NEW s \in t
               PROVE  s.at > r.at
    BY <1>8 DEF Newer
  <2>1. s \in List!Matching /\ s.at >= r.at /\ s.at # r.at
    BY <1>4, <1>6, <1>7, <1>8, HeadFacts
  <2>2. s.at \in Int /\ r.at \in Int
    BY <1>3, <2>1, RowFacts DEF ListInv
  <2> QED
    BY <2>1, <2>2
<1>10. n >= o + PageSize
  BY <1>8, <1>9, FiniteList, FS_Subset
<1>11. p # {}
  <2> SUFFICES ASSUME p = {}
               PROVE  FALSE
    OBVIOUS
  <2>1. t = h
    BY <1>2
  <2>2. Cardinality(h) <= o /\ Cardinality(h) \in Nat
    BY <1>1, HeadFacts
  <2> QED
    BY <1>1, <1>8, <2>1, <2>2
<1> QED
  BY <1>1, <1>10, <1>11

\* A page has no more rows than it is asked for.
LEMMA PageSmall ==
  ASSUME ListInv, page \in 1 .. MaxPage, NEW p \in List!Pages(page)
  PROVE  p \subseteq alarms /\ IsFiniteSet(p) /\ Cardinality(p) \in Nat /\ Cardinality(p) <= PageSize
<1> DEFINE o == (page - 1) * PageSize
           m == Cardinality(List!Matching)
<1>1. o \in Nat /\ PageSize \in Nat /\ o + PageSize \in Nat
  BY Offsets DEF ListInv, List!PagingAssumption
<1>2. PICK h \in List!Heads(o), t \in List!Heads(o + PageSize) : h \subseteq t /\ p = t \ h
  BY PageIs
<1> HIDE DEF o
<1>3. /\ Cardinality(h) = IF o < m THEN o ELSE m
      /\ Cardinality(t) = IF o + PageSize < m THEN o + PageSize ELSE m
  BY CountIs DEF List!Heads
<1>4. IsFiniteSet(t) /\ t \subseteq alarms /\ m \in Nat /\ IsFiniteSet(h)
  BY <1>1, HeadFacts, FiniteList
<1>5. t \cap h = h
  BY <1>2
<1>6. IsFiniteSet(p) /\ Cardinality(p) = Cardinality(t) - Cardinality(h)
  <2>1. /\ IsFiniteSet(t \ h)
        /\ Cardinality(t \ h) = Cardinality(t) - Cardinality(t \cap h)
    BY <1>4, FS_Difference
  <2> QED
    BY <1>2, <1>5, <2>1
<1>7. Cardinality(p) \in Nat
  BY <1>6, FS_CardinalityType
<1> HIDE DEF m
<1>8. Cardinality(t) - Cardinality(h) <= PageSize
  BY <1>1, <1>3, <1>4
<1> QED
  BY <1>2, <1>4, <1>6, <1>7, <1>8

-----------------------------------------------------------------------------
LEMMA InitList == List!PagingAssumption /\ List!Init => ListInv
<1> SUFFICES ASSUME List!PagingAssumption, List!Init
             PROVE  ListInv
  OBVIOUS
<1>1. List!TypeOK
  <2>1. 0 \in 0 .. MaxPage + 1 /\ 0 \in 0 .. MaxRows
    BY DEF List!PagingAssumption
  <2> QED
    BY <2>1 DEF List!Init, List!TypeOK
<1>2. KeysFresh /\ BeforeScan /\ NothingPassed
  BY DEF List!Init, KeysFresh, BeforeScan, NothingPassed
<1>3. List!PagesBounded
  <2>1. ~(0 > 0)
    OBVIOUS
  <2> QED
    BY <2>1 DEF List!Init, List!PagesBounded
<1> QED
  BY <1>1, <1>2, <1>3, FS_EmptySet DEF List!Init, ListInv

\* The scan begins.
LEMMA BeginKeeps ==
  ASSUME ListInv, List!GetSnapshot, page = 0
  PROVE  ListInv'
<1>1. /\ page' = 1 /\ start' = alarms /\ ever' = alarms /\ seen' = seen /\ full' = full
      /\ UNCHANGED <<alarms, lastId, cleaned, stream>>
      /\ full /\ start = {} /\ seen = {}
  BY DEF List!GetSnapshot, ListInv, BeforeScan
<1>2. List!TypeOK' /\ List!PagesBounded'
  <2>1. Cardinality(seen') = 0 /\ (page' - 1) * PageSize = 0
    BY <1>1, FS_EmptySet DEF ListInv, List!PagingAssumption
  <2>2. page' \in 0 .. MaxPage + 1
    BY <1>1 DEF ListInv, List!PagingAssumption
  <2>3. List!TypeOK'
    BY <1>1, <2>2 DEF ListInv, List!TypeOK
  <2> QED
    BY <2>1, <2>3, CountIs DEF List!PagesBounded
<1>3. IsFiniteSet(ever') /\ KeysFresh'
  BY <1>1, FiniteList DEF ListInv, KeysFresh, List!TypeOK
<1>4. NothingPassed'
  <2>1. \A r : Newer(r)' = Newer(r)
    BY <1>1 DEF Newer, List!Matching
  <2>2. (page' - 1) * PageSize = 0
    BY <1>1 DEF ListInv, List!PagingAssumption
  <2>3. \A r : full' /\ Cardinality(Newer(r)') >= (page' - 1) * PageSize
    BY <1>1, <2>1, <2>2, FiniteList
  <2> QED
    BY <2>3 DEF NothingPassed, Ahead
<1> QED
  BY <1>1, <1>2, <1>3, <1>4 DEF ListInv, BeforeScan, List!PagingAssumption

\* The next page.
LEMMA FetchKeeps ==
  ASSUME ListInv, List!GetSnapshot, page # 0
  PROVE  ListInv'
<1>1. /\ page' = page + 1 /\ page \in 1 .. MaxPage /\ full
      /\ UNCHANGED <<start, ever, alarms, lastId, cleaned, stream>>
  <2>1. page \in 0 .. MaxPage + 1 /\ MaxPage \in Nat
    BY DEF ListInv, List!TypeOK, List!PagingAssumption
  <2> QED
    BY <2>1 DEF List!GetSnapshot
<1>2. PICK p \in List!Pages(page) : seen' = seen \union p /\ full' = (p # {})
  BY <1>1 DEF List!GetSnapshot
<1>3. p \subseteq alarms /\ IsFiniteSet(p) /\ Cardinality(p) \in Nat /\ Cardinality(p) <= PageSize
  BY <1>1, PageSmall
<1>4. List!TypeOK' /\ List!PagesBounded'
  <2>1. Cardinality(seen') <= (page' - 1) * PageSize
    <3>1. /\ Cardinality(seen) <= (page - 1) * PageSize
          /\ IsFiniteSet(seen) /\ Cardinality(seen) \in Nat
      BY <1>1, FiniteList, FS_CardinalityType, CountIs DEF ListInv, List!PagesBounded
    <3>2. Cardinality(seen') = Cardinality(seen) + Cardinality(p) - Cardinality(seen \cap p)
      BY <1>2, <1>3, <3>1, FS_Union
    <3>3. Cardinality(seen \cap p) \in Nat
      BY <3>1, FS_Intersection, FS_CardinalityType
    <3>4. /\ (page - 1) * PageSize \in Nat /\ PageSize \in Nat
          /\ (page - 1) * PageSize + PageSize = page * PageSize
      BY <1>1, Offsets DEF ListInv, List!PagingAssumption
    <3>5. page' - 1 = page
      BY <1>1 DEF ListInv, List!PagingAssumption
    <3>6. Cardinality(seen') <= page * PageSize
      BY <1>3, <3>1, <3>2, <3>3, <3>4
    <3> QED
      BY <3>5, <3>6
  <2>2. page' \in 0 .. MaxPage + 1
    BY <1>1 DEF ListInv, List!PagingAssumption
  <2>3. full' \in BOOLEAN /\ seen' \subseteq ever
    BY <1>2, <1>3 DEF ListInv, List!TypeOK
  <2>4. List!TypeOK'
    BY <1>1, <2>2, <2>3 DEF ListInv, List!TypeOK
  <2> QED
    BY <2>1, <2>4, CountIs DEF List!PagesBounded
<1>5. NothingPassed'
  <2> SUFFICES ASSUME NEW r \in start \intersect alarms, r \notin seen', stream \in {List!Any, r.stream},
                      Untied(r)
               PROVE  Ahead(r)'
    BY <1>1 DEF NothingPassed, Untied
  <2>1. r \in List!Matching /\ Ahead(r) /\ r \notin p
    BY <1>2 DEF List!Matching, ListInv, NothingPassed
  <2>2. p # {} /\ Cardinality(Newer(r)) >= page * PageSize
    BY <1>1, <2>1, PageShows
  <2>3. Newer(r)' = Newer(r)
    BY <1>1 DEF Newer, List!Matching
  <2>4. page' - 1 = page
    BY <1>1 DEF ListInv, List!PagingAssumption
  <2>5. full' /\ Cardinality(Newer(r)') >= (page' - 1) * PageSize
    BY <1>2, <2>2, <2>3, <2>4
  <2> QED
    BY <2>5 DEF Ahead
<1> QED
  BY <1>1, <1>4, <1>5 DEF ListInv, KeysFresh, BeforeScan, List!PagingAssumption

\* A row that is inserted puts no row before a row that was there behind it.
LEMMA InsertKeepsList ==
  ASSUME ListInv, NEW w \in List!Row, List!SaveSnapshot(w)
  PROVE  ListInv'
<1>1. /\ w.id = lastId + 1 /\ lastId' = w.id /\ alarms' = alarms \union {w}
      /\ ever' = ever \union {w}
      /\ UNCHANGED <<start, cleaned, stream, page, seen, full>>
  BY DEF List!SaveSnapshot
<1>2. List!TypeOK' /\ List!PagesBounded'
  <2>1. lastId' \in 1 .. MaxRows
    BY <1>1 DEF List!Row
  <2>2. lastId' \in 0 .. MaxRows
    BY <2>1
  <2> QED
    BY <1>1, <2>2 DEF ListInv, List!TypeOK, List!PagesBounded
<1>3. IsFiniteSet(ever')
  BY <1>1, FS_AddElement DEF ListInv
<1>4. KeysFresh'
  <2>1. lastId \in Int
    BY DEF ListInv, List!TypeOK, List!PagingAssumption
  <2>2. ASSUME NEW r \in ever
        PROVE  r.id <= lastId + 1
    <3>1. r.id \in Int /\ r.id <= lastId
      BY RowFacts DEF ListInv, List!TypeOK, KeysFresh
    <3> QED
      BY <2>1, <3>1
  <2> QED
    BY <1>1, <2>1, <2>2 DEF KeysFresh
<1>5. NothingPassed'
  <2> SUFFICES ASSUME NEW r \in start \intersect alarms', r \notin seen,
                      stream \in {List!Any, r.stream}, Untied(r)'
               PROVE  Ahead(r)'
    BY <1>1 DEF NothingPassed
  <2>1. r # w /\ r \in ever
    <3>1. r \in ever /\ lastId \in Int
      BY DEF ListInv, List!TypeOK, List!PagingAssumption
    <3>2. r.id <= lastId /\ r.id \in Int
      BY <3>1, RowFacts DEF ListInv, List!TypeOK, KeysFresh
    <3>3. r.id # lastId + 1
      BY <3>1, <3>2
    <3> QED
      BY <1>1, <3>1, <3>3
  <2>2. Ahead(r)
    BY <1>1, <2>1 DEF ListInv, NothingPassed, Untied
  <2>3. Newer(r) \subseteq Newer(r)' /\ Newer(r)' \subseteq Newer(r) \union {w}
    BY <1>1 DEF Newer, List!Matching
  <2>4. IsFiniteSet(Newer(r)') /\ Cardinality(Newer(r)) <= Cardinality(Newer(r)')
    <3>1. IsFiniteSet(Newer(r) \union {w})
      BY FiniteList, FS_AddElement
    <3>2. IsFiniteSet(Newer(r)')
      BY <2>3, <3>1, FS_Subset
    <3> QED
      BY <2>3, <3>2, FS_Subset
  <2>5. Cardinality(Newer(r)) \in Nat /\ Cardinality(Newer(r)') \in Nat
    BY <2>4, FiniteList, FS_CardinalityType
  <2>6. (page - 1) * PageSize \in Int
    <3>1. page \in 0 .. MaxPage + 1 /\ MaxPage \in Nat /\ PageSize \in Int
      BY DEF ListInv, List!TypeOK, List!PagingAssumption
    <3>2. \A n, m \in Int : (n - 1) * m \in Int
      OBVIOUS
    <3> QED
      BY <3>1, <3>2
  <2>7. page' = page /\ full' = full
    BY <1>1
  <2> HIDE DEF Newer
  <2>8. page > 0 => full /\ Cardinality(Newer(r)') >= (page - 1) * PageSize
    BY <2>2, <2>4, <2>5, <2>6 DEF Ahead
  <2> QED
    BY <2>7, <2>8 DEF Ahead
<1> QED
  BY <1>1, <1>2, <1>3, <1>4, <1>5 DEF ListInv, BeforeScan, List!PagingAssumption

\* The cleanup takes the oldest rows: none that is newer than one that stays.
LEMMA CleanKeepsList ==
  ASSUME ListInv, List!CleanExpiredDBSnapshot
  PROVE  ListInv'
<1>1. /\ alarms' = {r \in alarms : r.at >= cleaned'} /\ cleaned' \in Seconds
      /\ UNCHANGED <<lastId, ever, start, stream, page, seen, full>>
  BY DEF List!CleanExpiredDBSnapshot
<1>2. cleaned' \in Nat
  BY <1>1 DEF ListInv, List!PagingAssumption
<1>3. List!TypeOK' /\ List!PagesBounded'
  BY <1>1, <1>2 DEF ListInv, List!TypeOK, List!PagesBounded
<1>4. NothingPassed'
  <2> SUFFICES ASSUME NEW r \in start \intersect alarms', r \notin seen,
                      stream \in {List!Any, r.stream}, Untied(r)
               PROVE  Ahead(r)'
    BY <1>1 DEF NothingPassed, Untied
  <2>1. r \in alarms /\ r.at >= cleaned' /\ Ahead(r)
    BY <1>1 DEF ListInv, NothingPassed
  <2>2. Newer(r)' = Newer(r)
    <3>1. ASSUME NEW s \in Newer(r)
          PROVE  s.at >= cleaned'
      <4>1. s \in List!Row /\ r \in List!Row /\ s.at > r.at
        BY <2>1, FiniteList DEF Newer
      <4>2. s.at \in Int /\ r.at \in Int
        BY <4>1, RowFacts DEF ListInv
      <4> QED
        BY <1>2, <2>1, <4>1, <4>2
    <3> QED
      BY <1>1, <3>1 DEF Newer, List!Matching
  <2> QED
    BY <1>1, <2>1, <2>2 DEF Ahead
<1> QED
  BY <1>1, <1>3, <1>4 DEF ListInv, KeysFresh, BeforeScan, List!PagingAssumption

LEMMA StepList == ListInv /\ [List!Next]_(List!vars) => ListInv'
<1> SUFFICES ASSUME ListInv, [List!Next]_(List!vars)
             PROVE  ListInv'
  OBVIOUS
<1>1. CASE UNCHANGED List!vars
  <2>1. List!TypeOK' /\ List!PagesBounded' /\ KeysFresh' /\ BeforeScan' /\ ever' = ever
    BY <1>1 DEF List!vars, ListInv, List!TypeOK, List!PagesBounded, KeysFresh, BeforeScan
  <2>2. NothingPassed'
    <3>1. \A r : Newer(r)' = Newer(r)
      BY <1>1 DEF List!vars, Newer, List!Matching
    <3> QED
      BY <1>1, <3>1 DEF List!vars, ListInv, NothingPassed, Untied, Ahead
  <2> QED
    BY <2>1, <2>2 DEF ListInv, List!PagingAssumption
<1> QED
  BY <1>1, BeginKeeps, FetchKeeps, InsertKeepsList, CleanKeepsList DEF List!Next

LEMMA ScanIsComplete == ListInv => ScanComplete
<1> SUFFICES ASSUME ListInv, ~full, NEW r \in start \intersect alarms,
                    r \notin seen, stream \in {List!Any, r.stream}, Untied(r)
             PROVE  FALSE
  BY DEF ListInv, ScanComplete, List!ScanComplete, Untied
<1>1. Ahead(r)
  BY DEF ListInv, NothingPassed
<1>2. page > 0
  <2>1. page \in 0 .. MaxPage + 1 /\ page # 0 /\ MaxPage \in Nat
    BY DEF ListInv, BeforeScan, List!TypeOK, List!PagingAssumption
  <2> QED
    BY <2>1
<1> QED
  BY <1>1, <1>2 DEF Ahead

\* A reader that went page by page to an empty one has seen every row of its stream that
\* was there all the time and shares its second with no other (GetSnapshot).
THEOREM ScanAlwaysComplete ==
  ASSUME List!PagingAssumption
  PROVE  List!Spec => []ScanComplete
<1>1. List!PagingAssumption /\ List!Spec => []ListInv
  BY InitList, StepList, PTL DEF List!Spec
<1> QED
  BY <1>1, ScanIsComplete, PTL

-----------------------------------------------------------------------------
(* Pictures (Retention).  RetentionProofs is about any viewers, cameras and *)
(* retention times; here its results are applied to the three instances of  *)
(* the run, whose definitions are those of its own instances.               *)

SharedP == INSTANCE RetentionProofs
  WITH rows <- shots, at <- taking, shots <- taken, Viewers <- {"v1", "v2"},
       Streams <- {"cam1"}, StreamOf <- [v1 |-> "cam1", v2 |-> "cam1"],
       SnapshotDays <- 1, RecordDays <- 0, EnableRecording <- FALSE,
       MaxTime <- 3, MaxShots <- 2, MaxErrors <- 1

ApartP == INSTANCE RetentionProofs
  WITH rows <- shots, at <- taking, shots <- taken, Viewers <- {"v1", "v2"},
       Streams <- {"cam1", "cam2"}, StreamOf <- [v1 |-> "cam1", v2 |-> "cam2"],
       SnapshotDays <- 1, RecordDays <- 0, EnableRecording <- FALSE,
       MaxTime <- 2, MaxShots <- 2, MaxErrors <- 1

RecordedP == INSTANCE RetentionProofs
  WITH rows <- shots, at <- taking, shots <- taken, Viewers <- {"v1", "v2"},
       Streams <- {"cam1"}, StreamOf <- [v1 |-> "cam1", v2 |-> "cam1"],
       SnapshotDays <- 1, RecordDays <- 1, EnableRecording <- TRUE,
       MaxTime <- 3, MaxShots <- 1, MaxErrors <- 1

LEMMA SharedIsProved ==
  /\ Shared!RetentionAssumption /\ Shared!Init => SharedP!PictureInv
  /\ SharedP!PictureInv /\ (Shared!Next \/ UNCHANGED pictures) => SharedP!PictureInv'
  /\ SharedP!PictureInv => Shared!TypeOK /\ Shared!UrlsLeadToFiles
<1>1. Shared!RetentionAssumption => SharedP!RetentionAssumption
  BY Zenon
  DEF Shared!RetentionAssumption, Shared!Paths, Shared!Times,
      SharedP!RetentionAssumption, SharedP!Paths, SharedP!Times
<1>2. Shared!Init => SharedP!Init
  BY Zenon DEF Shared!Init, SharedP!Init
<1>3. Shared!Next => SharedP!Next
  BY Zenon
  DEF Shared!Next, Shared!Viewer, Shared!Detect, Shared!SaveOriginal, Shared!NameRoi,
      Shared!WriteRoi, Shared!Store, Shared!SaveSnapshotToDB, Shared!Segment,
      Shared!StartCron, Shared!Clean, Shared!CleanExpiredSnapshot,
      Shared!CleanExpiredRecord, Shared!CleanExpiredDBSnapshot, Shared!Clock,
      Shared!Others, Shared!Written, Shared!Step, Shared!Old, Shared!Remove,
      Shared!Urls, Shared!Paths, Shared!Times, SharedP!Next, SharedP!Viewer,
      SharedP!Detect, SharedP!SaveOriginal, SharedP!NameRoi, SharedP!WriteRoi,
      SharedP!Store, SharedP!SaveSnapshotToDB, SharedP!Segment, SharedP!StartCron,
      SharedP!Clean, SharedP!CleanExpiredSnapshot, SharedP!CleanExpiredRecord,
      SharedP!CleanExpiredDBSnapshot, SharedP!Clock, SharedP!Others, SharedP!Written,
      SharedP!Step, SharedP!Old, SharedP!Remove, SharedP!Urls, SharedP!Paths,
      SharedP!Times
<1>4. UNCHANGED pictures => UNCHANGED SharedP!vars
  BY DEF pictures, SharedP!vars
<1>5. SharedP!UrlsLeadToFiles => Shared!UrlsLeadToFiles
  BY Zenon
  DEF Shared!UrlsLeadToFiles, Shared!Held, Shared!GetLastSnapshot,
      SharedP!UrlsLeadToFiles, SharedP!Held, SharedP!GetLastSnapshot
<1>6. SharedP!PictureInv => Shared!TypeOK
  BY Zenon
  DEF SharedP!PictureInv, Shared!TypeOK, Shared!Files, Shared!Urls, Shared!Paths, Shared!Times,
      SharedP!TypeOK, SharedP!Files, SharedP!Urls, SharedP!Paths, SharedP!Times
<1> QED
  BY <1>1, <1>2, <1>3, <1>4, <1>5, <1>6,
     SharedP!InitPictures, SharedP!StepPictures, SharedP!PicturesLead

LEMMA ApartIsProved ==
  /\ Apart!RetentionAssumption /\ Apart!Init => ApartP!PictureInv
  /\ ApartP!PictureInv /\ (Apart!Next \/ UNCHANGED pictures) => ApartP!PictureInv'
  /\ ApartP!PictureInv => Apart!UrlsLeadToFiles /\ Apart!RowShowsItsStream
<1>1. Apart!RetentionAssumption => ApartP!RetentionAssumption
  BY Zenon
  DEF Apart!RetentionAssumption, Apart!Paths, Apart!Times, ApartP!RetentionAssumption,
      ApartP!Paths, ApartP!Times
<1>2. Apart!Init => ApartP!Init
  BY Zenon DEF Apart!Init, ApartP!Init
<1>3. Apart!Next => ApartP!Next
  BY Zenon
  DEF Apart!Next, Apart!Viewer, Apart!Detect, Apart!SaveOriginal, Apart!NameRoi,
      Apart!WriteRoi, Apart!Store, Apart!SaveSnapshotToDB, Apart!Segment,
      Apart!StartCron, Apart!Clean, Apart!CleanExpiredSnapshot,
      Apart!CleanExpiredRecord, Apart!CleanExpiredDBSnapshot, Apart!Clock, Apart!Others,
      Apart!Written, Apart!Step, Apart!Old, Apart!Remove, Apart!Urls, Apart!Paths,
      Apart!Times, ApartP!Next, ApartP!Viewer, ApartP!Detect, ApartP!SaveOriginal,
      ApartP!NameRoi, ApartP!WriteRoi, ApartP!Store, ApartP!SaveSnapshotToDB,
      ApartP!Segment, ApartP!StartCron, ApartP!Clean, ApartP!CleanExpiredSnapshot,
      ApartP!CleanExpiredRecord, ApartP!CleanExpiredDBSnapshot, ApartP!Clock,
      ApartP!Others, ApartP!Written, ApartP!Step, ApartP!Old, ApartP!Remove,
      ApartP!Urls, ApartP!Paths, ApartP!Times
<1>4. UNCHANGED pictures => UNCHANGED ApartP!vars
  BY DEF pictures, ApartP!vars
<1>5. ApartP!UrlsLeadToFiles => Apart!UrlsLeadToFiles
  BY Zenon
  DEF Apart!UrlsLeadToFiles, Apart!Held, Apart!GetLastSnapshot, ApartP!UrlsLeadToFiles,
      ApartP!Held, ApartP!GetLastSnapshot
<1>6. ApartP!RowShowsItsStream => Apart!RowShowsItsStream
  BY Zenon DEF Apart!RowShowsItsStream, ApartP!RowShowsItsStream
<1> QED
  BY <1>1, <1>2, <1>3, <1>4, <1>5, <1>6, ApartP!RowsShow,
     ApartP!InitPictures, ApartP!StepPictures, ApartP!PicturesLead

LEMMA RecordedIsProved ==
  /\ Recorded!RetentionAssumption /\ Shared!Init => RecordedP!PictureInv
  /\ RecordedP!PictureInv /\ (Recorded!Next \/ UNCHANGED pictures) => RecordedP!PictureInv'
  /\ RecordedP!PictureInv => Recorded!UrlsLeadToFiles
<1>1. Recorded!RetentionAssumption => RecordedP!RetentionAssumption
  BY Zenon
  DEF Recorded!RetentionAssumption, Recorded!Paths, Recorded!Times,
      RecordedP!RetentionAssumption, RecordedP!Paths, RecordedP!Times
<1>2. Shared!Init => RecordedP!Init
  BY Zenon DEF Shared!Init, RecordedP!Init
<1>3. Recorded!Next => RecordedP!Next
  BY Zenon
  DEF Recorded!Next, Recorded!Viewer, Recorded!Detect, Recorded!SaveOriginal,
      Recorded!NameRoi, Recorded!WriteRoi, Recorded!Store, Recorded!SaveSnapshotToDB,
      Recorded!Segment, Recorded!StartCron, Recorded!Clean,
      Recorded!CleanExpiredSnapshot, Recorded!CleanExpiredRecord,
      Recorded!CleanExpiredDBSnapshot, Recorded!Clock, Recorded!Others,
      Recorded!Written, Recorded!Step, Recorded!Old, Recorded!Remove, Recorded!Urls,
      Recorded!Paths, Recorded!Times, RecordedP!Next, RecordedP!Viewer,
      RecordedP!Detect, RecordedP!SaveOriginal, RecordedP!NameRoi, RecordedP!WriteRoi,
      RecordedP!Store, RecordedP!SaveSnapshotToDB, RecordedP!Segment,
      RecordedP!StartCron, RecordedP!Clean, RecordedP!CleanExpiredSnapshot,
      RecordedP!CleanExpiredRecord, RecordedP!CleanExpiredDBSnapshot, RecordedP!Clock,
      RecordedP!Others, RecordedP!Written, RecordedP!Step, RecordedP!Old,
      RecordedP!Remove, RecordedP!Urls, RecordedP!Paths, RecordedP!Times
<1>4. UNCHANGED pictures => UNCHANGED RecordedP!vars
  BY DEF pictures, RecordedP!vars
<1>5. RecordedP!UrlsLeadToFiles => Recorded!UrlsLeadToFiles
  BY Zenon
  DEF Recorded!UrlsLeadToFiles, Recorded!Held, Recorded!GetLastSnapshot,
      RecordedP!UrlsLeadToFiles, RecordedP!Held, RecordedP!GetLastSnapshot
<1> QED
  BY <1>1, <1>2, <1>3, <1>4, <1>5,
     RecordedP!InitPictures, RecordedP!StepPictures, RecordedP!PicturesLead

-----------------------------------------------------------------------------
(* The specification of the run.                                            *)

StorageInv ==
  /\ IInv /\ ListInv
  /\ part = "shared" => SharedP!PictureInv
  /\ part = "apart" => ApartP!PictureInv
  /\ part = "recorded" => RecordedP!PictureInv

LEMMA StorageBegins == StorageInit => StorageInv
<1> SUFFICES ASSUME StorageInit
             PROVE  StorageInv
  OBVIOUS
<1>1. IInv
  BY InitInv DEF StorageInit
<1>2. ListInv
  BY InitList, StorageAssumption DEF StorageInit
<1>3. /\ part = "shared" => SharedP!PictureInv
      /\ part = "apart" => ApartP!PictureInv
      /\ part = "recorded" => RecordedP!PictureInv
  BY SharedIsProved, ApartIsProved, RecordedIsProved, StorageAssumption DEF StorageInit
<1> QED
  BY <1>1, <1>2, <1>3 DEF StorageInv

LEMMA StorageGoesOn == StorageInv /\ [StorageNext]_allVars => StorageInv'
<1> SUFFICES ASSUME StorageInv, [StorageNext]_allVars
             PROVE  StorageInv'
  OBVIOUS
<1>1. part' = part
  BY DEF StorageNext, In, Picturing, allVars
<1>2. /\ [Next]_vars /\ [List!Next]_(List!vars)
      /\ part = "shared" => Shared!Next \/ UNCHANGED pictures
      /\ part = "apart" => Apart!Next \/ UNCHANGED pictures
      /\ part = "recorded" => Recorded!Next \/ UNCHANGED pictures
  BY DEF StorageNext, In, Picturing, allVars, list, List!vars
<1>3. IInv' /\ ListInv'
  BY <1>2, NextInv, StepList DEF StorageInv
<1>4. /\ part = "shared" => SharedP!PictureInv'
      /\ part = "apart" => ApartP!PictureInv'
      /\ part = "recorded" => RecordedP!PictureInv'
  BY <1>2, SharedIsProved, ApartIsProved, RecordedIsProved DEF StorageInv
<1> QED
  BY <1>1, <1>3, <1>4 DEF StorageInv

\* The invariants of the run: no superseded save comes back, a URL that was given out
\* leads to a picture of its camera while it is young, and a reader misses no row.
THEOREM StorageAlwaysSafe == StorageSpec => [](RegionsKept /\ UrlsLeadToFiles /\ ScanComplete)
<1>1. StorageInv => UrlsLeadToFiles
  BY SharedIsProved, ApartIsProved, RecordedIsProved DEF StorageInv, UrlsLeadToFiles
<1>2. StorageInv => RegionsKept
  BY InvKeepsRegions DEF StorageInv
<1>3. StorageInv => ScanComplete
  BY ScanIsComplete DEF StorageInv
<1> QED
  BY <1>1, <1>2, <1>3, StorageBegins, StorageGoesOn, PTL DEF StorageSpec
=============================================================================
