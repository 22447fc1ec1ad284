-------------------------------- MODULE Paging --------------------------------
(***************************************************************************)
(* The list of alarms: GetSnapshot of deviceLogic.go and deviceService.go  *)
(* with NewPageOption of page.go.  A reader fetches page after page with   *)
(* offsets into a table that the detections extend and the cleanup         *)
(* shortens meanwhile.  record_at is a datetime, whole seconds: rows of    *)
(* the same second come in any order, which may differ between queries.    *)
(***************************************************************************)
EXTENDS Integers, FiniteSets

CONSTANTS
  MaxRows,      \* bound: rows inserted
  Streams,
  Seconds,      \* values of record_at
  PageSize,     \* the reader's page size
  DefaultSize,  \* rows of the default page (10 in the code)
  MaxPage       \* the largest page number that is taken as it is (1000 in the code)

\* Assumed where the module is instantiated.
PagingAssumption ==
  /\ PageSize \in Nat \ {0} /\ DefaultSize \in Nat /\ MaxPage \in Nat
  /\ MaxRows \in Nat /\ Seconds \subseteq Nat

Any == "any"  \* the empty stream of a query: no condition

VARIABLES
  rows,     \* the table
  lastId,   \* the primary key given last
  ever,     \* the rows that were in it since the scan began
  start,    \* the rows that were in it when the scan began
  expire,   \* expireTime of the last cleanup
  stream,   \* the stream the reader asks for, or Any
  page,     \* the page it asks for next, 0 before the scan
  seen,     \* the rows it got
  full      \* the page it got last was not empty

vars == <<rows, lastId, ever, start, expire, stream, page, seen, full>>

Row == [id : 1 .. MaxRows, stream : Streams, at : Seconds]

TypeOK ==
  /\ rows \subseteq ever /\ start \subseteq ever /\ seen \subseteq ever /\ ever \subseteq Row
  /\ lastId \in 0 .. MaxRows /\ expire \in Nat /\ stream \in Streams \union {Any}
  /\ page \in 0 .. MaxPage + 1 /\ full \in BOOLEAN

Init ==
  /\ rows = {} /\ lastId = 0 /\ ever = {} /\ start = {} /\ expire = 0
  /\ stream \in Streams \union {Any} /\ page = 0 /\ seen = {} /\ full = TRUE

-----------------------------------------------------------------------------
(* A query.                                                                 *)

\* Mutation: the page numbers start at zero.
NewPageOptionZero(num, size) ==
  IF size <= 0 \/ num > MaxPage \/ num < 0
  THEN [offset |-> 0, limit |-> DefaultSize]
  ELSE [offset |-> num * size, limit |-> size]

\* Anything it does not accept is the first page, with the default size.
NewPageOption(num, size) ==
  IF size <= 0 \/ num > MaxPage \/ num < 0
  THEN [offset |-> 0, limit |-> DefaultSize]
  ELSE [offset |-> (num - 1) * size, limit |-> size]

\* The WHERE clause.
Matching == {r \in rows : stream \in {Any, r.stream}}

\* The first n rows of some order by record_at, newest first.
Heads(n) ==
  {h \in SUBSET Matching :
     /\ Cardinality(h) = IF n < Cardinality(Matching) THEN n ELSE Cardinality(Matching)
     /\ \A r \in h, s \in Matching \ h : r.at >= s.at}

\* OFFSET and LIMIT; gorm leaves out an offset that is not positive.
Pages(num) ==
  LET o == NewPageOption(num, PageSize)
      skip == IF o.offset > 0 THEN o.offset ELSE 0
  IN  {p \in SUBSET Matching :
         \E h \in Heads(skip), t \in Heads(skip + o.limit) : h \subseteq t /\ p = t \ h}

\* The reader fetches its next page; it stops at an empty one.
GetSnapshot ==
  /\ full /\ page <= MaxPage
  /\ page' = page + 1
  /\ IF page = 0
     THEN /\ start' = rows /\ ever' = rows /\ UNCHANGED <<seen, full>>
     ELSE /\ \E list \in Pages(page) : seen' = seen \union list /\ full' = (list # {})
          /\ UNCHANGED <<start, ever>>
  /\ UNCHANGED <<rows, lastId, expire, stream>>

-----------------------------------------------------------------------------
(* The table.                                                               *)

\* The goroutine of a detection took its record_at before a wait of any length.
SaveSnapshot(r) ==
  /\ r.id = lastId + 1 /\ lastId' = r.id
  /\ rows' = rows \union {r}
  /\ ever' = ever \union {r}
  /\ UNCHANGED <<start, expire, stream, page, seen, full>>

CleanExpiredDBSnapshot ==
  /\ expire' \in {e \in Seconds : e > expire}
  /\ rows' = {r \in rows : r.at >= expire'}
  /\ UNCHANGED <<lastId, ever, start, stream, page, seen, full>>

Next ==
  \/ GetSnapshot
  \/ \E r \in Row : SaveSnapshot(r)
  \/ CleanExpiredDBSnapshot

Spec == Init /\ [][Next]_vars

-----------------------------------------------------------------------------
(* Properties.                                                              *)

\* No page has more rows than the reader asks for.
PagesBounded == page > 0 => Cardinality(seen) <= (page - 1) * PageSize

\* A reader that went from the first page to an empty one has seen every row that
\* was there all the time, whatever was inserted and cleaned up between its pages,
\* late rows with an old record_at included; only rows that share their second with
\* another row of the list may be skipped.
ScanComplete ==
  ~full => \A r \in start \intersect rows :
             \/ r \in seen
             \/ stream \notin {Any, r.stream}
             \/ \E s \in ever \ {r} : s.at = r.at /\ stream \in {Any, s.stream}
=============================================================================
