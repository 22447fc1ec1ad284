-------------------------------- MODULE Zones --------------------------------
(***************************************************************************)
(* The regions of one stream: SaveZones of deviceLogic.go over             *)
(* deviceService.go.  A save deletes the rows of the stream and inserts    *)
(* one, in two statements of the database without a transaction.  GetZones *)
(* and the viewers (LoadROIsFromDB) only read the table and take its row   *)
(* with the lowest primary key: what holds of every row holds of theirs.   *)
(* A region configuration is known by the request that saves it.           *)
(***************************************************************************)
EXTENDS Sequences, SequencesExt

CONSTANTS
  Saves     \* requests to SaveZones, each with a configuration of its own

VARIABLES
  rows,      \* the configurations in the table, by increasing primary key
  at,        \* per save: "new", "delete", "insert", "saved", "failed" or "lost"
  before     \* per save: the saves that were answered before it was requested

vars == <<rows, at, before>>

TypeOK ==
  /\ rows \in Seq(Saves) /\ IsInjective(rows)
  /\ at \in [Saves -> {"new", "delete", "insert", "saved", "failed", "lost"}]
  /\ before \in [Saves -> SUBSET Saves]
  /\ \A i \in 1 .. Len(rows) : at[rows[i]] = "saved"

Init ==
  /\ rows = << >> /\ at = [s \in Saves |-> "new"]
  /\ before = [s \in Saves |-> {}]

Saved == {s \in Saves : at[s] = "saved"}
InProgress == {s \in Saves : at[s] \in {"delete", "insert"}}

-----------------------------------------------------------------------------
(* SaveZones.                                                               *)

\* The five arrays are taken apart and encoded; no state is involved.
Request(s) ==
  /\ at[s] = "new"
  /\ at' = [at EXCEPT ![s] = "delete"]
  /\ before' = [before EXCEPT ![s] = Saved]
  /\ UNCHANGED rows

\* Mutation: the row that a query would have found is deleted, not every row.
DeleteFirst(s) ==
  /\ at[s] = "delete"
  /\ at' = [at EXCEPT ![s] = "insert"]
  /\ rows' = IF rows = << >> THEN rows ELSE Tail(rows)
  /\ UNCHANGED before

\* The delete may fail: the request is answered with the error.
Delete(s) ==
  /\ at[s] = "delete"
  /\ \/ at' = [at EXCEPT ![s] = "insert"] /\ rows' = << >>
     \/ at' = [at EXCEPT ![s] = "failed"] /\ UNCHANGED rows
  /\ UNCHANGED before

\* So may the insert: the rows are gone by then.
Insert(s) ==
  /\ at[s] = "insert"
  /\ \/ /\ at' = [at EXCEPT ![s] = "saved"]
        /\ rows' = Append(rows, s)
     \/ at' = [at EXCEPT ![s] = "lost"] /\ UNCHANGED rows
  /\ UNCHANGED before

SaveZones(s) == Request(s) \/ Delete(s) \/ Insert(s)

\* RestartHandler replaces the process: requests end where they are, the
\* table stays.
Restart ==
  /\ at' = [s \in Saves |-> CASE at[s] = "delete" -> "failed"
                              [] at[s] = "insert" -> "lost"
                              [] OTHER -> at[s]]
  /\ UNCHANGED <<rows, before>>

Next == (\E s \in Saves : SaveZones(s)) \/ Restart

Spec == Init /\ [][Next]_vars

-----------------------------------------------------------------------------
(* Properties.                                                              *)

\* Once a save was answered, no configuration saved before it was requested is in
\* the table any more, whatever other saves interleave with it, fail or are cut
\* off: a query never goes back behind an answered save.
NoSuperseded ==
  \A s \in Saved : \A i \in 1 .. Len(rows) : rows[i] \notin before[s]

\* The regions are lost only by a save that failed or was cut off between its two
\* statements: if none was, they are there whenever no save is under way.
LostOnlyByBrokenSave ==
  /\ rows = << >> /\ InProgress = {} /\ Saved # {}
  => \E s \in Saves : at[s] = "lost"

\* A save that was answered stays until another one replaces it.
RegionsKept == NoSuperseded /\ LostOnlyByBrokenSave
=============================================================================
