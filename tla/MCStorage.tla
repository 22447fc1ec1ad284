------------------------------ MODULE MCStorage ------------------------------
(***************************************************************************)
(* One instance for what the program keeps in its database and on its      *)
(* disk: the regions (Zones), the pictures with their cleanup (Retention,  *)
(* in three instances) and the list of alarms (Paging).  They share no     *)
(* state here: a behaviour exercises one part, which is chosen in the      *)
(* initial state; the others stay as they begin.                           *)
(***************************************************************************)
EXTENDS Zones

CONSTANTS
  NoPicture,                                                   \* Retention
  Cameras, Seconds, MaxRows, PageSize, DefaultSize, MaxPage    \* Paging

VARIABLES part,
  now, files, shots, last, taking, shot, inserts, clean, expire, errors, taken,  \* Retention
  alarms, lastId, ever, start, cleaned, stream, page, seen, full                 \* Paging

pictures == <<now, files, shots, last, taking, shot, inserts, clean, expire, errors, taken>>
list == <<alarms, lastId, ever, start, cleaned, stream, page, seen, full>>
allVars == <<part, vars, pictures, list>>

\* Two viewers of one camera until the first picture expires, and an error of the task.
Shared == INSTANCE Retention
  WITH rows <- shots, at <- taking, shots <- taken, Viewers <- {"v1", "v2"},
       Streams <- {"cam1"}, StreamOf <- [v1 |-> "cam1", v2 |-> "cam1"],
       SnapshotDays <- 1, RecordDays <- 0, EnableRecording <- FALSE,
       MaxTime <- 3, MaxShots <- 2, MaxErrors <- 1

\* Two cameras with one viewer each, and an error of the task.
Apart == INSTANCE Retention
  WITH rows <- shots, at <- taking, shots <- taken, Viewers <- {"v1", "v2"},
       Streams <- {"cam1", "cam2"}, StreamOf <- [v1 |-> "cam1", v2 |-> "cam2"],
       SnapshotDays <- 1, RecordDays <- 0, EnableRecording <- FALSE,
       MaxTime <- 2, MaxShots <- 2, MaxErrors <- 1

\* One detection, recordings, and an error of the task.
Recorded == INSTANCE Retention
  WITH rows <- shots, at <- taking, shots <- taken, Viewers <- {"v1", "v2"},
       Streams <- {"cam1"}, StreamOf <- [v1 |-> "cam1", v2 |-> "cam1"],
       SnapshotDays <- 1, RecordDays <- 1, EnableRecording <- TRUE,
       MaxTime <- 3, MaxShots <- 1, MaxErrors <- 1

List == INSTANCE Paging WITH rows <- alarms, expire <- cleaned, Streams <- Cameras

ASSUME StorageAssumption ==
  /\ Shared!RetentionAssumption /\ Apart!RetentionAssumption
  /\ Recorded!RetentionAssumption /\ List!PagingAssumption

StorageInit ==
  /\ part \in {"zones", "shared", "apart", "recorded", "list"}
  /\ Init /\ List!Init
  /\ IF part = "apart" THEN Apart!Init ELSE Shared!Init
  /\ part # "list" => stream = List!Any

In(p) == part = p /\ UNCHANGED part
Picturing(p, A) == In(p) /\ A /\ UNCHANGED <<vars, list>>

StorageNext ==
  \/ In("zones") /\ Next /\ UNCHANGED <<pictures, list>>
  \/ Picturing("shared", Shared!Next)
  \/ Picturing("apart", Apart!Next)
  \/ Picturing("recorded", Recorded!Next)
  \/ In("list") /\ List!Next /\ UNCHANGED <<vars, pictures>>

StorageSpec ==
  /\ StorageInit /\ [][StorageNext]_allVars
  /\ WF_allVars(Picturing("recorded", Recorded!StartCron))
  /\ WF_allVars(Picturing("recorded", Recorded!Clean))
  /\ WF_allVars(Picturing("recorded", Recorded!Clock))

-----------------------------------------------------------------------------
\* See Retention: a URL that was given out leads to a file as long as its picture is
\* young, and the picture of a row shows the row's camera.
UrlsLeadToFiles ==
  /\ part = "shared" => Shared!TypeOK /\ Shared!UrlsLeadToFiles
  /\ part = "apart" => Apart!UrlsLeadToFiles /\ Apart!RowShowsItsStream
  /\ part = "recorded" => Recorded!UrlsLeadToFiles

\* See Retention: again and again nothing is left that is older than its retention.
ExpiredIsRemoved == part = "recorded" => Recorded!ExpiredIsRemoved

\* See Paging: a reader that reached an empty page has seen every row that was there
\* all the time, unless it ties with another one.
ScanComplete == List!TypeOK /\ List!PagesBounded /\ List!ScanComplete
=============================================================================
