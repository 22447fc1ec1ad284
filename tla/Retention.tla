------------------------------ MODULE Retention ------------------------------
(***************************************************************************)
(* Pictures of detections and their end: the part of DetectionWSHandler    *)
(* that saves two pictures, remembers the last one and inserts rows from a *)
(* goroutine of its own, and the cron task of clearpicturedbtask.go, which *)
(* deletes files by their modification time and rows by their record_at.   *)
(*                                                                         *)
(* The unit of time is the resolution of a file name (a millisecond in the *)
(* code); the retention times are a few units here.                        *)
(***************************************************************************)
EXTENDS Integers

CONSTANTS
  Viewers,          \* connections, one inference goroutine each
  Streams,
  StreamOf,         \* the stream of a viewer
  SnapshotDays,     \* SnapshotRetentionDays
  RecordDays,       \* RecordRetentionDays
  EnableRecording,
  MaxTime,          \* bound of the clock
  MaxShots,         \* bound: detections
  MaxErrors,        \* bound: failed deletions, of files and rows
  NoPicture         \* the URL of a picture that could not be saved

Times == 0 .. MaxTime
Paths == {"original", "roi", "record"} \X Streams \X Times
Urls == Paths \union {NoPicture}

\* Assumed where the module is instantiated.
RetentionAssumption ==
  /\ StreamOf \in [Viewers -> Streams] /\ NoPicture \notin Paths
  /\ SnapshotDays \in Nat /\ RecordDays \in Nat /\ EnableRecording \in BOOLEAN
  /\ MaxTime \in Nat \ {0} /\ MaxShots \in Nat /\ MaxErrors \in Nat

VARIABLES
  now,
  files,    \* the files: path, the viewer that wrote it, modification time
  rows,     \* the rows: viewer, URL, record_at
  last,     \* lastSnapshots, per stream
  at,       \* per viewer: where it is after a detection
  shot,     \* per viewer: the path it is about to write, or its URL
  inserts,  \* goroutines that still have to insert a row: viewer and URL
  clean,    \* where CleanAllExpiredData is
  expire,   \* expireTime of the step that runs
  errors,
  shots     \* number of detections

vars == <<now, files, rows, last, at, shot, inserts, clean, expire, errors, shots>>

Files == [path : Paths, by : Viewers, mtime : Times]

TypeOK ==
  /\ now \in Times
  /\ files \subseteq Files /\ \A f, g \in files : f.path = g.path => f = g
  /\ rows \subseteq [by : Viewers, url : Urls, at : Times]
  /\ last \in [Streams -> Urls]
  /\ at \in [Viewers -> {"idle", "original", "name", "write", "store"}]
  /\ shot \in [Viewers -> Urls]
  /\ inserts \subseteq (Viewers \X Urls)
  /\ clean \in {"idle", "files", "records", "rows"}
  /\ expire \in Int /\ errors \in 0 .. MaxErrors
  /\ shots \in 0 .. MaxShots

Init ==
  /\ now = 1 /\ files = {} /\ rows = {}
  /\ last = [s \in Streams |-> NoPicture]
  /\ at = [v \in Viewers |-> "idle"] /\ shot = [v \in Viewers |-> NoPicture]
  /\ inserts = {} /\ clean = "idle" /\ expire = 0 /\ errors = 0 /\ shots = 0

Others == <<clean, expire, errors, shots>>

-----------------------------------------------------------------------------
(* After a detection.                                                       *)

Detect(v) ==
  /\ shots < MaxShots /\ shots' = shots + 1
  /\ at[v] = "idle" /\ at' = [at EXCEPT ![v] = "original"]
  /\ shot[v] # NoPicture => shot[v][3] < now    \* inference takes longer than that
  /\ UNCHANGED <<now, files, rows, last, shot, inserts, clean, expire, errors>>

\* Create truncates a file of the same name.
Written(v, path) ==
  {f \in files : f.path # path} \union {[path |-> path, by |-> v, mtime |-> now]}

\* The original (in crop mode: the pictures of the regions) is not in the database;
\* whether it was saved is not looked at.
SaveOriginal(v) ==
  /\ at[v] = "original" /\ at' = [at EXCEPT ![v] = "name"]
  /\ files' \in {files, Written(v, <<"original", StreamOf[v], now>>)}
  /\ UNCHANGED <<now, rows, last, shot, inserts, Others>>

\* The name is made before the picture is drawn ...
NameRoi(v) ==
  /\ at[v] = "name" /\ at' = [at EXCEPT ![v] = "write"]
  /\ shot' = [shot EXCEPT ![v] = <<"roi", StreamOf[v], now>>]
  /\ UNCHANGED <<now, files, rows, last, inserts, Others>>

\* Mutation: the name is returned although the file could not be created.
WriteRoiUnchecked(v) ==
  /\ at[v] = "write" /\ at' = [at EXCEPT ![v] = "store"]
  /\ files' \in {files, Written(v, shot[v])} /\ UNCHANGED shot
  /\ UNCHANGED <<now, rows, last, inserts, Others>>

\* ... and written after that.  A failed save returns an empty path.
WriteRoi(v) ==
  /\ at[v] = "write" /\ at' = [at EXCEPT ![v] = "store"]
  /\ \/ files' = Written(v, shot[v]) /\ UNCHANGED shot
     \/ /\ shot' = [shot EXCEPT ![v] = NoPicture]
        /\ files' \in {files, Written(v, shot[v])}    \* Create or Encode failed
  /\ UNCHANGED <<now, rows, last, inserts, Others>>

\* The URL is remembered, and a goroutine started for the rows, if signals were
\* sent, whether or not the picture was saved.
Store(v) ==
  /\ at[v] = "store" /\ at' = [at EXCEPT ![v] = "idle"]
  /\ last' = [last EXCEPT ![StreamOf[v]] = shot[v]]
  /\ inserts' \in {inserts, inserts \union {<<v, shot[v]>>}}
  /\ UNCHANGED <<now, files, rows, shot, Others>>

\* The picture a client is shown when it asks for the last one of a stream.
GetLastSnapshot(s) == last[s]

\* record_at is the time of the insert.  An error is only logged.
SaveSnapshotToDB(v, url) ==
  /\ <<v, url>> \in inserts
  /\ inserts' = inserts \ {<<v, url>>}
  /\ rows' \in {rows, rows \union {[by |-> v, url |-> url, at |-> now]}}
  /\ UNCHANGED <<now, files, last, at, shot, Others>>

Viewer(v) ==
  \/ Detect(v) \/ SaveOriginal(v) \/ NameRoi(v) \/ WriteRoi(v) \/ Store(v)
  \/ \E url \in Urls : SaveSnapshotToDB(v, url)

\* MediaMTX writes a segment of a recording of stream s, whose path a viewer made.
Segment(s) ==
  /\ EnableRecording /\ \E v \in Viewers : StreamOf[v] = s
  /\ files' = Written(CHOOSE v \in Viewers : StreamOf[v] = s, <<"record", s, now>>)
  /\ UNCHANGED <<now, rows, last, at, shot, inserts, Others>>

-----------------------------------------------------------------------------
(* CleanAllExpiredData: each step takes its own time first.                 *)

Step(from, to) ==
  /\ clean = from /\ clean' = to
  /\ UNCHANGED <<now, last, at, shot, inserts, shots>>

StartCron ==
  /\ Step("idle", "files") /\ expire' = now - SnapshotDays
  /\ UNCHANGED <<files, rows, errors>>

Old(dirs) == {f \in files : f.path[1] \in dirs /\ f.mtime < expire}

\* A failed removal is ignored, an error of the walk ends it.
Remove(old) ==
  \/ files' = files \ old /\ UNCHANGED errors
  \/ /\ errors < MaxErrors /\ errors' = errors + 1
     /\ \E gone \in SUBSET old : files' = files \ gone

CleanExpiredSnapshot ==
  /\ Step("files", "records")
  /\ expire' = now - RecordDays
  /\ IF SnapshotDays > 0 THEN Remove(Old({"original", "roi"})) ELSE UNCHANGED <<files, errors>>
  /\ UNCHANGED rows

\* Mutation: the walk starts at the root of the pictures.
CleanRecordWrongRoot ==
  /\ Step("records", "rows")
  /\ expire' = now - SnapshotDays
  /\ IF EnableRecording /\ RecordDays > 0 THEN Remove(Old({"original", "roi"}))
                                          ELSE UNCHANGED <<files, errors>>
  /\ UNCHANGED rows

CleanExpiredRecord ==
  /\ Step("records", "rows")
  /\ expire' = now - SnapshotDays
  /\ IF EnableRecording /\ RecordDays > 0 THEN Remove(Old({"record"}))
                                          ELSE UNCHANGED <<files, errors>>
  /\ UNCHANGED rows

\* A failed statement is only logged.
CleanExpiredDBSnapshot ==
  /\ Step("rows", "idle")
  /\ \/ /\ rows' = IF SnapshotDays > 0 THEN {r \in rows : r.at >= expire} ELSE rows
        /\ UNCHANGED errors
     \/ /\ errors < MaxErrors /\ errors' = errors + 1
        /\ UNCHANGED rows
  /\ UNCHANGED <<files, expire>>

Clean == CleanExpiredSnapshot \/ CleanExpiredRecord \/ CleanExpiredDBSnapshot

Clock ==
  /\ now < MaxTime /\ now' = now + 1
  /\ UNCHANGED <<files, rows, last, at, shot, inserts, Others>>

Next ==
  \/ \E v \in Viewers : Viewer(v)
  \/ \E s \in Streams : Segment(s)
  \/ StartCron \/ Clean
  \/ Clock

\* The cron library starts the task again and again, time goes on.
Fairness == WF_vars(StartCron) /\ WF_vars(Clean) /\ WF_vars(Clock)

Spec == Init /\ [][Next]_vars /\ Fairness

-----------------------------------------------------------------------------
(* Properties.                                                              *)

\* The URLs that the alarm list, the last picture or a goroutine still hold.
Held == {r.url : r \in rows} \union {GetLastSnapshot(s) : s \in Streams}
          \union {i[2] : i \in inserts}

\* A URL that was given out leads to a file: one that could not be written has
\* another URL, and only the age of a picture takes the file away, although files
\* and rows are deleted by different clocks and in different steps.
UrlsLeadToFiles ==
  \A url \in Held \ {NoPicture} :
    (\E f \in files : f.path = url) \/ (SnapshotDays > 0 /\ now - url[3] > SnapshotDays)

\* The picture of a row was taken by the viewer that inserted it, or by another
\* viewer of the same stream in the same millisecond; never of another camera.
RowShowsItsStream ==
  \A r \in rows, f \in files :
    f.path = r.url => f.by = r.by \/ StreamOf[f.by] = StreamOf[r.by]

\* Again and again nothing is left that is older than its retention, neither files
\* nor rows, in spite of errors in earlier runs of the task.
ExpiredIsRemoved ==
  []<>( /\ SnapshotDays > 0 =>
             /\ \A f \in files : f.path[1] # "record" => now - f.mtime <= SnapshotDays
             /\ \A r \in rows : now - r.at <= SnapshotDays
        /\ RecordDays > 0 /\ EnableRecording =>
             \A f \in files : f.path[1] = "record" => now - f.mtime <= RecordDays )
=============================================================================
