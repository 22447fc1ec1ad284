--------------------------- MODULE RetentionProofs ---------------------------
(* For any viewers, cameras and retention times: a URL that was given out   *)
(* leads to a picture of the row's camera for as long as it is young,       *)
(* whatever fails and however the cleanup interleaves.                      *)
EXTENDS Retention, TLAPS

\* A file is written no earlier than it is named, and shows a camera of its viewer.
FilesRight ==
  \A f \in files : f.path[3] <= f.mtime /\ f.path[2] = StreamOf[f.by]

\* The expiry of the pictures was computed before they are looked at.
ExpiryPassed == clean = "files" => expire <= now - SnapshotDays

\* Only names of region pictures are handed out, of the stream of who hands them out.
IsShot(url, s) == url # NoPicture => url[1] = "roi" /\ url[2] = s

NamesRight ==
  /\ \A v \in Viewers : /\ IsShot(shot[v], StreamOf[v])
                        /\ at[v] = "write" => shot[v] # NoPicture /\ shot[v][3] <= now
  /\ \A s \in Streams : IsShot(last[s], s)
  /\ \A r \in rows : IsShot(r.url, StreamOf[r.by])
  /\ \A i \in inserts : IsShot(i[2], StreamOf[i[1]])

\* A URL that leads to a file, or is too old for that.
Leads(url) ==
  \/ \E f \in files : f.path = url
  \/ SnapshotDays > 0 /\ now - url[3] > SnapshotDays

\* Handed out, or just written by a viewer that will hand it out.
Known(url) ==
  \/ \E r \in rows : r.url = url
  \/ \E s \in Streams : last[s] = url
  \/ \E i \in inserts : i[2] = url
  \/ \E v \in Viewers : at[v] = "store" /\ shot[v] = url

\* UrlsLeadToFiles is not inductive: a URL is handed out some steps after its file was
\* written, and the cleanup may come in between.
AllLead == \A url \in Paths : Known(url) => Leads(url)

Pictures == FilesRight /\ ExpiryPassed /\ NamesRight /\ AllLead

PictureInv == RetentionAssumption /\ TypeOK /\ Pictures

-----------------------------------------------------------------------------
\* A path is a triple.
LEMMA PathFacts ==
  /\ \A p \in Paths : /\ p[1] \in {"original", "roi", "record"}
                      /\ p[2] \in Streams /\ p[3] \in Times
  /\ \A d \in {"original", "roi", "record"}, s \in Streams, t \in Times :
       /\ <<d, s, t>> \in Paths
       /\ <<d, s, t>>[1] = d /\ <<d, s, t>>[2] = s /\ <<d, s, t>>[3] = t
BY DEF Paths

LEMMA TimesAreInts == RetentionAssumption => Times \subseteq Int
BY DEF RetentionAssumption, Times

LEMMA LaterIsLarger ==
  \A e, d, t, u \in Int : t <= u /\ e <= t - d => e <= u - d
OBVIOUS

\* A file that is written: nothing else is lost, and its path leads to it.
LEMMA WrittenFacts ==
  ASSUME RetentionAssumption, TypeOK, FilesRight,
         NEW v \in Viewers, NEW p \in Paths, p[3] <= now, p[2] = StreamOf[v]
  PROVE  LET w == Written(v, p) IN
         /\ w \subseteq Files
         /\ \A f, g \in w : f.path = g.path => f = g
         /\ \A f \in w : f.path[3] <= f.mtime /\ f.path[2] = StreamOf[f.by]
         /\ \A f \in files : \E g \in w : g.path = f.path
         /\ \E g \in w : g.path = p
<1> DEFINE new == [path |-> p, by |-> v, mtime |-> now]
           w == Written(v, p)
<1>1. /\ new \in Files /\ new.path = p /\ new.by = v /\ new.mtime = now
  BY DEF Files, TypeOK
<1>2. w = {f \in files : f.path # p} \union {new}
  BY DEF Written
<1> HIDE DEF new, w
<1>3. w \subseteq Files
  BY <1>1, <1>2 DEF TypeOK
<1>4. \A f, g \in w : f.path = g.path => f = g
  BY <1>1, <1>2 DEF TypeOK
<1>5. \A f \in w : f.path[3] <= f.mtime /\ f.path[2] = StreamOf[f.by]
  BY <1>1, <1>2 DEF FilesRight
<1>6. \A f \in files : \E g \in w : g.path = f.path
  BY <1>1, <1>2
<1>7. \E g \in w : g.path = p
  BY <1>1, <1>2
<1> QED
  BY <1>3, <1>4, <1>5, <1>6, <1>7 DEF w

\* As long as no path loses its file, and time does not run back, what leads to a file
\* goes on to do so, or is old.
LEMMA LeadsKept ==
  ASSUME RetentionAssumption, TypeOK, NEW url \in Paths, Leads(url),
         now' \in Times, now <= now',
         \A f \in files : f.path = url => \E g \in files' : g.path = url
  PROVE  Leads(url)'
<1>1. now \in Int /\ now' \in Int /\ url[3] \in Int /\ SnapshotDays \in Int
  BY PathFacts, TimesAreInts DEF TypeOK, RetentionAssumption
<1>2. CASE \E f \in files : f.path = url
  BY <1>2 DEF Leads
<1>3. CASE SnapshotDays > 0 /\ now - url[3] > SnapshotDays
  BY <1>1, <1>3 DEF Leads
<1> QED
  BY <1>2, <1>3 DEF Leads

\* A step that hands nothing new out and takes no file away.
LEMMA AllLeadKept ==
  ASSUME RetentionAssumption, TypeOK, AllLead, now' \in Times, now <= now',
         \A f \in files : \E g \in files' : g.path = f.path,
         \A url \in Paths : Known(url)' => Known(url) \/ Leads(url)'
  PROVE  AllLead'
<1> SUFFICES ASSUME NEW url \in Paths, Known(url)'
             PROVE  Leads(url)'
  BY DEF AllLead
<1> QED
  BY LeadsKept DEF AllLead

-----------------------------------------------------------------------------
LEMMA InitPictures == RetentionAssumption /\ Init => PictureInv
<1> SUFFICES ASSUME RetentionAssumption, Init
             PROVE  TypeOK /\ Pictures
  BY DEF PictureInv
<1>1. TypeOK
  BY DEF Init, TypeOK, RetentionAssumption, Times, Urls, Files
<1>2. FilesRight /\ ExpiryPassed /\ NamesRight
  BY DEF Init, FilesRight, ExpiryPassed, NamesRight, IsShot
<1>3. AllLead
  BY DEF Init, AllLead, Known, RetentionAssumption
<1> QED
  BY <1>1, <1>2, <1>3 DEF Pictures

\* What every step of a viewer leaves alone.
LEMMA DetectKeeps ==
  ASSUME PictureInv, NEW v \in Viewers, Detect(v)
  PROVE  TypeOK' /\ Pictures'
<1> USE DEF PictureInv, Pictures
<1>1. TypeOK'
  BY DEF Detect, TypeOK, RetentionAssumption
<1>2. FilesRight' /\ ExpiryPassed'
  BY DEF Detect, FilesRight, ExpiryPassed
<1>3. \A u \in Viewers : at'[u] \in {"write", "store"} => at[u] = at'[u]
  BY DEF Detect, TypeOK
<1>4. NamesRight'
  BY <1>3 DEF Detect, NamesRight, IsShot
<1>5. AllLead'
  BY <1>3 DEF Detect, AllLead, Known, Leads
<1> QED
  BY <1>1, <1>2, <1>4, <1>5

LEMMA SaveOriginalKeeps ==
  ASSUME PictureInv, NEW v \in Viewers, SaveOriginal(v)
  PROVE  TypeOK' /\ Pictures'
<1> USE DEF PictureInv, Pictures
<1> DEFINE p == <<"original", StreamOf[v], now>>
<1>1. p \in Paths /\ p[2] = StreamOf[v] /\ p[3] = now /\ now <= now
  BY PathFacts, TimesAreInts DEF TypeOK, RetentionAssumption
<1> HIDE DEF p
<1>2. /\ files' \subseteq Files
      /\ \A f, g \in files' : f.path = g.path => f = g
      /\ FilesRight'
      /\ \A f \in files : \E g \in files' : g.path = f.path
  <2>1. CASE files' = files
    BY <2>1 DEF TypeOK, FilesRight
  <2>2. CASE files' = Written(v, p)
    BY <1>1, <2>2, WrittenFacts DEF FilesRight
  <2> QED
    BY <2>1, <2>2 DEF SaveOriginal, p
<1>3. TypeOK'
  BY <1>2 DEF SaveOriginal, Others, TypeOK
<1>4. \A u \in Viewers : at'[u] \in {"write", "store"} => at[u] = at'[u]
  BY DEF SaveOriginal, TypeOK
<1>5. NamesRight' /\ ExpiryPassed'
  BY <1>4 DEF SaveOriginal, Others, NamesRight, IsShot, ExpiryPassed
<1>6. \A url \in Paths : Known(url)' => Known(url)
  BY <1>4 DEF SaveOriginal, Known
<1>7. AllLead'
  BY <1>1, <1>2, <1>6, AllLeadKept DEF SaveOriginal, TypeOK
<1> QED
  BY <1>2, <1>3, <1>5, <1>7

LEMMA NameRoiKeeps ==
  ASSUME PictureInv, NEW v \in Viewers, NameRoi(v)
  PROVE  TypeOK' /\ Pictures'
<1> USE DEF PictureInv, Pictures
<1> DEFINE p == <<"roi", StreamOf[v], now>>
<1>1. p \in Paths /\ p[1] = "roi" /\ p[2] = StreamOf[v] /\ p[3] = now /\ now <= now
  BY PathFacts, TimesAreInts DEF TypeOK, RetentionAssumption
<1>2. p # NoPicture
  BY <1>1 DEF RetentionAssumption
<1>3. \A u \in Viewers : /\ shot'[u] = IF u = v THEN p ELSE shot[u]
                         /\ at'[u] = IF u = v THEN "write" ELSE at[u]
  BY DEF NameRoi, TypeOK
<1>4. UNCHANGED <<now, files, rows, last, inserts, clean, expire, errors, shots>>
  BY DEF NameRoi, Others
<1> HIDE DEF p
<1>5. TypeOK'
  <2>1. shot' \in [Viewers -> Urls] /\ at' \in [Viewers -> {"idle", "original", "name", "write", "store"}]
    BY <1>1, <1>3 DEF NameRoi, TypeOK, Urls, p
  <2> QED
    BY <1>4, <2>1 DEF TypeOK
<1>6. FilesRight' /\ ExpiryPassed'
  BY <1>4 DEF FilesRight, ExpiryPassed
<1>7. NamesRight'
  BY <1>1, <1>2, <1>3, <1>4 DEF NamesRight, IsShot
<1>8. AllLead'
  BY <1>3, <1>4 DEF AllLead, Known, Leads
<1> QED
  BY <1>5, <1>6, <1>7, <1>8

LEMMA WriteRoiKeeps ==
  ASSUME PictureInv, NEW v \in Viewers, WriteRoi(v)
  PROVE  TypeOK' /\ Pictures'
<1> USE DEF PictureInv, Pictures
<1> DEFINE p == shot[v]
<1>0. at[v] = "write" /\ p \in Urls /\ now \in Times
  BY DEF WriteRoi, TypeOK
<1>1. p \in Paths /\ p # NoPicture /\ p[3] <= now /\ p[2] = StreamOf[v]
  BY <1>0 DEF NamesRight, IsShot, Urls
<1>2. /\ UNCHANGED <<now, rows, last, inserts, clean, expire, errors, shots>>
      /\ \A u \in Viewers : /\ at'[u] = IF u = v THEN "store" ELSE at[u]
                            /\ shot'[u] \in {shot[u], NoPicture}
                            /\ u # v => shot'[u] = shot[u]
      /\ files' \in {files, Written(v, p)}
      /\ shot'[v] = p => files' = Written(v, p)
      /\ shot' \in [Viewers -> Urls]
      /\ at' \in [Viewers -> {"idle", "original", "name", "write", "store"}]
  BY <1>1 DEF WriteRoi, Others, TypeOK, Urls
<1> HIDE DEF p
<1>3. /\ files' \subseteq Files
      /\ \A f, g \in files' : f.path = g.path => f = g
      /\ FilesRight'
      /\ \A f \in files : \E g \in files' : g.path = f.path
      /\ shot'[v] = p => \E g \in files' : g.path = p
  <2>1. CASE files' = files /\ shot'[v] # p
    BY <2>1 DEF TypeOK, FilesRight
  <2>2. CASE files' = Written(v, p)
    BY <1>1, <2>2, WrittenFacts DEF FilesRight
  <2> QED
    BY <1>2, <2>1, <2>2
<1>4. TypeOK'
  BY <1>2, <1>3 DEF TypeOK
<1>5. NamesRight' /\ ExpiryPassed'
  BY <1>2 DEF NamesRight, IsShot, ExpiryPassed
<1>6. ASSUME NEW url \in Paths, Known(url)'
      PROVE  Known(url) \/ Leads(url)'
  <2>1. CASE \E u \in Viewers : u # v /\ at'[u] = "store" /\ shot'[u] = url
    BY <1>2, <2>1 DEF Known
  <2>2. CASE shot'[v] = url
    <3>1. shot'[v] = p
      BY <1>2, <2>2 DEF RetentionAssumption, p
    <3> QED
      BY <1>3, <2>2, <3>1 DEF Leads
  <2> QED
    BY <1>2, <1>6, <2>1, <2>2 DEF Known
<1>7. AllLead'
  <2>1. now' \in Times /\ now <= now'
    BY <1>0, <1>2, TimesAreInts
  <2> QED
    BY <1>3, <1>6, <2>1, AllLeadKept
<1> QED
  BY <1>3, <1>4, <1>5, <1>7

\* The name passes from the viewer to the map of last pictures and to a goroutine.
LEMMA StoreKeeps ==
  ASSUME PictureInv, NEW v \in Viewers, Store(v)
  PROVE  TypeOK' /\ Pictures'
<1> USE DEF PictureInv, Pictures
<1>1. /\ at[v] = "store" /\ StreamOf[v] \in Streams /\ shot[v] \in Urls
      /\ UNCHANGED <<now, files, rows, shot, clean, expire, errors, shots>>
      /\ \A s \in Streams : last'[s] = IF s = StreamOf[v] THEN shot[v] ELSE last[s]
      /\ \A u \in Viewers : at'[u] = IF u = v THEN "idle" ELSE at[u]
      /\ inserts' \subseteq inserts \union {<<v, shot[v]>>}
      /\ last' \in [Streams -> Urls]
      /\ at' \in [Viewers -> {"idle", "original", "name", "write", "store"}]
  BY DEF Store, Others, TypeOK, RetentionAssumption
<1>2. <<v, shot[v]>>[1] = v /\ <<v, shot[v]>>[2] = shot[v]
  OBVIOUS
<1>3. TypeOK'
  BY <1>1 DEF TypeOK
<1>4. FilesRight' /\ ExpiryPassed'
  BY <1>1 DEF FilesRight, ExpiryPassed
<1>5. NamesRight'
  BY <1>1, <1>2 DEF NamesRight, IsShot
<1>6. \A url \in Paths : Known(url)' => Known(url)
  BY <1>1, <1>2 DEF Known
<1>7. AllLead'
  BY <1>1, <1>6 DEF AllLead, Leads
<1> QED
  BY <1>3, <1>4, <1>5, <1>7

LEMMA InsertKeeps ==
  ASSUME PictureInv, NEW v \in Viewers, NEW url \in Urls, SaveSnapshotToDB(v, url)
  PROVE  TypeOK' /\ Pictures'
<1> USE DEF PictureInv, Pictures
<1> DEFINE row == [by |-> v, url |-> url, at |-> now]
<1>1. /\ row \in [by : Viewers, url : Urls, at : Times]
      /\ row.by = v /\ row.url = url
      /\ <<v, url>>[1] = v /\ <<v, url>>[2] = url
  BY DEF TypeOK
<1>2. /\ <<v, url>> \in inserts /\ inserts' \subseteq inserts
      /\ rows' \subseteq rows \union {row}
      /\ UNCHANGED <<now, files, last, at, shot, clean, expire, errors, shots>>
  BY DEF SaveSnapshotToDB, Others
<1> HIDE DEF row
<1>3. TypeOK'
  BY <1>1, <1>2 DEF TypeOK
<1>4. FilesRight' /\ ExpiryPassed'
  BY <1>2 DEF FilesRight, ExpiryPassed
<1>5. NamesRight'
  BY <1>1, <1>2 DEF NamesRight, IsShot
<1>6. \A u \in Paths : Known(u)' => Known(u)
  BY <1>1, <1>2 DEF Known
<1>7. AllLead'
  BY <1>2, <1>6 DEF AllLead, Leads
<1> QED
  BY <1>3, <1>4, <1>5, <1>7

LEMMA SegmentKeeps ==
  ASSUME PictureInv, NEW s \in Streams, Segment(s)
  PROVE  TypeOK' /\ Pictures'
<1> USE DEF PictureInv, Pictures
<1> DEFINE p == <<"record", s, now>>
           v == CHOOSE v \in Viewers : StreamOf[v] = s
<1>1. v \in Viewers /\ StreamOf[v] = s
  BY DEF Segment
<1>2. p \in Paths /\ p[2] = s /\ p[3] = now /\ now <= now
  BY PathFacts, TimesAreInts DEF TypeOK, RetentionAssumption
<1>3. /\ files' = Written(v, p)
      /\ UNCHANGED <<now, rows, last, at, shot, inserts, clean, expire, errors, shots>>
  BY DEF Segment, Others
<1> HIDE DEF p, v
<1>4. /\ files' \subseteq Files
      /\ \A f, g \in files' : f.path = g.path => f = g
      /\ FilesRight'
      /\ \A f \in files : \E g \in files' : g.path = f.path
  BY <1>1, <1>2, <1>3, WrittenFacts DEF FilesRight
<1>5. TypeOK' /\ ExpiryPassed' /\ NamesRight'
  BY <1>3, <1>4 DEF TypeOK, ExpiryPassed, NamesRight, IsShot
<1>6. AllLead'
  <2>1. \A url \in Paths : Known(url)' => Known(url)
    BY <1>3 DEF Known
  <2> QED
    BY <1>2, <1>3, <1>4, <2>1, AllLeadKept DEF TypeOK
<1> QED
  BY <1>4, <1>5, <1>6

LEMMA ClockKeeps == ASSUME PictureInv, Clock PROVE TypeOK' /\ Pictures'
<1> USE DEF PictureInv, Pictures
<1>1. /\ now' \in Times /\ now <= now' /\ now \in Int /\ now' \in Int
      /\ UNCHANGED <<files, rows, last, at, shot, inserts, clean, expire, errors, shots>>
  BY DEF Clock, Others, TypeOK, Times, RetentionAssumption
<1>2. TypeOK' /\ FilesRight'
  BY <1>1 DEF TypeOK, FilesRight
<1>3. ExpiryPassed'
  <2>1. expire' = expire /\ clean' = clean
    BY <1>1
  <2>2. expire \in Int /\ SnapshotDays \in Int
    BY DEF TypeOK, RetentionAssumption
  <2>3. now \in Int /\ now' \in Int /\ now <= now'
    BY <1>1
  <2>4. expire <= now - SnapshotDays => expire <= now' - SnapshotDays
    BY <2>2, <2>3, LaterIsLarger
  <2> QED
    BY <2>1, <2>4 DEF ExpiryPassed
<1>4. NamesRight'
  <2>1. \A v \in Viewers : at[v] = "write" => shot[v][3] \in Int
    BY PathFacts, TimesAreInts DEF NamesRight, TypeOK, Urls
  <2>2. \A v \in Viewers : at[v] = "write" => shot[v][3] <= now'
    BY <1>1, <2>1 DEF NamesRight
  <2> QED
    BY <1>1, <2>2 DEF NamesRight, IsShot
<1>5. AllLead'
  <2>1. \A url \in Paths : Known(url)' => Known(url)
    BY <1>1 DEF Known
  <2> QED
    BY <1>1, <2>1, AllLeadKept
<1> QED
  BY <1>2, <1>3, <1>4, <1>5

-----------------------------------------------------------------------------
(* The cleanup.                                                             *)

\* A step of the task that removes files: only old ones go.
LEMMA CleaningKeeps ==
  ASSUME PictureInv, files' \subseteq files,
         UNCHANGED <<now, last, at, shot, inserts, shots>>,
         rows' \subseteq rows, clean' \in {"idle", "files", "records", "rows"},
         expire' \in Int, errors' \in 0 .. MaxErrors, ExpiryPassed',
         \A f \in files : f.path \in Paths /\ f \notin files' =>
           f.path[1] = "record" \/ (SnapshotDays > 0 /\ now - f.path[3] > SnapshotDays)
  PROVE  TypeOK' /\ Pictures'
<1> USE DEF PictureInv, Pictures
<1>1. TypeOK' /\ FilesRight'
  BY DEF TypeOK, FilesRight
<1>2. NamesRight'
  BY DEF NamesRight, IsShot
<1>3. ASSUME NEW url \in Paths, Known(url)'
      PROVE  Leads(url)'
  <2>1. Known(url)
    BY <1>3 DEF Known
  <2>2. url[1] # "record"
    BY <2>1 DEF Known, NamesRight, IsShot, RetentionAssumption
  <2>3. CASE \E f \in files : f.path = url
    <3>1. PICK f \in files : f.path = url
      BY <2>3
    <3>2. CASE f \in files'
      BY <3>1, <3>2 DEF Leads
    <3>3. CASE f \notin files'
      BY <2>2, <3>1, <3>3 DEF Leads
    <3> QED
      BY <3>2, <3>3
  <2>4. CASE SnapshotDays > 0 /\ now - url[3] > SnapshotDays
    BY <2>4 DEF Leads
  <2> QED
    BY <2>1, <2>3, <2>4 DEF AllLead, Leads
<1> QED
  BY <1>1, <1>2, <1>3 DEF AllLead

LEMMA RemoveFacts ==
  ASSUME TypeOK, RetentionAssumption, NEW dirs, Remove(Old(dirs))
  PROVE  /\ files' \subseteq files /\ errors' \in 0 .. MaxErrors
         /\ \A f \in files \ files' : f.path[1] \in dirs /\ f.mtime < expire
BY DEF Remove, Old, TypeOK, RetentionAssumption

LEMMA StartCronKeeps == ASSUME PictureInv, StartCron PROVE TypeOK' /\ Pictures'
<1>1. now \in Int /\ SnapshotDays \in Int
  BY TimesAreInts DEF PictureInv, TypeOK, RetentionAssumption
<1>2. /\ expire' = now - SnapshotDays /\ clean' = "files"
      /\ UNCHANGED <<files, rows, errors, now, last, at, shot, inserts, shots>>
  BY DEF StartCron, Step
<1>3. ExpiryPassed' /\ expire' \in Int
  BY <1>1, <1>2 DEF ExpiryPassed
<1> QED
  BY <1>2, <1>3, CleaningKeeps DEF PictureInv, TypeOK

\* A picture that is removed was written before the expiry, and named before that.
LEMMA CleanSnapshotKeeps ==
  ASSUME PictureInv, CleanExpiredSnapshot
  PROVE  TypeOK' /\ Pictures'
<1> USE DEF PictureInv, Pictures
<1>1. now \in Int /\ SnapshotDays \in Int /\ RecordDays \in Int /\ expire \in Int
  BY TimesAreInts DEF TypeOK, RetentionAssumption
<1>2. /\ clean = "files" /\ clean' = "records" /\ expire' = now - RecordDays
      /\ UNCHANGED <<rows, now, last, at, shot, inserts, shots>>
  BY DEF CleanExpiredSnapshot, Step
<1>3. CASE SnapshotDays > 0
  <2>1. Remove(Old({"original", "roi"}))
    BY <1>3 DEF CleanExpiredSnapshot
  <2>2. /\ files' \subseteq files /\ errors' \in 0 .. MaxErrors
        /\ \A f \in files \ files' : f.mtime < expire
    BY <2>1, RemoveFacts
  <2>3. \A f \in files \ files' : now - f.path[3] > SnapshotDays
    <3> SUFFICES ASSUME NEW f \in files \ files'
                 PROVE  now - f.path[3] > SnapshotDays
      OBVIOUS
    <3>1. f.path[3] \in Int /\ f.mtime \in Int
      BY PathFacts, TimesAreInts DEF TypeOK, Files
    <3>2. f.path[3] <= f.mtime /\ f.mtime < expire /\ expire <= now - SnapshotDays
      BY <1>2, <2>2 DEF FilesRight, ExpiryPassed
    <3> QED
      BY <1>1, <3>1, <3>2
  <2>4. ExpiryPassed' /\ expire' \in Int
    BY <1>1, <1>2 DEF ExpiryPassed
  <2> QED
    BY <1>2, <1>3, <2>2, <2>3, <2>4, CleaningKeeps
<1>4. CASE ~(SnapshotDays > 0)
  <2>1. UNCHANGED <<files, errors>>
    BY <1>4 DEF CleanExpiredSnapshot
  <2>2. ExpiryPassed' /\ expire' \in Int
    BY <1>1, <1>2 DEF ExpiryPassed
  <2> QED
    BY <1>2, <2>1, <2>2, CleaningKeeps DEF TypeOK
<1> QED
  BY <1>3, <1>4

LEMMA CleanRecordKeeps ==
  ASSUME PictureInv, CleanExpiredRecord
  PROVE  TypeOK' /\ Pictures'
<1> USE DEF PictureInv, Pictures
<1>1. now \in Int /\ SnapshotDays \in Int
  BY TimesAreInts DEF TypeOK, RetentionAssumption
<1>2. /\ clean' = "rows" /\ expire' = now - SnapshotDays
      /\ UNCHANGED <<rows, now, last, at, shot, inserts, shots>>
  BY DEF CleanExpiredRecord, Step
<1>3. /\ files' \subseteq files /\ errors' \in 0 .. MaxErrors
      /\ \A f \in files \ files' : f.path[1] = "record"
  <2>1. CASE EnableRecording /\ RecordDays > 0
    <3>1. Remove(Old({"record"}))
      BY <2>1 DEF CleanExpiredRecord
    <3> QED
      BY <3>1, RemoveFacts
  <2>2. CASE ~(EnableRecording /\ RecordDays > 0)
    BY <2>2 DEF CleanExpiredRecord, TypeOK
  <2> QED
    BY <2>1, <2>2
<1>4. ExpiryPassed' /\ expire' \in Int
  BY <1>1, <1>2 DEF ExpiryPassed
<1> QED
  BY <1>2, <1>3, <1>4, CleaningKeeps

LEMMA CleanRowsKeeps ==
  ASSUME PictureInv, CleanExpiredDBSnapshot
  PROVE  TypeOK' /\ Pictures'
<1> USE DEF PictureInv, Pictures
<1>1. /\ clean' = "idle"
      /\ UNCHANGED <<files, expire, now, last, at, shot, inserts, shots>>
      /\ rows' \subseteq rows
      /\ errors' \in {errors, errors + 1} /\ (errors' # errors => errors < MaxErrors)
  BY DEF CleanExpiredDBSnapshot, Step
<1>2. errors' \in 0 .. MaxErrors
  BY <1>1 DEF TypeOK, RetentionAssumption
<1>3. ExpiryPassed' /\ expire' \in Int
  BY <1>1 DEF ExpiryPassed, TypeOK
<1> QED
  BY <1>1, <1>2, <1>3, CleaningKeeps

-----------------------------------------------------------------------------
LEMMA StepPictures == PictureInv /\ [Next]_vars => PictureInv'
<1> SUFFICES ASSUME PictureInv, [Next]_vars
             PROVE  TypeOK' /\ Pictures'
  BY DEF PictureInv, RetentionAssumption, Paths, Times
<1>1. ASSUME NEW v \in Viewers, Viewer(v)
      PROVE  TypeOK' /\ Pictures'
  BY <1>1, DetectKeeps, SaveOriginalKeeps, NameRoiKeeps, WriteRoiKeeps, StoreKeeps,
     InsertKeeps DEF Viewer
<1>2. CASE Clean
  BY <1>2, CleanSnapshotKeeps, CleanRecordKeeps, CleanRowsKeeps DEF Clean
<1>3. CASE UNCHANGED vars
  <2>1. TypeOK'
    BY <1>3 DEF vars, PictureInv, TypeOK
  <2>2. FilesRight' /\ ExpiryPassed' /\ NamesRight'
    BY <1>3 DEF vars, PictureInv, Pictures, FilesRight, ExpiryPassed, NamesRight, IsShot
  <2>3. AllLead'
    BY <1>3 DEF vars, PictureInv, Pictures, AllLead, Known, Leads
  <2> QED
    BY <2>1, <2>2, <2>3 DEF Pictures
<1> QED
  BY <1>1, <1>2, <1>3, SegmentKeeps, StartCronKeeps, ClockKeeps DEF Next

LEMMA PicturesLead == PictureInv => UrlsLeadToFiles
<1> SUFFICES ASSUME PictureInv, NEW url \in Held \ {NoPicture}
             PROVE  Leads(url)
  BY DEF UrlsLeadToFiles, Leads
<1>1. Known(url)
  BY DEF Held, GetLastSnapshot, Known
<1>2. url \in Urls
  BY <1>1 DEF Known, PictureInv, TypeOK
<1> QED
  BY <1>1, <1>2 DEF Urls, PictureInv, Pictures, AllLead

LEMMA RowsShow == PictureInv => RowShowsItsStream
<1> SUFFICES ASSUME PictureInv, NEW r \in rows, NEW f \in files, f.path = r.url
             PROVE  StreamOf[f.by] = StreamOf[r.by]
  BY DEF RowShowsItsStream
<1>1. r.url # NoPicture
  BY DEF PictureInv, TypeOK, Files, RetentionAssumption
<1> QED
  BY <1>1 DEF PictureInv, Pictures, NamesRight, IsShot, FilesRight

\* A URL that the alarm list, the map of last pictures or a goroutine holds leads to a
\* file until its picture is older than the retention, and the picture of a row is one of
\* the row's camera (DetectionWSHandler and the task of clearpicturedbtask.go).
THEOREM PicturesKept ==
  ASSUME RetentionAssumption
  PROVE  Spec => [](TypeOK /\ UrlsLeadToFiles /\ RowShowsItsStream)
<1>1. RetentionAssumption /\ Spec => []PictureInv
  BY InitPictures, StepPictures, PTL DEF Spec
<1>2. PictureInv => TypeOK
  BY DEF PictureInv
<1> QED
  BY <1>1, <1>2, PicturesLead, RowsShow, PTL
=============================================================================
