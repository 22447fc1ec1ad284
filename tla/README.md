# A TLA+ model of go-nvr

go-nvr is a network video recorder with detection. It takes camera streams from
go2rtc, runs YOLO on the frames of the streams somebody watches, and when it
finds a person or a vehicle in a configured region it pushes the result to the
viewer's websocket, saves pictures, starts an alarm recording in MediaMTX, and
raises *slow* and *stop* signals, forward and back, on the coils of a Siemens S7
PLC. This directory holds a TLA+ model of it, the TLC runs that check it on small
instances, and TLAPS proofs about it.

Run the tools in this directory:

    tlc -workers 2 -config plc_faults.cfg MCPlcController.tla
    tlc -workers 2 -config session.cfg DetectionSession.tla
    tlapm DetectionSessionProofs.tla

`PROJECT.json` lists the runs, the mutants (a plausible bug per property, which
the run must find), the source lines of every definition, the findings, the
hazards and the theorems.

## 1. Inventory

Paths are relative to the repository (`src/` in the map).

| Component | Code | State | Operations | Hard about it |
|---|---|---|---|---|
| PLC controller | `pkg/plc/plccontroller.go`, `plc_manager.go` | `connected`, `lastWritten` (cache of coils), `actionHolds` (time of the last report per action and camera), `lastReconnect`, `stopChan`, queue of 20 | `Run` (connect, startup sequence, select over stop, queue and 50 ms ticker), `HeartbeatLoop`, `WriteBit`, `ResetAllSignals`, `ResetExpiredSignals`, `Stop` | two goroutines share one connection; a check outside the lock; a cache that stands for a device that can restart; reconnects with a reset in the middle of an alarm; expiry |
| PLC client | `pkg/plc/plcs7.go` | the TCP session | connect, close, read-modify-write of a bit | a write may be executed and its answer lost |
| Alarm sender | `SendSignalsToPLC` in `cmd/logic/deviceLogic.go` | `signalStateMap`: time of the last send per stream and signal | merge, debounce (1 s), blocking send of stops, non-blocking send of slows | a full queue, a suppressed signal the controller does not have |
| Detection session | `DetectionWSHandler`, `pkg/ffmpeg/rawvideo.go`, `frame_pool.go`, `ffmpeg.go` | two channels (5 and 16), context, frame counter, two buffer pools | decode, forward every n-th frame, infer, save, push; reconnect; disconnect | four goroutines, buffers recycled by hand, a configuration that changes meanwhile, a decoder that outlives its reader |
| Alarm recording | `cmd/logic/utils/videoLinkage.go` and its callers | `RecordingStatus` per stream with a mutex, shared by all viewers; MediaMTX's `record` flag; `pathInitMap` | start, stop, timeout check every 2 s, configuration of the path | nested locking; several owners of one flag; a mark set before the work it stands for |
| ONNX session pool | `pkg/common/onnx_util.go` | a channel of sessions, a map under `ModelsMu` | acquire (500 ms), release, destroy | destroyed while sessions are in use |
| Inference | `pkg/common/yolo.go`, `pkg/grpc/client_grpc.go`, `analysis_py/server.py` | the engine of the moment, the gRPC client, a thread pool, two lists of contexts and streams | choose the engine, call, serve, go down | a pool that does not wait; a client made at start only; a call without a deadline |
| Boxes | `pkg/common/yolo.go`, `postprocess` of `server.py` | none | letterbox, map back, suppress | rounding in three places; order and ties |
| Regions and signals | `cmd/logic/utils/screenshot.go`, the frame loop of `DetectionWSHandler` | none | point in polygon, enclosing rectangle, crop or filter, signals | geometry at the edges; objects on the edge of a crop, which the engines box differently; signals are collected before the confidence filter; two modes that should agree and count differently |
| Zones | `SaveZones`, `GetZones`, `cmd/service/isql/deviceService.go` | table of regions | delete and insert, first, load on connect | no transaction |
| Pictures and retention | `pkg/task/clearpicturedbtask.go`, the snapshots of `DetectionWSHandler` | files, rows, the last picture per stream | save, insert from a goroutine, nightly removal | files and rows expire separately, by different clocks |
| Alarm list | `GetSnapshot`, `pkg` paging, `deviceService.go` | rows by time | page by offset | rows come and go between pages |
| Supervision | `go2rtc.go`, `mediamtx.go`, `main.go`, `RestartHandler` | child processes, contexts, globals | start, stop with a 3 s limit, restart, shutdown | several goroutines stop the same process; a command that is never recorded |
| Configuration | `pkg/config/config.go`, `SaveConfigHandler`, `ReadConfigHandler` | `config.yaml`, the global `Conf` | load, hot reload, save, read | a save that truncates first, a watcher that reads half a file, keys that are missing |
| License | `pkg/license` | none | one check at start | dates and clocks |
| Proxy, routes, middleware, models, database set-up, ONVIF, ISAPI, FTP, helpers | the rest | none of their own | request in, answer out | I/O only |

How they interact. A viewer's handler loads the regions, sees to the path in
MediaMTX and then owns a decoder (channel of frames), an inference goroutine
(`detectChan`), a listener and, if recording is enabled, a timeout check. The
inference goroutine calls the engine, the pictures, `SendSignalsToPLC` and the
websocket one after the other, so each can delay the next frame. All viewers
share `signalStateMap`, the recording status of their stream, the two frame
pools, the session pool and the PLC queue. The queue has one reader, `Run`, which
shares the S7 connection with the heartbeat goroutine. Every goroutine reads
`Conf`, which the watcher of `config.yaml` overwrites. Nothing but `main` and
`RestartHandler` ends the program; neither waits for the handlers.

What makes each correct, in short: the coils of the device follow the reports
that are still held, over every loss of connection; no alarm is lost between a
detection and the coils; a frame buffer has one owner and shows the frame it is
said to show; a viewer that leaves leaves nothing behind; results come in order;
the boxes lie where the objects are and both modes agree on them; a saved
configuration, a region or a picture stays until something visible takes it
away; a process that ends takes its media servers with it.

## 2. Modules

| Module | Models |
|---|---|
| `PlcSignals` | the pure data path: merge, `CameraData`, actions held, coils |
| `PlcController` | the controller with arbitrary senders, device and network |
| `PlcPipeline` | the controller with the program's senders instead |
| `PlcAlarms` | the pipeline with a history of the detections |
| `AlarmLatch` | what the pipeline promises for stop alarms (abstract) |
| `DetectionSession` | one viewer of one stream: goroutines, channels, pools |
| `Recording` | the mutex of the recording status and all its callers |
| `MediaPath` | `EnsureMediaMTXPath`: the mark, the retries, MediaMTX coming and going |
| `SessionPool` | the pool of ONNX sessions, its users and its destruction on exit |
| `Inference` | the choice of the engine, the gRPC call and the TensorRT service |
| `Allocator` | what both pools promise (abstract) |
| `Boxes` | letterbox, back mapping and non-maximum suppression of one image |
| `Regions` | polygons, rectangles, both detection modes and the signals of one frame |
| `Zones` | saving the regions of a stream |
| `Retention` | pictures, rows, the last picture and the nightly cleanup |
| `Paging` | a reader of the alarm list among inserts and removals |
| `Supervision` | server processes, their media servers and whoever stops them |
| `ConfigFile` | `config.yaml`, its savers, its watcher and the start that reads it |
| `*Proofs` | theorems (section 5) |
| `MC*` | the instances of the runs (section 3) |

Mutants stand beside what they replace, with a comment that starts with
"Mutation"; no specification uses them.

### PlcController

`job` is the position of the `Run` goroutine: `connect` (`ConnectPLC`), `reset`
and `blink` (`StartupSequence`), `select`, `tick` (the six writes of
`ResetExpiredSignals`), `check` (the rest of the ticker branch), `shutdown`,
`done`. `k` counts the calls of `WriteBit` in a job. Every call is two actions,
`RunCheck` (the test of `c.connected`, which is outside `plcLock`) and
`RunWrite` (under it), and the heartbeat has its own pair, so every
interleaving of the two goroutines, the senders, time and the network at these
points is explored. `lastWritten` and `connected` are the controller's
variables, `plcBit` the coils of the device, which only the environment and
acknowledged or unacknowledged writes change.

`link` abstracts the S7 session (the gos7 library and the network, external):
`up` a request is answered, `stale` the device can be reached but the client's
session is dead, so every request fails until `ConnectPLC`, `down` connecting
fails as well. Closing by the idle timer of gos7 is a `LinkDrop` followed by a
`LinkRestore`. Faults are counted up to `MaxFaults`; besides lost connections
`FaultKinds` admits `lostAck` (executed, answer lost), `powerCycle` (coils off,
sessions gone) and `dirtyStart` (the device kept coils of an earlier process).

Time is abstracted: `holds` and `sinceReconnect` are ages in ticks that saturate
just above `HoldTime` and `ReconnectAfter`, and `Clock` may tick at any time.
The constants of the code (5 s, 5 s, 50 ms, 20 ms, 500 ms) keep no ratio in the
model; no property depends on one.

Go's data race on `c.connected` (read without the lock) is modelled as reading
the last value written.

### PlcPipeline

`todo[c]` are the signals the call of stream `c` has still to queue, in any
order (a Go map is ranged over in random order), `sentAge` the age of
`LastTimeSec`, `nowAge` that of the `now` of the running call: a blocking send
that waited records an old time. `SendData` contains the controller's `Enqueue`.
One handler per stream is assumed, so `SignalState` has one writer; with two the
race on it is a listed hazard. Signals outside the four constants are not
considered: the code queues a report without direction for them, which the
controller ignores.

`PlcAlarms` adds `seen`, the age of the last frame of a camera that raised each
stop. It is a history: no step reads it. `AlarmLatch` knows nothing of queues,
merging, debouncing or holds. Its alarms go on when a camera detects something
and may go off only when that camera has not detected it for more than `Keep`
ticks. The mapping takes an alarm for on while it is held by the controller or
its report is still to be queued or in the queue. `Keep` is `HoldTime - Debounce`:
a hold lives `HoldTime` from the moment its report is received, but the last
detections before its end may have sent none, because one was sent up to
`Debounce` earlier. Slow alarms have no such promise, since they are dropped when
the queue is full.

### DetectionSession

One action per step of the decoder, the reader (the handler), the inference
goroutine and the listener, at the granularity of channel operations and pool
operations. A buffer is a model value; `content` says which capture its pixels
show, so reuse, tearing and copying are visible; dropping a frame, recycling and
handing over are `Release` and set operations on the two pools. `sync.Pool` may
forget buffers: `Fresh` stands for allocation, and garbage is never in `InUse`.
`HotReload` flips `use-cuda` at any time, as viper's watcher does. Recording and
PLC are off here (their default), see the other modules.

### Recording and MediaPath

In `Recording`, `mu` is the goroutine that is inside `StartRecording` or
`StopRecording` while it holds the mutex; a section that calls neither is one
step. `Lock` is the one action by which any goroutine acquires the mutex, at the
section or inside the call. `StopRecording` patches MediaMTX before it locks, and
a failed patch returns without locking: `StopSection` keeps that order.

`MediaPath` is what a handler does before that: `marked` is the entry of
`pathInitMap`, set with `LoadOrStore` before the directory is made and the
`PATCH` is sent, and taken back where the code deletes it. MediaMTX starts late,
forgets nothing and may end, which nobody notices.

### SessionPool, Inference and Allocator

In `SessionPool`, `at` is where an inference goroutine is: between the lookup in
`OnnxModels` (under `ModelsMu`) and the receive it holds no lock, so the pool can
be closed there; `DestroyAllOnnxModels` drains the channel one session at a time
with the lock held (`Locked`), which excludes lookups and releases but not
receives. A receive from the closed and empty channel yields nil and the
goroutine panics (`ReceiveNil`). The sessions that are held when the pool is
destroyed are leaked and the environment is destroyed under them.

`Inference` has the callers on the one side (the engine is read from `Conf` at
every call, so a hot reload may lead to a client that was never made) and the
Python service on the other: the executor's queue, its threads, and the lists
`contexts` and `streams`, used as stacks under one lock. Every place of `infer`
that can raise is an outcome; a failure is answered like a frame without
objects, as in the code. The service may go down and come back.

Both implement `Allocator`, by the mappings at the end of the two modules: a
session or a context is free, with one client, or gone.

### Boxes and Regions

One behaviour is one image or one frame, chosen in the initial state. In `Boxes`
`Sizes` are the widths and heights an image may have and `Answers` what the model
may say to it, any sequences of predictions. Coordinates are numerators over the
scale of the letterbox, so that the rounding of `int()` is exact; `slip` is the
one place where float64 may fall just below a whole number, for each axis. `nms`
is a recursive function over the candidates by confidence; `Sorted` are all the
orders `sort.Slice` may leave them in.

In `Regions` coordinates are subpixels. `RegionLists` are the regions a viewer may
have, `Scenes` what may be on a frame. `mode` and `engine` hold what was read from
`Conf` for the frame, and either value may be read. The ONNX engine cuts off below
the configured `Confidence`, the TensorRT service below its own `CONF_THRESH`.

Only the network is external: it finds every object that the image it is given
shows whole. An object that the edge of the image goes through may be found or
missed, and when it is found it may suppress others it overlaps, so then any
subset of what is shown may come out (`Sights`). The rest is the code's:
`processYoloOutput` clips a box to the image, here to the crop, which moves the
centre that `IsBoxInROI` tests; the Python service does not clip (`Detected`). An
`Entry` is a box with the region whose inference appended it, so that crop mode
counts an object once per region it lies in and the filter mode counts it once, as
in the code. Objects are what the suppression of `Boxes` tells apart. Any set of
the inferences of a frame may fail, which costs one region in crop mode and the
frame in the other.

The edges of a polygon are counted by index, as the loop of the code runs over
them, so that an edge which is passed twice counts twice.

### Zones, Retention and Paging

`Zones` keeps the rows of one stream by primary key: a save is a delete and an
insert with everything in between, and may fail or be cut off at each. `before`
is a history variable: the saves that were answered when this one was requested.
`GetZones` and `LoadROIsFromDB` only read the row with the lowest key, and
`RegionsKept` says of every row what it would say of theirs.
`Retention` has pictures with their modification times, rows with their
`record_at`, which the inserting goroutine takes later, the map of last pictures
and the cron task in its steps, each of which may fail. `Paging` has the reader's
offset query over rows that are ordered by whole seconds only.

### Supervision and ConfigFile

`gen` numbers the server processes; `live` are the children that run, `doomed`
those that were sent SIGKILL. `at` is where each stopper (a request to
`RestartHandler`, or the signal handler of `InitMediaMtx`) is in the stop
functions. A child that was started with `exec.CommandContext` is killed by a
goroutine of its process some time after the cancellation (`Reap`); `Replace` is
`syscall.Exec` (on Windows a new process and `os.Exit`).

In `ConfigFile` a file is a function from keys to values, empty (truncated) or
broken (two writers, or a text that is no YAML). A save truncates and then writes;
the watcher takes an event, reads what is there, and decodes it over `Conf`, whose
fields keep their values when a key is missing. A restart may come anywhere.

Every key belongs to a section, and the fields of `Conf` are pointers to sections:
one the file does not have is nil after a start. `Bad` are values of another type
than their field's. The start (`ReadInConfig`, `Decode`, `WatchConfig`, `LoadEnv`,
`Start`) ends in `dead` when the file does not parse, when `Unmarshal` returns an
error, when a variable of the environment is put into a section that is nil, and
when `main` uses one that is (`Required`: `System`, `Logs`, `Database`, `Onnx`
and that of the database driver). In a hot reload an error of `Unmarshal` is
logged: the field keeps its value, the others are decoded, and a section that was
nil is set only if all of it decodes.

## 3. Runs

Where components share no state, one run holds several of them: `part` is chosen
in the initial state, a behaviour exercises that part only, and fairness is
stated for the steps of that part. This costs the sum of the state spaces and
not their product, and keeps every property that of its own module.

| Run | Instance | Shows |
|---|---|---|
| `plc_faults` | 1 camera, queue 1, and three choices: a stop with two faults among loss, lost acknowledgement and restart; stop and slow of one direction with one of them; a two-way stop with two losses only | the coils follow the held reports (`TickPublishes`, `HeldAlarmIsAsserted`, `DeviceFollowsHolds`), `ShutdownClears`, `CoherentWhenLossless`, types |
| `pipe_live` | 1 stream, queue 1; the controller with a stop and one lost connection, lost acknowledgement or restart of the device, running on; the same with a lost connection and `Stop` | `HeldStopShown`, `AlarmEnds`, `HeartbeatBeats`, `StopTerminates`, `SendEnds` |
| `pipe_safety` | 1 stream, a two-way stop and a slow, queue 1, hold 2 ticks, debounce 1 tick | `SuppressedIsKnown`, `ImplementsLatch` (refinement) |
| `plc_reset` | dirty start or lost acknowledgement | finding 1 |
| `session` | 6 buffers, channels of 1 and 2, every frame, 3 frames | `SingleOwner`, `FrameIntact`, `OneDecoder`, `NoPushAfterClose`, `PushOrder`; `HandlerReturns`, `StreamReopened` |
| `recording` | 2 viewers without and with recording; 3 viewers of a path, 3 attempts | `HandlersEndWhenOff`, `WedgedForGood` (the reach of finding 2), `MarkExplained` |
| `rec_readme` | 1 viewer, recording on | finding 2 |
| `server` | 3 platforms, 2 restart requests, 2 processes, 1 signal; 3 saves over 3 keys in 2 sections, one of which is required and has a variable of the environment: one without the other section, one without the required section, one with a value of the wrong type | `StopsAreSafe`, `StopsEnd`, `ReloadConverges`, `SavesReachConf` |
| `sup_go2rtc` | Linux, 2 restart requests | finding 3 |
| `storage` | 3 saves; 1 or 2 cameras with 2 viewers, 2 pictures, one error of the task; 3 rows at 3 moments | `RegionsKept`, `UrlsLeadToFiles`, `ExpiredIsRemoved`, `ScanComplete` |
| `vision` | all images of 1 to 21 pixels a side; up to 3 predictions that overlap, and up to 2 of which one may have a class without a label; all triangles and quadrilaterals over 9 points; up to 2 objects at 4 places in up to 2 regions, both engines | `PictureMapsBack`, `SuppressionSound`, `PolygonsRight`, `ModesAgree` |
| `inference` | 4 goroutines, 3 sessions; 3 callers, 2 threads, 2 contexts, 1 reload | `SessionsSafe`, `ServiceSound`, `SessionsAllocated` and `ImplementsAllocator` (refinements), `CallsEnd` |

### Bounds

- PLC. Two faults are what it takes to lose an acknowledgement and then the
  connection of the repair; a third repeats the first. With both levels of a
  direction, where one coil depends on the other's report, one fault breaks off a
  tick at each of its writes. One camera suffices for
  the coils of one direction because cameras meet only in `Held` (an
  existential); the theorems hold for any number. `HoldTime = 0` and
  `ReconnectAfter = 0` still have both sides of each comparison, since ages run
  to bound + 1. A queue of 1 is full after one report, so that the next
  frame's stop waits and its slow is dropped. `pipe_safety` has
  `HoldTime = 2` and `Debounce = 1`, the least with a promise of a whole tick
  (`Keep = 1`). In `pipe_live` the fault that strands a coil, a lost
  acknowledgement, has an instance without `Stop`, and `AlarmEnds` excepts exactly
  the coils that are stranded.
- `session`. Six buffers are one more than the places that can hold one at a time
  (decoder, channel, two in `detectChan`, inference), so the decoder always finds
  a fresh one beside those that wait in the pools; channels of 1 and 2 are full
  and empty within a few steps; three frames cross a reconnect and meet a
  recycled buffer. `FrameCount = 1` forwards every frame; the branch that skips
  one ends in the same release as a full channel.
- `recording`. Two viewers are what sharing takes; three viewers let one take the
  mark back between the looks of the two others.
- `server`. Two requests and the signal handler are the three that can stop
  MediaMTX at once; a second process is one that can meet the first one's
  children. Three saves: two overlap while a third waits. Each lacks or spoils
  something different, so a start may fail for each of the reasons; broken texts
  and longer ends of earlier ones come from overlapping and failing writes.
- `storage`. A save between the two statements of another, and a third that was
  answered before; retention of one unit, and a clock that runs beyond it; three
  rows are one before, one in and one behind the page.
- `vision`. 21 covers a factor of three below and above the plane of 6 by 8, even
  and odd paddings; the points lie on, between and outside the pixels and give
  crossed and degenerate quadrilaterals too. Three predictions of three scores are
  what it takes for a box to overlap one that was itself suppressed. Several
  predictions are tried on images of 6 and 9 pixels only, one on all of them. The
  four places of objects are whole in one crop and across the edge of another, and
  `CONF_THRESH` is below `Confidence`, so that weak boxes come from one engine.
- `inference`. With four goroutines for three sessions one waits while the others
  hold all of them, and two compete for the last. As many contexts as threads is
  the least `InferenceAssumption` admits (the code has 18 and 16).

Deadlock is checked in `plc_faults`, `plc_reset`, `pipe_live`, `pipe_safety` and
`session`. The others do stop: a program that exits or panics (`server`,
`inference`), a frame that is done (`vision`), a bounded number of requests,
pictures or rows that are used up (`storage`), goroutines that ended or wait for
each other (`recording`, finding 2).

### Fairness

`PlcController`: each goroutine keeps running (weak), time passes and a lost
network returns (weak), and a branch of `select` that is ready again and again
is chosen in the end (strong for `Receive`, `TickBegin`, `StopBranch`): Go picks
uniformly among ready cases. `PlcPipeline`: a goroutine blocked on a send is
served in the order of waiting, hence strong fairness per stream.
`DetectionSession`: no fairness for frames (a camera may stay silent), but a
blocked read ends once ffmpeg is stopped (`gone /\ DecodeFails`), because the
context of `exec.CommandContext` kills it. `OpenStream` always answers; ffprobe
runs without a timeout, a listed hazard. `Recording`: weak fairness for
acquiring the mutex (Go hands it to the one that waited longest), strong for
noticing the cancelled context in a `select`. `Supervision`: the goroutines of a
live process run and its kernel delivers SIGKILL (weak); no child is assumed to
react to anything else. `ConfigFile`: the start and the watcher run (weak); no
request does. `Retention`: the clock, the cron start and each step of the task
(weak), not the detections. `Inference`: every thread of the service goes on
(weak), which is to say that an execution on the GPU ends: the missing deadline
of the gRPC call is a listed hazard and is not covered by `CallsEnd`.

## 4. Findings

1. `plc_reset`: the comment on `ResetAllSignals` (`plccontroller.go:119`) says
   that it resets all of M16-M22. It writes only coils the cache believes to be
   on; the cache of a new process is all off. A device that kept a coil, for
   instance because `RestartHandler` replaced the process during an alarm, keeps
   it until the same alarm comes and goes again.
2. `rec_readme`: the README of the program lists alarm recording as done. With
   `enableRecording` the inference goroutine calls `StartRecording` under the
   mutex that `StartRecording` locks, and waits for itself. `WedgedForGood` shows
   the extent: every handler of that stream hangs too when its viewer leaves.
   Both are proved for any number of viewers (`RecordingProofs`).
3. `sup_go2rtc`: the comment on `StopGo2RTC` (`go2rtc.go:60`) says that it waits
   for the exit and kills after a timeout. `go2rtcCmd` is never assigned, so it
   returns at once; `RestartHandler` then replaces the process while go2rtc runs,
   and with it the goroutine that would have killed it.

Seen while modelling, contradicted by no document and therefore properties with
an exception, or notes, rather than findings:

- A lost acknowledgement strands a coil: the device has executed the write, the
  cache says off, and `ResetAllSignals` and the tick skip what the cache believes
  off (`plccontroller.go:111`). When the report has expired in the meantime nothing
  lowers the coil until the same alarm comes again; `AlarmEnds` excepts it, and
  `OnlyLostAcksStrand` proves that nothing else that happens to a running
  controller strands one. `plc_reset` (finding 1) shows where a comment of the code
  claims more.
- `SaveConfigHandler` stores any text. One that parses but lacks a section or has a
  value of the wrong type leaves the running process at work and ends the next
  start (`StartFailsAfterFlaw` excepts it).
- Two saves of regions that overlap leave two rows, and the older is served until
  the next save (`NoSuperseded` speaks of saves answered before the request). A
  viewer that connects between the delete and the insert has no regions for its
  whole session, that is, detection on the whole frame.
- A model with more classes than the two labels makes the processing of a
  prediction panic (`Boxes`: a prediction of class 3 leads to `pc = "panic"`, and
  `SuppressionSound` says that no box without a label ever comes out).
- The Python service halves an odd padding differently: up to half an input
  pixel (`PictureMapsBack` states the bound). The rectangle around a region is
  cut short of its last pixel column and row, so the crop mode misses an object
  centred there (`ModesAgree` excepts it).
- An object on the edge of a region's crop is where the modes differ: with ONNX its
  box is clipped to the crop and its centre moves, so one that is centred outside
  of the region may count and one centred inside may not. `ModesAgree` is about
  regions whose crop shows every object whole or not at all (`Clean`), each on its
  own. In crop mode an object in two regions is also pushed and counted twice.
- After a hot reload the value of the file or of the environment variable may be
  in force, depending on the path by which it was loaded (`ReloadConverges`).
- `EnsureMediaMTXPath` returns nil to a viewer that finds the mark although the
  path is not configured yet, or never will be.
- Two requests to restart, or one and a signal, may stop MediaMTX over the same
  globals and one of them use nil (`PanicNeedsTwoStops`: at least two it takes).

## 5. Proofs

Every safety property of the passing runs, invariant or action property, and
every refinement is stated by a theorem that TLAPS proves for all values of the
constants its module's assumptions admit. TLC evaluates the same assumptions for
the instances. They are: a queue of at least one place and natural numbers for
times and faults; `Debounce` between 1 and `HoldTime`; at least as many contexts
as threads; values for "nobody" and "nothing" that are none of somebody; a first
configuration that has all keys and decodes; images, planes and pixels of positive size; an overlap threshold of
at most 1; corners of regions on whole subpixels, of which a pixel may have any
number.

The assumptions on instances (`PipelineAssumption`, `InferenceAssumption`,
`RetentionAssumption`) are hypotheses of the theorems where the module they are
about is used under several instances, and named `ASSUME`s elsewhere.

### PlcProofs

`TypeCorrect` is inductive alone. The safety properties speak of the moment a job
ends, so they are not: while six coils are written one by one the invariant must
say what is already true. `IInv` adds

- `TickProgress`: in a tick the goal is what the held reports call for (nothing
  else runs in the `Run` goroutine between purge and last write), and as long as
  `connected` is still set every coil before the `k`-th is cached with its goal;
- `ResetProgress`: the same for a reset or shutdown, with off;
- `UpIsConnected`: a live session implies `connected`. It holds because only
  `Run` connects, and every failure under the lock clears the flag.

The heartbeat can clear `connected` between any two writes but never set it,
which is why the premise `connected` makes the two clauses stable.
`Invariance` is `Spec => []IInv`, with one lemma per action or group of actions;
`TickPublishesAlways`, `ShutdownAlwaysClears`, `HeldAlarmAlwaysAsserted` and
`DeviceAlwaysFollowsHolds` (an action property) follow. `CoherentAlways` has its
own small invariant, since equality of cache and device needs no progress clause;
`CoherentWhenLosslessAlways` states it of the instance the run `plc_faults` has.

`OnlyLostAcksStrand` is the safety half of the exception of `AlarmEnds`: a coil
that comes to be on while the cache believes it off was raised by a write whose
acknowledgement was lost in that step.

`DebounceLosesNothing`: `SuppressedIsKnown` is inductive
with the types of the ages; the lemmas follow a report from the queue to the
hold, and the clock, where `Debounce <= HoldTime` is needed: a hold outlives the
suppression it justifies. `PipelineTypeCorrect` is the type invariant.
`PipelineAsserts` says that the controller's theorems carry over to the pipeline.
`PipelineImplementsLatch`: `LatchInv` adds to that what relates the history to the
rest (`Fresh`): a stop that was seen within `Keep` is on its way, or held with a
hold that is older than the detection by less than `Debounce`. There is a lemma per way an alarm could be
lost: the merge (`MergeKeepsStops`), the send, the receipt, the expiry
(`LatchRelease`) and time (`LatchTick`).
`MergePreservesOutputs`: whatever merging leaves out of a frame's signals, the
coils are those of the whole set.

### DetectionSessionProofs

Three invariants, each on top of the former.

- `StreamInv`: which position of the decoder goes with which position of the
  reader, when the channel is open, and when the websocket is. `OneDecoderAlways`
  and `NeverPushedAfterClose` follow.
- `Owners`: every place that can hold a buffer (the decoder's hand, each slot of
  the two channels, the image of the inference goroutine) and each pool hold
  different ones. It names all pairs of places,
  which `SingleOwner` alone does not, and so survives every hand-over.
- `Intact` and `Ordered`: a buffer in a place after the decoder shows the capture
  it is tagged with, and tags grow from the push through the inference goroutine,
  `detectChan`, the reader and the channel to the decoder. `FrameAlwaysIntact`
  and `PushedInOrder` follow; both need `Owners`, since a write into one place
  must not change another.

### RecordingProofs

`Discipline`: whoever is inside `StartRecording` or `StopRecording` holds the
mutex, and nothing has been recorded. It is inductive because the only step that
records is taken by a goroutine that gets the mutex inside the call, and there it
holds it already. `NothingIsRecorded` and `WedgedForGoodAlways` follow; for the
latter the part of the run with recording is related to `Recording` by its one
different step (`Enters`).

`MarkAlwaysExplained` is about the path in MediaMTX. `MarkExplained` alone says
nothing of a viewer who is still at work, so a second one could configure the
path beside it; `PathInv` adds `MarkHeld`: at most one viewer is at work on the
path, and the mark stands while one is.

### ServerProofs

`StopsAlwaysSafe`. That no MediaMTX at work outlives a replaced process depends
on who forgot the command, and when. `SupInv` adds `Booting` (MediaMTX is started
before anybody can stop it), `NoFuture` (no child of a process that does not
exist yet), `MtxHandled` (who is past the wait, or finds the command gone, has a
MediaMTX that ended or was sent SIGKILL) and `PointersTested` (a global that was
tested is still there unless a second stopper is at work). The last one is what
makes a panic need two stoppers.

`ReloadAlwaysConverges`. `ConfInv` adds `OneSave` (without a flaw one save is
under way and found the file it truncated), `Starting` (what a start has read is
what is in the file, and no watcher exists yet) and `Converging`: without an
event that waits, the watcher is either idle and `Conf` agrees with the file or
the environment in every value that decodes, or it is decoding what is there and
has the keys in `left` to go. For `StartFailsAfterFlaw` it says at each stage of a
start which reason to die has been ruled out so far, and that without a flaw the
text in question is the one that was saved last.
`ServerAlwaysSafe` is about the composition of the run.

### RetentionProofs and StorageProofs

`PicturesKept`. `UrlsLeadToFiles` is not inductive: a URL is handed out some
steps after its file was written, and the cleanup may come in between. `AllLead`
includes the URLs that are only about to be handed out; `FilesRight` (a file is
no older than its name), `NamesRight` (only names of the right stream are handed
out) and `ExpiryPassed` (the expiry in use was computed before) let it survive
the cleanup, which compares the times of files and not of names.

`RegionsAlwaysKept` is inductive with `PassedDelete` (a save past its delete has
none of what was answered before it left in the table), `BeforeIsSaved` and
`EmptyIsExplained`.

`ScanAlwaysComplete`. The reader knows an offset and nothing else, so the
invariant counts: `Ahead` says of a row that stays and was not read yet that at
least as many rows are newer than the reader has passed. A removal takes older
rows first, so those newer than a row that stays remain; an insert adds newer
ones. Whatever page is full therefore ends before that row, and the page that is
not full holds it. `KeysFresh` and `BeforeScan` supply the beginning.

`StorageAlwaysSafe` is about the composition of the run; its three instances of
`Retention` are covered by instances of `RetentionProofs`.

### InferenceProofs

`SessionsAlwaysSafe`: `SessionsSafe` is inductive with the types and `ExitOrder`
(the channel is open while the program serves, and is in the map until all of it
was drained): by it `Release` never sends on a closed channel.
`PoolImplementsAllocator` maps each step to one of `Allocator` or a stutter.

`ServiceAlwaysSound` has three parts. `ListInv`: the contexts on the list and
those with running threads are `NumPairs` together, none is in two places, and a
thread has one exactly while it runs. A thread about to take one is not running,
so fewer than `NumPairs` are out and the list is not empty:
`ServiceNeverStarves`. The same invariant gives `ServiceImplementsAllocator`.
`RequestInv`: a request is in the queue or with one thread, never in both or
twice, for which a thread must be idle exactly if it serves nobody
(`OneRequestAlways`). `SwitchInv`: without a reload the engine is the one `main`
prepared (`PanicNeedsSwitchAlways`). `EnginesAlwaysSafe` is about the composition
of the run.

### VisionProofs

Both specifications take few steps; the content is in the operators.

- `PolygonsAlwaysRight`. A point is in a polygon if its ray crosses an odd number
  of edges. `AroundIsEven`: around a closed polygon the number of edges that pass
  from one side of a line to the other is even. With it a point that has no
  corner on some side has an even number of crossings (`Enclosed`), which places
  the polygon inside `PolygonToMinRect` but for the last, partly covered column
  and row. `Weights` and `TriangleRight`: for a triangle the three areas between
  the point and the sides, weighted with the heights of the corners, cancel, so
  that the signs of the areas decide about the crossings. `Diagonal`: two regions
  that share an edge pass it once each, in opposite directions.
- `ModesAlwaysAgree`. Between inference and filter it is known which entries a
  frame has brought (`BoxesRight`): in filter mode all objects (`FrameRight`), in crop mode those
  of each region that did not fail and whose crop is clean (`CropsRight`).
  `CentredInRect`: an object in a region is centred in the region's rectangle
  unless it is cut off, so the crop shows it, and shows it whole (`ShownWhole`);
  clipping such a box changes nothing (`Unclipped`), and moving it to the crop and
  back is the identity (`BackAgain`). `CropRight` puts these together for one
  region, `FilterRight` carries them through the filter to what is counted and
  sent.
- `PictureAlwaysMapsBack`. `Scaled` and `Padding` bound what the two truncating
  divisions lose.
- `SuppressionAlwaysSound`. The recursive function of `nms` exists (`KeptExists`)
  and after `n` candidates holds no two that overlap, and for each of the `n` one
  that is at least as good (`KeepSound`); `SuppressionRight` puts it into terms
  of the candidates, for every order of equal scores.

The lists here have any length, and the library's induction theorems take an
operator as parameter. `NatSetInduction` avoids that: it says of a *set* of
numbers that it holds all of them if it holds 0 and the successors of its
elements, and follows from the well-foundedness of the subset order on finite
sets. Each use names its set.

### Only model-checked

- All liveness: `HeldStopShown`, `AlarmEnds`, `HeartbeatBeats`, `StopTerminates`,
  `SendEnds`, `HandlerReturns`, `StreamReopened`, `HandlersEndWhenOff`,
  `StopsEnd`, `SavesReachConf`, `ExpiredIsRemoved`, `CallsEnd`. Fairness and
  `ENABLED` are outside the prover.
- The three findings, which are about counterexamples.

## 6. Plan

Done: `PlcSignals`, `PlcController`, `PlcPipeline`, `DetectionSession`,
`Recording`, `SessionPool`; then `Supervision`, `ConfigFile`, `Zones`,
`Retention`, `Paging`, `Boxes`, `Regions`, `Inference`, `MediaPath`, `Allocator`;
then `PlcAlarms` and `AlarmLatch`; and proofs of every safety property the runs check.

Left:

1. Two handlers per stream in `PlcPipeline`, and the detection session composed
   with a full PLC queue.
2. A hanging ffprobe and a zero `FrameCount` in `DetectionSession`.
3. The theorems of `PlcProofs` about the specification of `plc_faults` as composed;
   `CoherentWhenLosslessAlways` is, the others are about `PlcController`, of which
   that run has three instances.
4. The safety half of the liveness properties: what never goes back once it is
   reached (a stopped controller, a cancelled session, a removed row).
5. The dates of the license check, as pure operators.

## 7. Not modelled

Drawing, encoding and file layout, HTTP routing, the proxy to go2rtc, the
database driver and its set-up, ONVIF, ISAPI and FTP calls, the generated gRPC
stubs, encryption helpers and logging carry no control state a property could be
about. The license check is one sequential test at the start. The operating
system's pipes, the S7 protocol, viper, gorm, the gRPC and ONNX libraries and the
GPU appear only as the outcomes the code distinguishes. The path of
`DetectionWSHandler` with analysis disabled only reads the websocket.
