-------------------------- MODULE DetectionSession --------------------------
(***************************************************************************)
(* One websocket viewer of one stream (DetectionWSHandler, ReadVideoStream *)
(* and the frame pools), in the default configuration: recording and PLC   *)
(* off (Recording and PlcPipeline model those).                            *)
(*                                                                         *)
(* Four goroutines: the decoder reads frames of ffmpeg into buffers, the   *)
(* reader (the handler itself) forwards every FrameCount-th one, the       *)
(* inference goroutine analyses and pushes, the listener notices that the  *)
(* client has gone and cancels the context.  Buffers are recycled through  *)
(* two pools; a frame is the number of its capture.                        *)
(***************************************************************************)
EXTENDS Integers, Sequences, FiniteSets

CONSTANTS
  Buffers,     \* the frame buffers that may exist
  NoBuf,       \* no buffer
  ChCap,       \* capacity of the channel of ReadVideoStream (5)
  DetCap,      \* capacity of detectChan (16)
  FrameCount,  \* one frame out of FrameCount is analysed
  MaxFrames    \* bound on the frames ffmpeg delivers

ASSUME SessionAssumption ==
  /\ ChCap \in Nat \ {0} /\ DetCap \in Nat \ {0}
  /\ FrameCount \in Nat \ {0} /\ MaxFrames \in Nat
  /\ NoBuf \notin Buffers

VARIABLES
  rgbaPool, clonePool,  \* the two sync.Pools
  content,              \* which capture the pixels of a buffer are
  captured,             \* captures so far
  dec, decBuf,          \* the decoder, and the buffer in its hands
  ch, chOpen,           \* the channel it returns
  rd, frameID,          \* the reader, and frameID modulo FrameCount
  detect,               \* detectChan
  inf, infFrame, work,  \* the inference goroutine, its frame, and `clone'
  gone,                 \* the context is cancelled
  connOpen,             \* the websocket is open
  useCuda,              \* Conf.Onnx.UseCuda, changed by a hot reload
  lastPush              \* the last capture pushed to the client

vars == <<rgbaPool, clonePool, content, captured, dec, decBuf, ch, chOpen, rd, frameID,
          detect, inf, infFrame, work, gone, connOpen, useCuda, lastPush>>

poolVars == <<rgbaPool, clonePool>>
decVars == <<captured, dec, decBuf>>
chVars == <<ch, chOpen>>
rdVars == <<rd, frameID, connOpen>>
infVars == <<inf, infFrame, work, lastPush>>

Captures == 0 .. MaxFrames
Frames == [buf : Buffers, tag : Captures]
NoFrame == [buf |-> NoBuf, tag |-> 0]

TypeOK ==
  /\ rgbaPool \subseteq Buffers /\ clonePool \subseteq Buffers
  /\ content \in [Buffers -> Captures]
  /\ captured \in Captures
  /\ dec \in {"none", "read", "hold", "done"} /\ decBuf \in Buffers \union {NoBuf}
  /\ ch \in Seq(Frames) /\ Len(ch) <= ChCap /\ chOpen \in BOOLEAN
  /\ rd \in {"loop", "open", "frames", "join", "returned"}
  /\ frameID \in 0 .. FrameCount - 1
  /\ detect \in Seq(Frames) /\ Len(detect) <= DetCap
  /\ inf \in {"select", "taken", "infer", "hit", "push", "ended"}
  /\ infFrame \in Frames \union {NoFrame} /\ work \in Buffers \union {NoBuf}
  /\ gone \in BOOLEAN /\ connOpen \in BOOLEAN /\ useCuda \in BOOLEAN
  /\ lastPush \in Captures

Init ==
  /\ rgbaPool = {} /\ clonePool = {}
  /\ content = [b \in Buffers |-> 0]
  /\ captured = 0
  /\ dec = "none" /\ decBuf = NoBuf
  /\ ch = <<>> /\ chOpen = FALSE
  /\ rd = "loop" /\ frameID = 0 /\ connOpen = TRUE
  /\ detect = <<>>
  /\ inf = "select" /\ infFrame = NoFrame /\ work = NoBuf /\ lastPush = 0
  /\ gone = FALSE
  /\ useCuda \in BOOLEAN

-----------------------------------------------------------------------------
(* The pools.  A Get takes a pooled buffer or allocates a fresh one.        *)

BufsOf(q) == {q[i].buf : i \in 1 .. Len(q)}

\* The buffers some goroutine or channel refers to.
InUse ==
  (IF dec = "hold" THEN {decBuf} ELSE {}) \union BufsOf(ch) \union BufsOf(detect)
  \union (IF inf = "taken" THEN {infFrame.buf} ELSE {})
  \union (IF inf \in {"infer", "hit"} THEN {work} ELSE {})

Unused == Buffers \ (rgbaPool \union clonePool \union InUse)

\* A new one, if there is one left: which does not matter, as every Get overwrites it.
Fresh == IF Unused = {} THEN {} ELSE {CHOOSE b \in Unused : TRUE}

\* PutRGBAClone or PutRGBA, by the configuration at the time of the release.
Release(b) ==
  IF useCuda THEN rgbaPool' = rgbaPool \union {b} /\ UNCHANGED clonePool
             ELSE clonePool' = clonePool \union {b} /\ UNCHANGED rgbaPool

-----------------------------------------------------------------------------
(* The decoder goroutine of ReadVideoStream.                                *)

DecoderOther == UNCHANGED <<clonePool, rd, frameID, connOpen, detect, gone, useCuda>>
                /\ UNCHANGED infVars

DecodeFrame ==
  /\ dec = "read" /\ captured < MaxFrames
  /\ \E b \in rgbaPool \union Fresh :
       /\ rgbaPool' = rgbaPool \ {b}
       /\ content' = [content EXCEPT ![b] = captured + 1]
       /\ decBuf' = b
  /\ captured' = captured + 1
  /\ dec' = "hold"
  /\ UNCHANGED chVars /\ DecoderOther

\* The frame is sent, or dropped if the channel is full; then the goroutine
\* looks whether the context is cancelled, and if so closes the channel.
DecodeSend ==
  /\ dec = "hold"
  /\ IF Len(ch) < ChCap
     THEN ch' = Append(ch, [buf |-> decBuf, tag |-> captured]) /\ UNCHANGED rgbaPool
     ELSE rgbaPool' = rgbaPool \union {decBuf} /\ UNCHANGED ch
  /\ dec' = IF gone THEN "done" ELSE "read"
  /\ chOpen' = ~gone
  /\ decBuf' = NoBuf
  /\ UNCHANGED <<captured, content>> /\ DecoderOther

\* Mutation: the goroutine closes the channel but goes on reading.
DecodeFailsReading ==
  /\ dec = "read" /\ chOpen
  /\ chOpen' = FALSE
  /\ UNCHANGED <<captured, dec, decBuf, ch, content, rgbaPool>> /\ DecoderOther

\* ffmpeg ended, failed or was stopped.
DecodeFails ==
  /\ dec = "read"
  /\ dec' = "done"
  /\ chOpen' = FALSE
  /\ UNCHANGED <<captured, decBuf, ch, content, rgbaPool>> /\ DecoderOther

Decoder == DecodeFrame \/ DecodeSend \/ DecodeFails

-----------------------------------------------------------------------------
(* The handler: read the stream, reconnect, and leave when the client has.  *)

ReaderOther == UNCHANGED <<clonePool, content, captured, decBuf, gone, useCuda>>
               /\ UNCHANGED infVars

HandlerLoop ==
  /\ rd = "loop"
  /\ rd' = IF gone THEN "join" ELSE "open"
  /\ UNCHANGED <<rgbaPool, dec, frameID, connOpen, detect>> /\ UNCHANGED chVars /\ ReaderOther

\* ReadVideoStream: ffprobe and ffmpeg may fail to start.
OpenStream ==
  /\ rd = "open"
  /\ \/ /\ rd' = "frames" /\ frameID' = 0
        /\ dec' = "read" /\ ch' = <<>> /\ chOpen' = TRUE
     \/ rd' = "loop" /\ UNCHANGED <<frameID, dec, ch, chOpen>>
  /\ UNCHANGED <<rgbaPool, connOpen, detect>> /\ ReaderOther

\* case img, ok := <-frames
ReadFrame ==
  /\ rd = "frames" /\ ch # <<>>
  /\ ch' = Tail(ch)
  /\ IF frameID = 0 /\ Len(detect) < DetCap
     THEN detect' = Append(detect, Head(ch)) /\ UNCHANGED rgbaPool
     ELSE rgbaPool' = rgbaPool \union {Head(ch).buf} /\ UNCHANGED detect
  /\ frameID' = (frameID + 1) % FrameCount
  /\ UNCHANGED <<dec, chOpen, rd, connOpen>> /\ ReaderOther

\* Mutation: after the stream has ended the reader waits for more.
StreamEndsUnnoticed ==
  /\ rd = "frames" /\ ch = <<>> /\ ~chOpen /\ gone
  /\ rd' = "loop"
  /\ UNCHANGED <<rgbaPool, dec, frameID, connOpen, detect>> /\ UNCHANGED chVars /\ ReaderOther

\* The channel is closed: the stream is opened anew.
StreamEnds ==
  /\ rd = "frames" /\ ch = <<>> /\ ~chOpen
  /\ rd' = "loop"
  /\ UNCHANGED <<rgbaPool, dec, frameID, connOpen, detect>> /\ UNCHANGED chVars /\ ReaderOther

\* case <-ctx.Done(); the frames left in the channel are garbage.
ReadCancelled ==
  /\ rd = "frames" /\ gone
  /\ rd' = "loop"
  /\ UNCHANGED <<rgbaPool, dec, frameID, connOpen, detect>> /\ UNCHANGED chVars /\ ReaderOther

\* Mutation: the handler does not wait for the inference goroutine.
ReturnEarly ==
  /\ rd = "join"
  /\ rd' = "returned" /\ connOpen' = FALSE
  /\ UNCHANGED <<rgbaPool, dec, frameID, detect>> /\ UNCHANGED chVars /\ ReaderOther

\* wg.Wait(), return, and the deferred conn.Close().
Return ==
  /\ rd = "join" /\ inf = "ended"
  /\ rd' = "returned" /\ connOpen' = FALSE
  /\ UNCHANGED <<rgbaPool, dec, frameID, detect>> /\ UNCHANGED chVars /\ ReaderOther

Handler == HandlerLoop \/ OpenStream \/ StreamEnds \/ Return

-----------------------------------------------------------------------------
(* The inference goroutine.                                                 *)

InferOther == UNCHANGED <<captured, dec, decBuf, ch, chOpen, rd, frameID, connOpen, gone,
                          useCuda>>

\* Mutation: the newest frame is analysed first.
InferTakeNewest ==
  /\ inf = "select" /\ detect # <<>>
  /\ infFrame' = detect[Len(detect)] /\ detect' = SubSeq(detect, 1, Len(detect) - 1)
  /\ inf' = "taken"
  /\ UNCHANGED <<work, lastPush, content>> /\ UNCHANGED poolVars /\ InferOther

InferTake ==
  /\ inf = "select" /\ detect # <<>>
  /\ infFrame' = Head(detect) /\ detect' = Tail(detect)
  /\ inf' = "taken"
  /\ UNCHANGED <<work, lastPush, content>> /\ UNCHANGED poolVars /\ InferOther

\* Mutation: the context is looked at only together with a frame.
InferEndLate ==
  /\ inf = "select" /\ gone /\ detect # <<>>
  /\ inf' = "ended"
  /\ UNCHANGED <<infFrame, work, lastPush, detect, content>> /\ UNCHANGED poolVars /\ InferOther

InferEnd ==
  /\ inf = "select" /\ gone
  /\ inf' = "ended"
  /\ UNCHANGED <<infFrame, work, lastPush, detect, content>> /\ UNCHANGED poolVars /\ InferOther

\* Mutations: the original frame is given back in GPU mode too, or the pixels
\* are not copied.
PrepareGivesBack ==
  /\ inf = "taken" /\ useCuda
  /\ work' = infFrame.buf
  /\ rgbaPool' = rgbaPool \union {infFrame.buf}
  /\ inf' = "infer"
  /\ UNCHANGED <<infFrame, lastPush, detect, content, clonePool>> /\ InferOther

PrepareWithoutCopy ==
  /\ inf = "taken" /\ ~useCuda
  /\ \E b \in clonePool \union Fresh : work' = b /\ clonePool' = clonePool \ {b}
  /\ rgbaPool' = rgbaPool \union {infFrame.buf}
  /\ inf' = "infer"
  /\ UNCHANGED <<infFrame, lastPush, detect, content>> /\ InferOther

\* GPU: work on the frame itself.
PrepareGPU ==
  /\ inf = "taken" /\ useCuda
  /\ work' = infFrame.buf
  /\ inf' = "infer"
  /\ UNCHANGED <<infFrame, lastPush, detect, content>> /\ UNCHANGED poolVars /\ InferOther

\* CPU: work on a copy, and give the frame back at once.
PrepareCPU ==
  /\ inf = "taken" /\ ~useCuda
  /\ \E b \in clonePool \union Fresh :
       /\ work' = b
       /\ clonePool' = clonePool \ {b}
       /\ content' = [content EXCEPT ![b] = content[infFrame.buf]]
  /\ rgbaPool' = rgbaPool \union {infFrame.buf}
  /\ inf' = "infer"
  /\ UNCHANGED <<infFrame, lastPush, detect>> /\ InferOther

\* The inference fails: the image goes to the clone pool, even on the GPU path.
InferFails ==
  /\ inf = "infer"
  /\ clonePool' = clonePool \union {work}
  /\ inf' = "select" /\ infFrame' = NoFrame /\ work' = NoBuf
  /\ UNCHANGED <<rgbaPool, lastPush, detect, content>> /\ InferOther

InferFindsNothing ==
  /\ inf = "infer"
  /\ Release(work)
  /\ inf' = "select" /\ infFrame' = NoFrame /\ work' = NoBuf
  /\ UNCHANGED <<lastPush, detect, content>> /\ InferOther

InferHits ==
  /\ inf = "infer"
  /\ inf' = "hit"
  /\ UNCHANGED <<infFrame, work, lastPush, detect, content>> /\ UNCHANGED poolVars /\ InferOther

\* The snapshots are saved and the image is released.
SaveSnapshots ==
  /\ inf = "hit"
  /\ Release(work)
  /\ inf' = "push" /\ work' = NoBuf
  /\ UNCHANGED <<infFrame, lastPush, detect, content>> /\ InferOther

\* conn.WriteJSON
Push ==
  /\ inf = "push"
  /\ lastPush' = infFrame.tag
  /\ inf' = "select" /\ infFrame' = NoFrame
  /\ UNCHANGED <<work, detect, content>> /\ UNCHANGED poolVars /\ InferOther

Inference ==
  \/ PrepareGPU \/ PrepareCPU \/ InferFails \/ InferFindsNothing \/ InferHits
  \/ SaveSnapshots \/ Push

-----------------------------------------------------------------------------
\* The listener: the client has closed the websocket.
Disconnect ==
  /\ ~gone
  /\ gone' = TRUE
  /\ UNCHANGED <<rgbaPool, clonePool, content, detect, useCuda>>
  /\ UNCHANGED decVars /\ UNCHANGED chVars /\ UNCHANGED rdVars /\ UNCHANGED infVars

\* The configuration file is changed while frames are in flight.
HotReload ==
  /\ useCuda' = ~useCuda
  /\ UNCHANGED <<rgbaPool, clonePool, content, detect, gone>>
  /\ UNCHANGED decVars /\ UNCHANGED chVars /\ UNCHANGED rdVars /\ UNCHANGED infVars

Next ==
  \/ Decoder \/ Handler \/ ReadFrame \/ ReadCancelled
  \/ InferTake \/ InferEnd \/ Inference
  \/ Disconnect \/ HotReload

\* Every goroutine keeps running, a blocked read of ffmpeg ends when ffmpeg is
\* stopped (its context is cancelled), and a ready branch of a select is chosen
\* again and again.
Fairness ==
  /\ WF_vars(DecodeSend) /\ WF_vars(gone /\ DecodeFails)
  /\ WF_vars(Handler)
  /\ SF_vars(ReadFrame) /\ SF_vars(ReadCancelled)
  /\ SF_vars(InferTake) /\ SF_vars(InferEnd)
  /\ WF_vars(Inference)

Spec == Init /\ [][Next]_vars
FairSpec == Spec /\ Fairness

-----------------------------------------------------------------------------
(* Properties.                                                              *)

\* A buffer is never pooled twice nor pooled while it is used, whichever way
\* inference ends and whenever the configuration changes pools.
SingleOwner ==
  /\ rgbaPool \intersect clonePool = {}
  /\ InUse \intersect (rgbaPool \union clonePool) = {}

\* The image that is analysed and saved still shows the frame it is pushed as,
\* although the decoder overwrites recycled buffers meanwhile.
FrameIntact ==
  /\ inf = "taken" => content[infFrame.buf] = infFrame.tag
  /\ inf \in {"infer", "hit"} => content[work] = infFrame.tag

\* A stream is opened only after the decoder of the one before has finished.
OneDecoder == rd = "open" => dec \in {"none", "done"}

\* When the websocket is closed, the goroutine that writes to it has ended.
NoPushAfterClose == ~connOpen => inf = "ended"

\* Results reach the client in the order of capture, across reconnections.
PushOrder == [][lastPush' # lastPush => lastPush' > lastPush]_vars

\* A viewer that disconnects releases its handler.
HandlerReturns == gone ~> rd = "returned"

\* A stream that ended is opened again, unless the viewer has gone.
StreamReopened == (rd = "frames" /\ ~chOpen) ~> (rd = "open" \/ gone)
=============================================================================
