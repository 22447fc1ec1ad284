----------------------- MODULE DetectionSessionProofs -----------------------
(* One viewer of one stream, for any buffers, capacities and frame rate: a  *)
(* frame buffer has one owner, an image shows the frame it is pushed as,    *)
(* results come in the order of capture, and streams and the connection     *)
(* are opened and closed in turn.                                           *)
EXTENDS DetectionSession, TLAPS

\* A channel that is received from, and one that is sent to.
LEMMA TailFacts ==
  ASSUME NEW q \in Seq(Frames), q # <<>>
  PROVE  /\ Len(q) \in Nat /\ Len(q) >= 1
         /\ Head(q) = q[1] /\ Head(q) \in Frames
         /\ Tail(q) \in Seq(Frames) /\ Len(Tail(q)) = Len(q) - 1
         /\ \A i \in 1 .. Len(Tail(q)) : Tail(q)[i] = q[i + 1] /\ i + 1 \in 1 .. Len(q)
OBVIOUS

LEMMA AppendFacts ==
  ASSUME NEW q \in Seq(Frames), NEW f \in Frames
  PROVE  /\ Len(q) \in Nat
         /\ Append(q, f) \in Seq(Frames) /\ Len(Append(q, f)) = Len(q) + 1
         /\ \A i \in 1 .. Len(q) : Append(q, f)[i] = q[i]
         /\ Append(q, f)[Len(q) + 1] = f
OBVIOUS

LEMMA FrameFacts ==
  /\ \A f \in Frames : f.buf \in Buffers /\ f.tag \in Captures
  /\ \A b \in Buffers, t \in Captures : [buf |-> b, tag |-> t] \in Frames
  /\ \A q \in Seq(Frames) : \A i \in 1 .. Len(q) : q[i] \in Frames
<1>1. \A f \in Frames : f.buf \in Buffers /\ f.tag \in Captures
  BY DEF Frames
<1>2. \A b \in Buffers, t \in Captures : [buf |-> b, tag |-> t] \in Frames
  BY DEF Frames
<1>3. \A q \in Seq(Frames) : \A i \in 1 .. Len(q) : q[i] \in Frames
  OBVIOUS
<1> QED
  BY <1>1, <1>2, <1>3

\* A buffer a Get allocates is nobody's.
LEMMA FreshFacts == \A b \in Fresh : b \in Unused
BY DEF Fresh

LEMMA FreshTyped == Fresh \subseteq Buffers
BY FreshFacts DEF Unused

-----------------------------------------------------------------------------
(* Types.                                                                   *)

\* Who is at work has what it works on.
StateOK ==
  /\ dec = "hold" => decBuf \in Buffers
  /\ inf \in {"taken", "infer", "hit", "push"} => infFrame \in Frames
  /\ inf \in {"infer", "hit"} => work \in Buffers

Types == TypeOK /\ StateOK

LEMMA TypesInit == Init => Types
<1> SUFFICES ASSUME Init
             PROVE  Types
  OBVIOUS
<1>1. [b \in Buffers |-> 0] \in [Buffers -> Captures] /\ 0 \in Captures
  BY SessionAssumption DEF SessionAssumption, Captures
<1>2. 0 \in 0 .. FrameCount - 1 /\ 0 <= ChCap /\ 0 <= DetCap
  BY SessionAssumption DEF SessionAssumption
<1>3. ch \in Seq(Frames) /\ Len(ch) = 0 /\ detect \in Seq(Frames) /\ Len(detect) = 0
  BY DEF Init
<1>4. TypeOK
  BY <1>1, <1>2, <1>3 DEF Init, TypeOK
<1> QED
  BY <1>4 DEF Init, Types, StateOK

LEMMA TypesDecoder == ASSUME Types, Decoder PROVE Types'
<1> USE SessionAssumption DEF SessionAssumption, Types, Captures
<1>1. CASE DecodeFrame
  <2>1. PICK b \in rgbaPool \union Fresh :
          /\ rgbaPool' = rgbaPool \ {b} /\ decBuf' = b
          /\ content' = [content EXCEPT ![b] = captured + 1]
    BY <1>1 DEF DecodeFrame
  <2>2. b \in Buffers
    BY <2>1, FreshTyped DEF TypeOK
  <2>3. captured + 1 \in Captures /\ captured' = captured + 1
    BY <1>1 DEF DecodeFrame, TypeOK
  <2>4. content' \in [Buffers -> Captures]
    BY <2>1, <2>3 DEF TypeOK
  <2> QED
    BY <1>1, <2>1, <2>2, <2>3, <2>4
    DEF DecodeFrame, DecoderOther, chVars, infVars, TypeOK, StateOK
<1>2. CASE DecodeSend
  <2>1. [buf |-> decBuf, tag |-> captured] \in Frames
    BY <1>2, FrameFacts DEF DecodeSend, TypeOK, StateOK
  <2>2. ch' \in Seq(Frames) /\ Len(ch') <= ChCap /\ rgbaPool' \subseteq Buffers
    <3>1. CASE Len(ch) < ChCap
      <4> DEFINE f == [buf |-> decBuf, tag |-> captured]
      <4>1. ch' = Append(ch, f) /\ UNCHANGED rgbaPool /\ ch \in Seq(Frames) /\ f \in Frames
        BY <1>2, <2>1, <3>1 DEF DecodeSend, TypeOK
      <4>2. Append(ch, f) \in Seq(Frames) /\ Len(Append(ch, f)) = Len(ch) + 1 /\ Len(ch) \in Nat
        BY <4>1, AppendFacts
      <4> QED
        BY <3>1, <4>1, <4>2 DEF TypeOK
    <3>2. CASE ~(Len(ch) < ChCap)
      BY <1>2, <3>2 DEF DecodeSend, TypeOK, StateOK
    <3> QED
      BY <3>1, <3>2
  <2>3. UNCHANGED <<captured, content, clonePool, rd, frameID, connOpen, detect, gone, useCuda,
                    inf, infFrame, work, lastPush>>
    BY <1>2 DEF DecodeSend, DecoderOther, infVars
  <2>4. dec' \in {"read", "done"} /\ chOpen' \in BOOLEAN /\ decBuf' = NoBuf
    BY <1>2 DEF DecodeSend, TypeOK
  <2>5. TypeOK'
    BY <2>2, <2>3, <2>4 DEF TypeOK
  <2>6. StateOK'
    BY <2>3, <2>4 DEF StateOK
  <2> QED
    BY <2>5, <2>6
<1>3. CASE DecodeFails
  BY <1>3 DEF DecodeFails, DecoderOther, infVars, TypeOK, StateOK
<1> QED
  BY <1>1, <1>2, <1>3 DEF Decoder

LEMMA TypesHandler == ASSUME Types, Handler \/ ReadCancelled PROVE Types'
<1> USE SessionAssumption DEF SessionAssumption, Types
<1>1. CASE OpenStream
  <2>1. <<>> \in Seq(Frames) /\ Len(<<>>) = 0 /\ 0 \in 0 .. FrameCount - 1
    OBVIOUS
  <2>2. /\ UNCHANGED <<rgbaPool, clonePool, content, captured, decBuf, connOpen, detect, gone,
                       useCuda, inf, infFrame, work, lastPush>>
        /\ rd' \in {"frames", "loop"}
    BY <1>1 DEF OpenStream, ReaderOther, infVars
  <2>3. \/ frameID' = 0 /\ dec' = "read" /\ ch' = <<>> /\ chOpen' = TRUE
        \/ UNCHANGED <<frameID, dec, ch, chOpen>>
    BY <1>1 DEF OpenStream
  <2>4. ch' \in Seq(Frames) /\ Len(ch') <= ChCap
    <3>1. CASE ch' = <<>>
      BY <3>1, 0 <= ChCap
    <3>2. CASE ch' = ch
      BY <3>2 DEF TypeOK
    <3> QED
      BY <2>3, <3>1, <3>2
  <2>5. /\ frameID' \in 0 .. FrameCount - 1 /\ chOpen' \in BOOLEAN
        /\ dec' \in {"none", "read", "hold", "done"}
    BY <2>1, <2>3 DEF TypeOK
  <2>6. TypeOK'
    BY <2>2, <2>4, <2>5 DEF TypeOK
  <2>7. StateOK'
    BY <2>2, <2>3 DEF StateOK
  <2> QED
    BY <2>6, <2>7
<1>2. CASE HandlerLoop \/ StreamEnds \/ Return \/ ReadCancelled
  <2>1. /\ UNCHANGED <<rgbaPool, clonePool, content, captured, dec, decBuf, ch, chOpen, frameID,
                       detect, gone, useCuda, inf, infFrame, work, lastPush>>
        /\ rd' \in {"loop", "open", "join", "returned"} /\ connOpen' \in BOOLEAN
    BY <1>2 DEF HandlerLoop, StreamEnds, Return, ReadCancelled, ReaderOther, chVars, infVars,
       TypeOK
  <2>2. TypeOK'
    BY <2>1 DEF TypeOK
  <2> QED
    BY <2>1, <2>2 DEF StateOK
<1> QED
  BY <1>1, <1>2 DEF Handler

LEMMA TypesReadFrame == ASSUME Types, ReadFrame PROVE Types'
<1> USE SessionAssumption DEF SessionAssumption, Types
<1>1. /\ Head(ch) \in Frames /\ ch' = Tail(ch) /\ ch' \in Seq(Frames) /\ Len(ch') <= ChCap
      /\ Head(ch).buf \in Buffers
  BY TailFacts, FrameFacts DEF ReadFrame, TypeOK
<1>2. detect' \in Seq(Frames) /\ Len(detect') <= DetCap /\ rgbaPool' \subseteq Buffers
  <2>1. CASE frameID = 0 /\ Len(detect) < DetCap
    <3>1. detect' = Append(detect, Head(ch)) /\ UNCHANGED rgbaPool /\ detect \in Seq(Frames)
      BY <2>1 DEF ReadFrame, TypeOK
    <3>2. detect' \in Seq(Frames) /\ Len(detect') = Len(detect) + 1 /\ Len(detect) \in Nat
      BY <1>1, <3>1, AppendFacts
    <3> QED
      BY <2>1, <3>1, <3>2 DEF TypeOK
  <2>2. CASE ~(frameID = 0 /\ Len(detect) < DetCap)
    BY <1>1, <2>2 DEF ReadFrame, TypeOK
  <2> QED
    BY <2>1, <2>2
<1>3. frameID' \in 0 .. FrameCount - 1
  BY DEF ReadFrame, TypeOK
<1>4. UNCHANGED <<clonePool, content, captured, dec, decBuf, chOpen, rd, connOpen, gone, useCuda,
                  inf, infFrame, work, lastPush>>
  BY DEF ReadFrame, ReaderOther, infVars
<1> QED
  BY <1>1, <1>2, <1>3, <1>4 DEF TypeOK, StateOK

LEMMA ReleaseTyped ==
  ASSUME Types, NEW b \in Buffers, Release(b)
  PROVE  rgbaPool' \subseteq Buffers /\ clonePool' \subseteq Buffers
BY DEF Types, TypeOK, Release

LEMMA TypesInference == ASSUME Types, InferTake \/ InferEnd \/ Inference PROVE Types'
<1> USE SessionAssumption DEF SessionAssumption, Types
<1>1. CASE InferTake
  <2>1. Head(detect) \in Frames /\ Tail(detect) \in Seq(Frames) /\ Len(Tail(detect)) <= DetCap
    BY <1>1, TailFacts DEF InferTake, TypeOK
  <2> QED
    BY <1>1, <2>1 DEF InferTake, InferOther, poolVars, TypeOK, StateOK
<1>2. CASE InferEnd \/ InferHits
  BY <1>2 DEF InferEnd, InferHits, InferOther, poolVars, TypeOK, StateOK
<1>3. CASE PrepareGPU
  <2>1. infFrame.buf \in Buffers
    BY <1>3, FrameFacts DEF PrepareGPU, StateOK
  <2> QED
    BY <1>3, <2>1 DEF PrepareGPU, InferOther, poolVars, TypeOK, StateOK
<1>4. CASE PrepareCPU
  <2>1. infFrame \in Frames /\ infFrame.buf \in Buffers
    BY <1>4, FrameFacts DEF PrepareCPU, StateOK
  <2>2. PICK b \in clonePool \union Fresh :
          /\ work' = b /\ clonePool' = clonePool \ {b}
          /\ content' = [content EXCEPT ![b] = content[infFrame.buf]]
    BY <1>4 DEF PrepareCPU
  <2>3. b \in Buffers
    BY <2>2, FreshTyped DEF TypeOK
  <2>4. content' \in [Buffers -> Captures]
    BY <2>1, <2>2 DEF TypeOK
  <2>5. rgbaPool' \subseteq Buffers
    BY <1>4, <2>1 DEF PrepareCPU, TypeOK
  <2> QED
    BY <1>4, <2>1, <2>2, <2>3, <2>4, <2>5 DEF PrepareCPU, InferOther, TypeOK, StateOK
<1>5. CASE InferFails
  BY <1>5 DEF InferFails, InferOther, TypeOK, StateOK
<1>6. CASE InferFindsNothing
  <2>1. rgbaPool' \subseteq Buffers /\ clonePool' \subseteq Buffers
    BY <1>6, ReleaseTyped DEF InferFindsNothing, StateOK
  <2> QED
    BY <1>6, <2>1 DEF InferFindsNothing, InferOther, TypeOK, StateOK
<1>7. CASE SaveSnapshots
  <2>1. rgbaPool' \subseteq Buffers /\ clonePool' \subseteq Buffers
    BY <1>7, ReleaseTyped DEF SaveSnapshots, StateOK
  <2> QED
    BY <1>7, <2>1 DEF SaveSnapshots, InferOther, TypeOK, StateOK
<1>8. CASE Push
  <2>1. infFrame.tag \in Captures
    BY <1>8, FrameFacts DEF Push, StateOK
  <2> QED
    BY <1>8, <2>1 DEF Push, InferOther, poolVars, TypeOK, StateOK
<1> QED
  BY <1>1, <1>2, <1>3, <1>4, <1>5, <1>6, <1>7, <1>8 DEF Inference

LEMMA TypesNext == Types /\ [Next]_vars => Types'
<1> SUFFICES ASSUME Types, [Next]_vars
             PROVE  Types'
  OBVIOUS
<1>1. CASE Disconnect \/ HotReload
  <2>1. UNCHANGED <<rgbaPool, clonePool, content, captured, dec, decBuf, ch, chOpen, rd, frameID,
                    connOpen, detect, inf, infFrame, work, lastPush>>
    BY <1>1 DEF Disconnect, HotReload, decVars, chVars, rdVars, infVars
  <2>2. gone' \in BOOLEAN /\ useCuda' \in BOOLEAN
    BY <1>1 DEF Disconnect, HotReload, Types, TypeOK
  <2> QED
    BY <2>1, <2>2 DEF Types, TypeOK, StateOK
<1>2. CASE UNCHANGED vars
  BY <1>2 DEF vars, Types, TypeOK, StateOK
<1> QED
  BY <1>1, <1>2, TypesDecoder, TypesHandler, TypesReadFrame, TypesInference DEF Next

\* Type correctness of the session, for any buffers and capacities.
THEOREM SessionTypeCorrect == Spec => []TypeOK
<1>1. Spec => []Types
  BY TypesInit, TypesNext, PTL DEF Spec
<1> QED
  BY <1>1, PTL DEF Types

-----------------------------------------------------------------------------
(* Streams and the connection.                                              *)

\* The channel is open as long as its decoder is at work, and the reader leaves an
\* open one only when the viewer has gone, after which it opens no other.
StreamInv ==
  /\ chOpen <=> dec \in {"read", "hold"}
  /\ rd = "open" => ~chOpen
  /\ rd = "loop" /\ ~gone => ~chOpen
  /\ NoPushAfterClose

LEMMA StreamNext == Types /\ StreamInv /\ [Next]_vars => StreamInv'
<1> SUFFICES ASSUME Types, StreamInv, [Next]_vars
             PROVE  StreamInv'
  OBVIOUS
<1> USE DEF StreamInv, NoPushAfterClose
<1>1. CASE Decoder
  BY <1>1 DEF Decoder, DecodeFrame, DecodeSend, DecodeFails, DecoderOther, chVars, infVars
<1>2. CASE HandlerLoop \/ StreamEnds \/ ReadCancelled \/ ReadFrame
  BY <1>2 DEF HandlerLoop, StreamEnds, ReadCancelled, ReadFrame, ReaderOther, chVars, infVars
<1>3. CASE OpenStream
  BY <1>3 DEF OpenStream, ReaderOther, infVars
<1>4. CASE Return
  BY <1>4 DEF Return, ReaderOther, chVars, infVars
<1>5. CASE InferTake \/ InferEnd \/ Inference
  <2>1. UNCHANGED <<dec, chOpen, rd, connOpen, gone>> /\ inf # "ended"
    BY <1>5 DEF InferTake, InferEnd, Inference, PrepareGPU, PrepareCPU, InferFails,
       InferFindsNothing, InferHits, SaveSnapshots, Push, InferOther
  <2> QED
    BY <2>1
<1>6. CASE Disconnect \/ HotReload \/ UNCHANGED vars
  <2>1. UNCHANGED <<dec, chOpen, rd, connOpen, inf>> /\ (gone => gone')
    BY <1>6 DEF Disconnect, HotReload, decVars, chVars, rdVars, infVars, vars
  <2> QED
    BY <2>1
<1> QED
  BY <1>1, <1>2, <1>3, <1>4, <1>5, <1>6 DEF Next, Handler

THEOREM StreamInvariance == Spec => [](Types /\ StreamInv)
<1>1. Init => Types /\ StreamInv
  BY TypesInit DEF Init, StreamInv, NoPushAfterClose
<1> QED
  BY <1>1, TypesNext, StreamNext, PTL DEF Spec

\* A stream is opened again only after the decoder of the one before has finished.
THEOREM OneDecoderAlways == Spec => []OneDecoder
<1>1. Types /\ StreamInv => OneDecoder
  BY DEF Types, TypeOK, StreamInv, OneDecoder
<1> QED
  BY <1>1, StreamInvariance, PTL

\* Nothing is written to a websocket that the handler has closed.
THEOREM NeverPushedAfterClose == Spec => []NoPushAfterClose
BY StreamInvariance, PTL DEF StreamInv

-----------------------------------------------------------------------------
(* FrameInv buffers and the order of frames.                                   *)

\* The image in the hands of the inference goroutine.
Holding == inf \in {"taken", "infer", "hit"}
Image == IF inf = "taken" THEN infFrame.buf ELSE work

Pooled == rgbaPool \union clonePool

\* Nobody uses b.
Idle(b) ==
  /\ \A i \in 1 .. Len(ch) : ch[i].buf # b
  /\ \A i \in 1 .. Len(detect) : detect[i].buf # b
  /\ dec = "hold" => decBuf # b
  /\ Holding => Image # b

\* SingleOwner, and that the users of buffers are apart: a buffer that one of them
\* puts into a pool would else still be used by another.
Owners ==
  /\ rgbaPool \intersect clonePool = {}
  /\ \A b \in Pooled : Idle(b)
  /\ \A i, j \in 1 .. Len(ch) : ch[i].buf = ch[j].buf => i = j
  /\ \A i, j \in 1 .. Len(detect) : detect[i].buf = detect[j].buf => i = j
  /\ \A i \in 1 .. Len(ch), j \in 1 .. Len(detect) : ch[i].buf # detect[j].buf
  /\ dec = "hold" => /\ \A i \in 1 .. Len(ch) : ch[i].buf # decBuf
                     /\ \A i \in 1 .. Len(detect) : detect[i].buf # decBuf
                     /\ Holding => Image # decBuf
  /\ Holding => /\ \A i \in 1 .. Len(ch) : ch[i].buf # Image
                /\ \A i \in 1 .. Len(detect) : detect[i].buf # Image

\* Every buffer in use shows the capture its frame is known by.
Intact ==
  /\ \A i \in 1 .. Len(ch) : content[ch[i].buf] = ch[i].tag
  /\ \A i \in 1 .. Len(detect) : content[detect[i].buf] = detect[i].tag
  /\ dec = "hold" => content[decBuf] = captured
  /\ Holding => content[Image] = infFrame.tag

\* The frames that are under way are younger than the one at work, or the last one
\* pushed, and the channels hold them in the order of capture.
Latest == IF dec = "hold" THEN captured - 1 ELSE captured
AtWork == inf \in {"taken", "infer", "hit", "push"}
Reached == IF AtWork THEN infFrame.tag ELSE lastPush

Ordered ==
  /\ Reached <= Latest /\ (AtWork => lastPush < infFrame.tag)
  /\ \A i \in 1 .. Len(ch) : Reached < ch[i].tag /\ ch[i].tag <= Latest
  /\ \A i \in 1 .. Len(detect) : Reached < detect[i].tag /\ detect[i].tag <= Latest
  /\ \A i, j \in 1 .. Len(ch) : i < j => ch[i].tag < ch[j].tag
  /\ \A i, j \in 1 .. Len(detect) : i < j => detect[i].tag < detect[j].tag
  /\ \A i \in 1 .. Len(detect), j \in 1 .. Len(ch) : detect[i].tag < ch[j].tag

FrameInv == Owners /\ Intact /\ Ordered
IInv == Types /\ StreamInv /\ FrameInv

\* Tags are numbers.
LEMMA TagFacts ==
  ASSUME Types
  PROVE  /\ captured \in Int /\ Reached \in Int /\ Latest \in Int /\ lastPush \in Int
         /\ \A i \in 1 .. Len(ch) : ch[i].tag \in Int
         /\ \A i \in 1 .. Len(detect) : detect[i].tag \in Int
         /\ AtWork => infFrame.tag \in Int
<1>1. \A f \in Frames : f.tag \in Int
  BY FrameFacts DEF Captures
<1>2. /\ \A i \in 1 .. Len(ch) : ch[i].tag \in Int
      /\ \A i \in 1 .. Len(detect) : detect[i].tag \in Int
  BY <1>1, FrameFacts DEF Types, TypeOK
<1>3. captured \in Int /\ lastPush \in Int /\ (AtWork => infFrame.tag \in Int)
  BY <1>1 DEF Types, TypeOK, StateOK, AtWork, Captures
<1> QED
  BY <1>2, <1>3 DEF Reached, Latest

\* What a Get returns is nobody's, and in no pool afterwards.
LEMMA GetFacts ==
  ASSUME Types, Owners, NEW b \in Pooled \union Fresh
  PROVE  Idle(b) /\ b \in Buffers /\ (b \in Fresh => b \notin Pooled)
<1>1. CASE b \in Pooled
  BY <1>1, FreshFacts DEF Owners, Types, TypeOK, Pooled, Unused
<1>2. CASE b \in Fresh
  <2>1. b \in Buffers /\ b \notin Pooled /\ b \notin InUse
    BY <1>2, FreshFacts DEF Unused, Pooled
  <2>2. /\ \A i \in 1 .. Len(ch) : ch[i].buf \in InUse
        /\ \A i \in 1 .. Len(detect) : detect[i].buf \in InUse
        /\ dec = "hold" => decBuf \in InUse
        /\ Holding => Image \in InUse
    BY DEF InUse, BufsOf, Holding, Image
  <2> QED
    BY <2>1, <2>2 DEF Idle
<1> QED
  BY <1>1, <1>2

\* Steps that move no frame.
LEMMA QuietKeeps ==
  ASSUME Types, FrameInv,
         UNCHANGED <<rgbaPool, clonePool, content, captured, ch, detect, decBuf, infFrame, lastPush>>,
         dec' = "hold" <=> dec = "hold", Holding' <=> Holding, AtWork' <=> AtWork,
         Holding => Image' = Image
  PROVE  FrameInv'
<1>1. Owners'
  BY DEF FrameInv, Owners, Idle, Pooled
<1>2. Intact'
  BY DEF FrameInv, Intact
<1>3. Latest' = Latest /\ Reached' = Reached
  BY DEF Latest, Reached
<1>4. Ordered'
  BY <1>3 DEF FrameInv, Ordered
<1> QED
  BY <1>1, <1>2, <1>4 DEF FrameInv

LEMMA DecodeFrameKeeps == ASSUME IInv, DecodeFrame PROVE FrameInv'
<1>1. PICK b \in rgbaPool \union Fresh :
        rgbaPool' = rgbaPool \ {b} /\ decBuf' = b /\ content' = [content EXCEPT ![b] = captured + 1]
  BY DEF DecodeFrame
<1>2. /\ dec # "hold" /\ dec' = "hold" /\ captured' = captured + 1
      /\ UNCHANGED <<clonePool, ch, detect, inf, infFrame, work, lastPush>>
  BY DEF DecodeFrame, DecoderOther, chVars, infVars
<1>3. Idle(b) /\ b \in Buffers /\ (b \in Fresh => b \notin Pooled)
  BY <1>1, GetFacts DEF IInv, FrameInv, Pooled
<1>4. Holding' = Holding /\ Image' = Image /\ AtWork' = AtWork
  BY <1>2 DEF Holding, Image, AtWork
<1>5. Owners'
  <2>1. b \notin Pooled' /\ Pooled' \subseteq Pooled /\ (rgbaPool \intersect clonePool)' = {}
    BY <1>1, <1>2, <1>3 DEF IInv, FrameInv, Owners, Pooled
  <2>2. \A c \in Pooled' : Idle(c)'
    BY <1>1, <1>2, <1>4, <2>1 DEF IInv, FrameInv, Owners, Idle
  <2>3. /\ \A i \in 1 .. Len(ch) : ch[i].buf # b
        /\ \A i \in 1 .. Len(detect) : detect[i].buf # b
        /\ Holding => Image # b
    BY <1>3 DEF Idle
  <2> QED
    BY <1>1, <1>2, <1>4, <2>1, <2>2, <2>3 DEF IInv, FrameInv, Owners
<1>6. Intact'
  <2>1. \A c \in Buffers : content'[c] = IF c = b THEN captured + 1 ELSE content[c]
    BY <1>1 DEF IInv, Types, TypeOK
  <2>2. /\ \A i \in 1 .. Len(ch) : ch[i].buf \in Buffers /\ ch[i].buf # b
        /\ \A i \in 1 .. Len(detect) : detect[i].buf \in Buffers /\ detect[i].buf # b
    BY <1>3, FrameFacts DEF Idle, IInv, Types, TypeOK
  <2>3. Holding => Image \in Buffers /\ Image # b
    BY <1>3, FrameFacts DEF Idle, Holding, Image, IInv, Types, StateOK
  <2> QED
    BY <1>1, <1>2, <1>3, <1>4, <2>1, <2>2, <2>3 DEF IInv, FrameInv, Intact
<1>7. Ordered'
  <2>1. Latest' = Latest /\ Reached' = Reached
    BY <1>2, <1>4 DEF Latest, Reached, IInv, Types, TypeOK, Captures
  <2> QED
    BY <1>2, <1>4, <2>1 DEF IInv, FrameInv, Ordered
<1> QED
  BY <1>5, <1>6, <1>7 DEF FrameInv

LEMMA DecodeSendKeeps == ASSUME IInv, DecodeSend PROVE FrameInv'
<1> DEFINE f == [buf |-> decBuf, tag |-> captured]
<1>1. /\ dec = "hold" /\ dec' # "hold" /\ decBuf \in Buffers /\ Latest = captured - 1
      /\ captured \in Int
      /\ UNCHANGED <<captured, content, clonePool, detect, inf, infFrame, work, lastPush>>
  BY DEF DecodeSend, DecoderOther, infVars, IInv, Types, TypeOK, StateOK, Latest, Captures
<1>2. Holding' = Holding /\ Image' = Image /\ AtWork' = AtWork /\ Reached' = Reached
      /\ Latest' = captured
  BY <1>1 DEF Holding, Image, AtWork, Reached, Latest
<1>3. CASE Len(ch) < ChCap
  <2>1. ch' = Append(ch, f) /\ rgbaPool' = rgbaPool /\ ch \in Seq(Frames) /\ f \in Frames
    BY <1>1, <1>3, FrameFacts DEF DecodeSend, IInv, Types, TypeOK
  <2>2. /\ Len(ch) \in Nat /\ Len(ch') = Len(ch) + 1
        /\ \A i \in 1 .. Len(ch) : ch'[i] = ch[i]
        /\ ch'[Len(ch) + 1].buf = decBuf /\ ch'[Len(ch) + 1].tag = captured
    BY <2>1, AppendFacts
  <2>3. \A i \in 1 .. Len(ch') : i \in 1 .. Len(ch) \/ i = Len(ch) + 1
    BY <2>2
  <2>4. Pooled' = Pooled
    BY <1>1, <2>1 DEF Pooled
  <2>5. Owners'
    <3>1. \A b \in Pooled' : Idle(b)'
      BY <1>1, <1>2, <2>2, <2>3, <2>4 DEF IInv, FrameInv, Owners, Idle
    <3>2. \A i, j \in 1 .. Len(ch') : ch'[i].buf = ch'[j].buf => i = j
      BY <1>1, <2>2, <2>3 DEF IInv, FrameInv, Owners
    <3>3. \A i \in 1 .. Len(ch'), j \in 1 .. Len(detect) : ch'[i].buf # detect[j].buf
      BY <1>1, <2>2, <2>3 DEF IInv, FrameInv, Owners
    <3>4. Holding => \A i \in 1 .. Len(ch') : ch'[i].buf # Image
      BY <1>1, <2>2, <2>3 DEF IInv, FrameInv, Owners
    <3> QED
      BY <1>1, <1>2, <2>1, <3>1, <3>2, <3>3, <3>4 DEF IInv, FrameInv, Owners
  <2>6. Intact'
    BY <1>1, <1>2, <2>2, <2>3 DEF IInv, FrameInv, Intact
  <2>7. Ordered'
    <3>1. \A i \in 1 .. Len(ch') : Reached < ch'[i].tag /\ ch'[i].tag <= captured
      BY <1>1, <2>2, <2>3, TagFacts DEF IInv, FrameInv, Ordered
    <3>2. \A i, j \in 1 .. Len(ch') : i < j => ch'[i].tag < ch'[j].tag
      BY <1>1, <2>2, <2>3, TagFacts DEF IInv, FrameInv, Ordered
    <3>3. \A i \in 1 .. Len(detect) : Reached < detect[i].tag /\ detect[i].tag < captured
      BY <1>1, TagFacts DEF IInv, FrameInv, Ordered
    <3>4. \A i \in 1 .. Len(detect), j \in 1 .. Len(ch') : detect[i].tag < ch'[j].tag
      <4>1. \A i \in 1 .. Len(detect), j \in 1 .. Len(ch) : detect[i].tag < ch[j].tag
        BY DEF IInv, FrameInv, Ordered
      <4> QED
        BY <2>2, <2>3, <3>3, <4>1
    <3>5. Reached <= captured
      BY <1>1, TagFacts DEF IInv, FrameInv, Ordered
    <3>6. /\ AtWork => lastPush < infFrame.tag
          /\ \A i, j \in 1 .. Len(detect) : i < j => detect[i].tag < detect[j].tag
      BY DEF IInv, FrameInv, Ordered
    <3>7. \A i \in 1 .. Len(detect) : detect[i].tag <= captured
      BY <1>1, <3>3, TagFacts DEF IInv
    <3> QED
      BY <1>1, <1>2, <3>1, <3>2, <3>3, <3>4, <3>5, <3>6, <3>7 DEF Ordered
  <2> QED
    BY <2>5, <2>6, <2>7 DEF FrameInv
<1>4. CASE ~(Len(ch) < ChCap)
  <2>1. ch' = ch /\ rgbaPool' = rgbaPool \union {decBuf} /\ Pooled' = Pooled \union {decBuf}
    BY <1>1, <1>4 DEF DecodeSend, Pooled
  <2>2. Owners'
    <3>1. \A b \in Pooled' : Idle(b)'
      BY <1>1, <1>2, <2>1 DEF IInv, FrameInv, Owners, Idle
    <3>2. decBuf \notin Pooled
      BY <1>1 DEF IInv, FrameInv, Owners, Idle
    <3> QED
      BY <1>1, <1>2, <2>1, <3>1, <3>2 DEF IInv, FrameInv, Owners, Pooled
  <2>3. Intact'
    BY <1>1, <1>2, <2>1 DEF IInv, FrameInv, Intact
  <2>4. Ordered'
    BY <1>1, <1>2, <2>1, TagFacts DEF IInv, FrameInv, Ordered
  <2> QED
    BY <2>2, <2>3, <2>4 DEF FrameInv
<1> QED
  BY <1>3, <1>4

LEMMA ReadFrameKeeps == ASSUME IInv, ReadFrame PROVE FrameInv'
<1>1. UNCHANGED <<clonePool, content, captured, dec, decBuf, inf, infFrame, work, lastPush>>
  BY DEF ReadFrame, ReaderOther, infVars
<1>2. /\ Holding' = Holding /\ Image' = Image /\ AtWork' = AtWork
      /\ Reached' = Reached /\ Latest' = Latest
  BY <1>1 DEF Holding, Image, AtWork, Reached, Latest
<1>3. /\ Len(ch) \in Nat /\ Len(ch) >= 1 /\ Len(ch') = Len(ch) - 1
      /\ Head(ch) = ch[1] /\ ch[1] \in Frames /\ 1 \in 1 .. Len(ch)
      /\ \A i \in 1 .. Len(ch') : ch'[i] = ch[i + 1] /\ i + 1 \in 1 .. Len(ch) /\ i + 1 # 1
  BY TailFacts DEF ReadFrame, IInv, Types, TypeOK
<1>4. CASE frameID = 0 /\ Len(detect) < DetCap
  <2>1. detect' = Append(detect, ch[1]) /\ rgbaPool' = rgbaPool /\ detect \in Seq(Frames)
    BY <1>3, <1>4 DEF ReadFrame, IInv, Types, TypeOK
  <2>2. /\ Len(detect) \in Nat /\ Len(detect') = Len(detect) + 1
        /\ \A i \in 1 .. Len(detect) : detect'[i] = detect[i]
        /\ detect'[Len(detect) + 1] = ch[1]
    BY <1>3, <2>1, AppendFacts
  <2>3. \A i \in 1 .. Len(detect') : i \in 1 .. Len(detect) \/ i = Len(detect) + 1
    BY <2>2
  <2>4. Pooled' = Pooled
    BY <1>1, <2>1 DEF Pooled
  <2>5. Owners'
    <3>1. \A b \in Pooled' : Idle(b)'
      BY <1>1, <1>2, <1>3, <2>2, <2>3, <2>4 DEF IInv, FrameInv, Owners, Idle
    <3>2. \A i, j \in 1 .. Len(ch') : ch'[i].buf = ch'[j].buf => i = j
      BY <1>3 DEF IInv, FrameInv, Owners
    <3>3. \A i, j \in 1 .. Len(detect') : detect'[i].buf = detect'[j].buf => i = j
      BY <1>3, <2>2, <2>3 DEF IInv, FrameInv, Owners
    <3>4. \A i \in 1 .. Len(ch'), j \in 1 .. Len(detect') : ch'[i].buf # detect'[j].buf
      BY <1>3, <2>2, <2>3 DEF IInv, FrameInv, Owners
    <3>5. dec = "hold" => /\ \A i \in 1 .. Len(ch') : ch'[i].buf # decBuf
                          /\ \A i \in 1 .. Len(detect') : detect'[i].buf # decBuf
      BY <1>3, <2>2, <2>3 DEF IInv, FrameInv, Owners
    <3>6. Holding => /\ \A i \in 1 .. Len(ch') : ch'[i].buf # Image
                     /\ \A i \in 1 .. Len(detect') : detect'[i].buf # Image
      <4>1. Holding => /\ \A i \in 1 .. Len(ch) : ch[i].buf # Image
                       /\ \A i \in 1 .. Len(detect) : detect[i].buf # Image
        BY DEF IInv, FrameInv, Owners
      <4> QED
        BY <1>3, <2>2, <2>3, <4>1
    <3> QED
      BY <1>1, <1>2, <2>1, <3>1, <3>2, <3>3, <3>4, <3>5, <3>6 DEF IInv, FrameInv, Owners
  <2>6. Intact'
    BY <1>1, <1>2, <1>3, <2>2, <2>3 DEF IInv, FrameInv, Intact
  <2>7. Ordered'
    <3>1. \A i \in 1 .. Len(ch') : Reached < ch'[i].tag /\ ch'[i].tag <= Latest
      BY <1>3 DEF IInv, FrameInv, Ordered
    <3>2. \A i \in 1 .. Len(detect') : Reached < detect'[i].tag /\ detect'[i].tag <= Latest
      BY <1>3, <2>2, <2>3 DEF IInv, FrameInv, Ordered
    <3>3. \A i, j \in 1 .. Len(ch') : i < j => ch'[i].tag < ch'[j].tag
      BY <1>3 DEF IInv, FrameInv, Ordered
    <3>4. \A i, j \in 1 .. Len(detect') : i < j => detect'[i].tag < detect'[j].tag
      BY <1>3, <2>2, <2>3 DEF IInv, FrameInv, Ordered
    <3>5. \A i \in 1 .. Len(detect'), j \in 1 .. Len(ch') : detect'[i].tag < ch'[j].tag
      BY <1>3, <2>2, <2>3 DEF IInv, FrameInv, Ordered
    <3> QED
      BY <1>1, <1>2, <3>1, <3>2, <3>3, <3>4, <3>5 DEF IInv, FrameInv, Ordered
  <2> QED
    BY <2>5, <2>6, <2>7 DEF FrameInv
<1>5. CASE ~(frameID = 0 /\ Len(detect) < DetCap)
  <2>1. detect' = detect /\ rgbaPool' = rgbaPool \union {ch[1].buf}
        /\ Pooled' = Pooled \union {ch[1].buf} /\ ch[1].buf \notin Pooled
    BY <1>1, <1>3, <1>5 DEF ReadFrame, Pooled, IInv, FrameInv, Owners, Idle
  <2>2. Owners'
    <3>1. \A b \in Pooled' : Idle(b)'
      BY <1>1, <1>2, <1>3, <2>1 DEF IInv, FrameInv, Owners, Idle
    <3>2. \A i, j \in 1 .. Len(ch') : ch'[i].buf = ch'[j].buf => i = j
      BY <1>3 DEF IInv, FrameInv, Owners
    <3>3. \A i \in 1 .. Len(ch'), j \in 1 .. Len(detect) : ch'[i].buf # detect[j].buf
      BY <1>3 DEF IInv, FrameInv, Owners
    <3>4. /\ dec = "hold" => \A i \in 1 .. Len(ch') : ch'[i].buf # decBuf
          /\ Holding => \A i \in 1 .. Len(ch') : ch'[i].buf # Image
      BY <1>3 DEF IInv, FrameInv, Owners
    <3>5. rgbaPool' \intersect clonePool' = {}
      BY <1>1, <2>1 DEF IInv, FrameInv, Owners, Pooled
    <3> QED
      BY <1>1, <1>2, <2>1, <3>1, <3>2, <3>3, <3>4, <3>5 DEF IInv, FrameInv, Owners
  <2>3. Intact'
    BY <1>1, <1>2, <1>3, <2>1 DEF IInv, FrameInv, Intact
  <2>4. Ordered'
    <3>1. \A i, j \in 1 .. Len(ch') : i < j => ch'[i].tag < ch'[j].tag
      BY <1>3 DEF IInv, FrameInv, Ordered
    <3>2. \A i \in 1 .. Len(ch') : Reached < ch'[i].tag /\ ch'[i].tag <= Latest
      BY <1>3 DEF IInv, FrameInv, Ordered
    <3>3. \A i \in 1 .. Len(detect), j \in 1 .. Len(ch') : detect[i].tag < ch'[j].tag
      BY <1>3 DEF IInv, FrameInv, Ordered
    <3> QED
      BY <1>1, <1>2, <2>1, <3>1, <3>2, <3>3 DEF IInv, FrameInv, Ordered
  <2> QED
    BY <2>2, <2>3, <2>4 DEF FrameInv
<1> QED
  BY <1>4, <1>5

LEMMA OpenStreamKeeps == ASSUME IInv, OpenStream PROVE FrameInv'
<1>1. /\ dec # "hold" /\ dec' # "hold"
      /\ UNCHANGED <<rgbaPool, clonePool, content, captured, detect, inf, infFrame, work, lastPush>>
  BY DEF OpenStream, ReaderOther, infVars, IInv, StreamInv
<1>2. /\ Holding' = Holding /\ Image' = Image /\ AtWork' = AtWork
      /\ Reached' = Reached /\ Latest' = Latest /\ Pooled' = Pooled
  BY <1>1 DEF Holding, Image, AtWork, Reached, Latest, Pooled
<1>3. ch' = ch \/ (ch' = <<>> /\ Len(ch') = 0)
  BY DEF OpenStream
<1>4. 1 .. Len(ch') \subseteq 1 .. Len(ch) /\ \A i \in 1 .. Len(ch') : ch'[i] = ch[i]
  BY <1>3
<1>5. Owners'
  <2>1. \A b \in Pooled' : Idle(b)'
    BY <1>1, <1>2, <1>4 DEF IInv, FrameInv, Owners, Idle
  <2> QED
    BY <1>1, <1>2, <1>4, <2>1 DEF IInv, FrameInv, Owners
<1>6. Intact'
  BY <1>1, <1>2, <1>4 DEF IInv, FrameInv, Intact
<1>7. Ordered'
  BY <1>1, <1>2, <1>4 DEF IInv, FrameInv, Ordered
<1> QED
  BY <1>5, <1>6, <1>7 DEF FrameInv

LEMMA InferTakeKeeps == ASSUME IInv, InferTake PROVE FrameInv'
<1>1. /\ inf = "select" /\ inf' = "taken" /\ infFrame' = detect[1]
      /\ UNCHANGED <<rgbaPool, clonePool, content, captured, dec, decBuf, ch, work, lastPush>>
      /\ Len(detect) \in Nat /\ Len(detect) >= 1 /\ Len(detect') = Len(detect) - 1
      /\ 1 \in 1 .. Len(detect)
      /\ \A i \in 1 .. Len(detect') :
           detect'[i] = detect[i + 1] /\ i + 1 \in 1 .. Len(detect) /\ 1 < i + 1 /\ i + 1 # 1
  BY TailFacts DEF InferTake, InferOther, poolVars, IInv, Types, TypeOK
<1>2. /\ ~Holding /\ Holding' /\ Image' = detect[1].buf /\ ~AtWork /\ AtWork'
      /\ Reached = lastPush /\ Reached' = detect[1].tag /\ Latest' = Latest
      /\ Pooled' = Pooled
  BY <1>1 DEF Holding, Image, AtWork, Reached, Latest, Pooled
<1>3. Owners'
  <2>1. \A b \in Pooled' : Idle(b)'
    BY <1>1, <1>2 DEF IInv, FrameInv, Owners, Idle
  <2>2. /\ \A i, j \in 1 .. Len(detect') : detect'[i].buf = detect'[j].buf => i = j
        /\ \A i \in 1 .. Len(ch), j \in 1 .. Len(detect') : ch[i].buf # detect'[j].buf
    <3>1. /\ \A i, j \in 1 .. Len(detect) : detect[i].buf = detect[j].buf => i = j
          /\ \A i \in 1 .. Len(ch), j \in 1 .. Len(detect) : ch[i].buf # detect[j].buf
      BY DEF IInv, FrameInv, Owners
    <3>2. \A i, j \in 1 .. Len(detect') : detect'[i].buf = detect'[j].buf => i = j
      BY <1>1, <3>1
    <3> QED
      BY <1>1, <3>1, <3>2
  <2>3. /\ \A i \in 1 .. Len(ch) : ch[i].buf # detect[1].buf
        /\ \A i \in 1 .. Len(detect') : detect'[i].buf # detect[1].buf
    BY <1>1 DEF IInv, FrameInv, Owners
  <2>4. dec = "hold" => /\ \A i \in 1 .. Len(detect') : detect'[i].buf # decBuf
                        /\ detect[1].buf # decBuf
    BY <1>1 DEF IInv, FrameInv, Owners
  <2> QED
    BY <1>1, <1>2, <2>1, <2>2, <2>3, <2>4 DEF IInv, FrameInv, Owners
<1>4. Intact'
  BY <1>1, <1>2 DEF IInv, FrameInv, Intact
<1>5. Ordered'
  <2>1. \A i \in 1 .. Len(detect') : detect[1].tag < detect'[i].tag /\ detect'[i].tag <= Latest
    BY <1>1 DEF IInv, FrameInv, Ordered
  <2>2. \A i, j \in 1 .. Len(detect') : i < j => detect'[i].tag < detect'[j].tag
    BY <1>1 DEF IInv, FrameInv, Ordered
  <2>3. \A i \in 1 .. Len(detect'), j \in 1 .. Len(ch) : detect'[i].tag < ch[j].tag
    BY <1>1 DEF IInv, FrameInv, Ordered
  <2>4. lastPush < detect[1].tag /\ detect[1].tag <= Latest
    BY <1>1, <1>2 DEF IInv, FrameInv, Ordered
  <2>5. \A i \in 1 .. Len(ch) : detect[1].tag < ch[i].tag /\ ch[i].tag <= Latest
    BY <1>1 DEF IInv, FrameInv, Ordered
  <2> QED
    BY <1>1, <1>2, <2>1, <2>2, <2>3, <2>4, <2>5 DEF IInv, FrameInv, Ordered
<1> QED
  BY <1>3, <1>4, <1>5 DEF FrameInv

LEMMA PrepareCPUKeeps == ASSUME IInv, PrepareCPU PROVE FrameInv'
<1> DEFINE old == infFrame.buf
<1>1. PICK b \in clonePool \union Fresh :
        work' = b /\ clonePool' = clonePool \ {b} /\ content' = [content EXCEPT ![b] = content[old]]
  BY DEF PrepareCPU
<1>2. /\ inf = "taken" /\ inf' = "infer" /\ rgbaPool' = rgbaPool \union {old}
      /\ UNCHANGED <<captured, dec, decBuf, ch, detect, infFrame, lastPush>>
      /\ old \in Buffers
  BY FrameFacts DEF PrepareCPU, InferOther, IInv, Types, StateOK
<1>3. /\ Holding /\ Holding' /\ Image = old /\ Image' = b /\ AtWork /\ AtWork'
      /\ Reached' = Reached /\ Latest' = Latest
  BY <1>1, <1>2 DEF Holding, Image, AtWork, Reached, Latest
<1>4. Idle(b) /\ b \in Buffers /\ (b \in Fresh => b \notin Pooled) /\ b # old
  <2>1. Idle(b) /\ b \in Buffers /\ (b \in Fresh => b \notin Pooled)
    BY <1>1, GetFacts DEF IInv, FrameInv, Pooled
  <2> QED
    BY <1>3, <2>1 DEF Idle
<1>5. old \notin Pooled /\ Pooled' \subseteq Pooled \union {old} /\ b \notin Pooled'
      /\ (rgbaPool \intersect clonePool)' = {}
  <2>1. old \notin Pooled
    BY <1>3 DEF IInv, FrameInv, Owners, Idle
  <2> QED
    BY <1>1, <1>2, <1>4, <2>1 DEF IInv, FrameInv, Owners, Pooled
<1>6. Owners'
  <2>1. /\ \A i \in 1 .. Len(ch) : ch[i].buf # old /\ ch[i].buf # b
        /\ \A i \in 1 .. Len(detect) : detect[i].buf # old /\ detect[i].buf # b
        /\ dec = "hold" => decBuf # old /\ decBuf # b
    BY <1>3, <1>4 DEF IInv, FrameInv, Owners, Idle
  <2>2. \A c \in Pooled' : c \in Pooled \union {old} /\ c # b
    BY <1>5
  <2>3. \A c \in Pooled : Idle(c)
    BY DEF IInv, FrameInv, Owners
  <2>4. \A c \in Pooled' : Idle(c)'
    BY <1>2, <1>3, <2>1, <2>2, <2>3 DEF Idle
  <2> QED
    BY <1>2, <1>3, <1>5, <2>1, <2>4 DEF IInv, FrameInv, Owners
<1>7. Intact'
  <2>1. \A c \in Buffers : content'[c] = IF c = b THEN content[old] ELSE content[c]
    BY <1>1 DEF IInv, Types, TypeOK
  <2>2. /\ \A i \in 1 .. Len(ch) : ch[i].buf \in Buffers /\ ch[i].buf # b
        /\ \A i \in 1 .. Len(detect) : detect[i].buf \in Buffers /\ detect[i].buf # b
        /\ dec = "hold" => decBuf \in Buffers /\ decBuf # b
    BY <1>4, FrameFacts DEF Idle, IInv, Types, TypeOK, StateOK
  <2>3. content[old] = infFrame.tag
    BY <1>3 DEF IInv, FrameInv, Intact
  <2> QED
    BY <1>2, <1>3, <1>4, <2>1, <2>2, <2>3 DEF IInv, FrameInv, Intact
<1>8. Ordered'
  BY <1>2, <1>3 DEF IInv, FrameInv, Ordered
<1> QED
  BY <1>6, <1>7, <1>8 DEF FrameInv

\* The image goes to one of the pools, and the frame is dropped or about to be pushed.
LEMMA GiveBackKeeps ==
  ASSUME IInv, inf \in {"infer", "hit"}, inf' \in {"select", "push"},
         \/ rgbaPool' = rgbaPool \union {work} /\ UNCHANGED clonePool
         \/ clonePool' = clonePool \union {work} /\ UNCHANGED rgbaPool,
         inf' = "push" => UNCHANGED infFrame,
         UNCHANGED <<content, captured, dec, decBuf, ch, detect, lastPush>>
  PROVE  FrameInv'
<1>1. /\ Holding /\ ~Holding' /\ Image = work /\ AtWork /\ Latest' = Latest
      /\ Pooled' = Pooled \union {work}
      /\ AtWork' => Reached' = Reached /\ infFrame' = infFrame
      /\ ~AtWork' => Reached' = lastPush
      /\ Reached = infFrame.tag
  BY DEF Holding, Image, AtWork, Reached, Latest, Pooled
<1>2. Owners'
  <2>1. work \notin Pooled
    BY <1>1 DEF IInv, FrameInv, Owners, Idle
  <2>2. /\ \A i \in 1 .. Len(ch) : ch[i].buf # work
        /\ \A i \in 1 .. Len(detect) : detect[i].buf # work
        /\ dec = "hold" => decBuf # work
    BY <1>1 DEF IInv, FrameInv, Owners
  <2>3. \A b \in Pooled' : Idle(b)'
    BY <1>1, <2>2 DEF IInv, FrameInv, Owners, Idle
  <2>4. (rgbaPool \intersect clonePool)' = {}
    BY <2>1 DEF IInv, FrameInv, Owners, Pooled
  <2> QED
    BY <1>1, <2>3, <2>4 DEF IInv, FrameInv, Owners
<1>3. Intact'
  BY <1>1 DEF IInv, FrameInv, Intact
<1>4. Ordered'
  <2>1. lastPush < Reached /\ Reached <= Latest /\ lastPush <= Latest
    BY <1>1, TagFacts DEF IInv, FrameInv, Ordered
  <2>2. Reached' <= Reached /\ Reached' \in Int
    BY <1>1, <2>1, TagFacts DEF IInv
  <2>3. /\ \A i \in 1 .. Len(ch) : Reached' < ch[i].tag
        /\ \A i \in 1 .. Len(detect) : Reached' < detect[i].tag
    BY <2>2, TagFacts DEF IInv, FrameInv, Ordered
  <2> QED
    BY <1>1, <2>1, <2>2, <2>3, TagFacts DEF IInv, FrameInv, Ordered
<1> QED
  BY <1>2, <1>3, <1>4 DEF FrameInv

LEMMA PushKeeps == ASSUME IInv, Push PROVE FrameInv'
<1>1. /\ inf = "push" /\ inf' = "select" /\ lastPush' = infFrame.tag
      /\ UNCHANGED <<rgbaPool, clonePool, content, captured, dec, decBuf, ch, detect, work>>
  BY DEF Push, InferOther, poolVars
<1>2. /\ ~Holding /\ ~Holding' /\ AtWork /\ ~AtWork' /\ Pooled' = Pooled
      /\ Reached' = Reached /\ Latest' = Latest
  BY <1>1 DEF Holding, AtWork, Reached, Latest, Pooled
<1>3. Owners'
  BY <1>1, <1>2 DEF IInv, FrameInv, Owners, Idle
<1>4. Intact'
  BY <1>1, <1>2 DEF IInv, FrameInv, Intact
<1>5. Ordered'
  BY <1>1, <1>2 DEF IInv, FrameInv, Ordered
<1> QED
  BY <1>3, <1>4, <1>5 DEF FrameInv

LEMMA InferenceKeeps == ASSUME IInv, InferEnd \/ Inference PROVE FrameInv'
<1>1. CASE InferEnd \/ InferHits \/ PrepareGPU
  <2>1. /\ UNCHANGED <<rgbaPool, clonePool, content, captured, ch, detect, dec, decBuf, infFrame,
                       lastPush>>
        /\ (Holding' <=> Holding) /\ (AtWork' <=> AtWork) /\ (Holding => Image' = Image)
    BY <1>1 DEF InferEnd, InferHits, PrepareGPU, InferOther, poolVars, Holding, AtWork, Image
  <2> QED
    BY <2>1, QuietKeeps DEF IInv
<1>2. CASE InferFails \/ InferFindsNothing \/ SaveSnapshots
  BY <1>2, GiveBackKeeps DEF InferFails, InferFindsNothing, SaveSnapshots, Release, InferOther
<1> QED
  BY <1>1, <1>2, PrepareCPUKeeps, PushKeeps DEF Inference

LEMMA FrameNext == IInv /\ [Next]_vars => FrameInv'
<1> SUFFICES ASSUME IInv, [Next]_vars
             PROVE  FrameInv'
  OBVIOUS
<1>1. CASE DecodeFails \/ HandlerLoop \/ StreamEnds \/ Return \/ ReadCancelled \/ Disconnect
           \/ HotReload \/ UNCHANGED vars
  <2>1. /\ UNCHANGED <<rgbaPool, clonePool, content, captured, ch, detect, decBuf, inf, infFrame,
                       work, lastPush>>
        /\ (dec' = "hold" <=> dec = "hold")
    BY <1>1 DEF DecodeFails, DecoderOther, HandlerLoop, StreamEnds, Return, ReadCancelled,
       ReaderOther, Disconnect, HotReload, decVars, chVars, rdVars, infVars, vars
  <2>2. (Holding' <=> Holding) /\ (AtWork' <=> AtWork) /\ Image' = Image
    BY <2>1 DEF Holding, AtWork, Image
  <2> QED
    BY <2>1, <2>2, QuietKeeps DEF IInv
<1> QED
  BY <1>1, DecodeFrameKeeps, DecodeSendKeeps, OpenStreamKeeps, ReadFrameKeeps, InferTakeKeeps,
     InferenceKeeps DEF Next, Decoder, Handler

LEMMA InitInv == Init => IInv
<1> SUFFICES ASSUME Init
             PROVE  IInv
  OBVIOUS
<1>1. Types
  BY TypesInit
<1>2. StreamInv
  BY DEF Init, StreamInv, NoPushAfterClose
<1>3. /\ Len(ch) = 0 /\ Len(detect) = 0 /\ dec = "none" /\ ~Holding /\ ~AtWork
      /\ Reached = 0 /\ Latest = 0 /\ Pooled = {} /\ rgbaPool = {}
  BY DEF Init, Holding, AtWork, Reached, Latest, Pooled
<1>4. FrameInv
  BY <1>3 DEF FrameInv, Owners, Intact, Ordered
<1> QED
  BY <1>1, <1>2, <1>4 DEF IInv

\* The invariant holds in every reachable state.
THEOREM SessionInvariance == Spec => []IInv
<1>1. IInv /\ [Next]_vars => IInv'
  BY TypesNext, StreamNext, FrameNext DEF IInv
<1> QED
  BY <1>1, InitInv, PTL DEF Spec

\* A frame buffer is in one pool or in use, never twice, however inferences end and
\* whenever use-cuda is reloaded.
THEOREM SingleOwnerAlways == Spec => []SingleOwner
<1>1. IInv => SingleOwner
  <2> SUFFICES ASSUME IInv
               PROVE  SingleOwner
    OBVIOUS
  <2>1. \A b \in InUse : ~Idle(b)
    BY DEF InUse, BufsOf, Idle, Holding, Image
  <2> QED
    BY <2>1 DEF IInv, FrameInv, Owners, Pooled, SingleOwner
<1> QED
  BY <1>1, SessionInvariance, PTL

\* The image that is analysed shows the frame it is pushed as.
THEOREM FrameAlwaysIntact == Spec => []FrameIntact
<1>1. IInv => FrameIntact
  BY DEF IInv, FrameInv, Intact, FrameIntact, Holding, Image
<1> QED
  BY <1>1, SessionInvariance, PTL

\* Results reach the client in the order of capture, across reconnections.
THEOREM PushedInOrder == Spec => PushOrder
<1>1. IInv /\ [Next]_vars => [lastPush' # lastPush => lastPush' > lastPush]_vars
  <2> SUFFICES ASSUME IInv, Next, lastPush' # lastPush
               PROVE  lastPush' > lastPush
    OBVIOUS
  <2>1. Push
    BY DEF Next, Decoder, DecodeFrame, DecodeSend, DecodeFails, DecoderOther, Handler,
       HandlerLoop, OpenStream, StreamEnds, Return, ReadFrame, ReadCancelled, ReaderOther,
       InferTake, InferEnd, Inference, PrepareGPU, PrepareCPU, InferFails, InferFindsNothing,
       InferHits, SaveSnapshots, Disconnect, HotReload, infVars
  <2>2. lastPush' = infFrame.tag /\ lastPush < infFrame.tag
    BY <2>1 DEF Push, IInv, FrameInv, Ordered, AtWork
  <2> QED
    BY <2>2, TagFacts DEF IInv
<1> QED
  BY <1>1, SessionInvariance, PTL DEF Spec, PushOrder
=============================================================================
