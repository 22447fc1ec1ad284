---------------------------- MODULE ServerProofs ----------------------------
(* For any number of restart requests, processes and signals: no MediaMTX   *)
(* at work outlives a process that replaces itself.  For any saves and any  *)
(* keys: the file, the start and the hot reload of the configuration.       *)
EXTENDS MCServer, FiniteSetTheorems, TLAPS

(***************************************************************************)
(* Supervision.                                                            *)
(***************************************************************************)
Mtx == <<"mtx", gen>>
Active == {p \in Stoppers : at[p] \notin {"off", "idle"}}
OthersActive(p) == \E q \in Active : q # p

\* MediaMTX is started once per process, before anybody can stop it.
Booting == main \in {"start", "initGo", "initMtx"} => at = NoStopper

\* The children of a process start after it.
NoFuture == \A g \in Gens : g > gen => <<"mtx", g>> \notin live

\* Who forgets the command has seen MediaMTX end or has killed it, and so has whoever
\* finds the command forgotten.
MtxHandled ==
  /\ ~mtxCmd => Mtx \notin live \ doomed
  /\ \A p \in Stoppers :
       at[p] \in {"reset", "forget", "go", "exec", "done"} => Mtx \notin live \ doomed

\* A pointer that was tested is still there, unless another stopper forgot it.
PointersTested ==
  /\ \A p \in Stoppers : at[p] = "call" => mtxCancel \/ OthersActive(p)
  /\ \A p \in Stoppers : at[p] \in {"spawn", "wait", "kill"} => mtxCmd \/ OthersActive(p)
  /\ panicked => \E p \in Active : OthersActive(p)

SupInv ==
  /\ TypeOK /\ Booting /\ NoFuture /\ MtxHandled /\ PointersTested
  /\ MtxLeftOnlyByDeath

LEMMA SupInit == Init => SupInv
<1> SUFFICES ASSUME Init
             PROVE  SupInv
  OBVIOUS
<1>1. 0 \in Gens /\ 0 \in 0 .. MaxSignals
  BY SupervisionAssumption DEF SupervisionAssumption, Gens
<1>2. at \in [Stoppers -> {"off", "idle"}]
  BY DEF Init, NoStopper
<1>3. TypeOK
  BY <1>1, <1>2 DEF Init, TypeOK
<1>4. Booting /\ NoFuture /\ MtxLeftOnlyByDeath
  BY DEF Init, Booting, NoFuture, MtxLeftOnlyByDeath
<1>5. MtxHandled /\ PointersTested
  BY <1>2 DEF Init, MtxHandled, PointersTested, Mtx
<1> QED
  BY <1>3, <1>4, <1>5 DEF SupInv

-----------------------------------------------------------------------------
\* The steps that leave process, stoppers and globals alone: a child is sent SIGKILL,
\* exits, or has its context cancelled.
LEMMA ChildrenOnly ==
  ASSUME SupInv, UNCHANGED <<process, globals, at>>,
         live' \subseteq live, doomed' \subseteq live',
         live' \ doomed' \subseteq live \ doomed,
         cancelled' \subseteq {"go", "mtx"}
  PROVE  SupInv'
<1> USE DEF process, globals
<1>1. TypeOK'
  BY DEF SupInv, TypeOK
<1>2. Booting' /\ NoFuture'
  BY DEF SupInv, Booting, NoFuture, NoStopper, Gens
<1>3. MtxHandled' /\ MtxLeftOnlyByDeath'
  BY DEF SupInv, MtxHandled, Mtx, MtxLeftOnlyByDeath, Gens
<1>4. PointersTested'
  BY DEF SupInv, PointersTested, OthersActive, Active
<1> QED
  BY <1>1, <1>2, <1>3, <1>4 DEF SupInv

\* The end of a process: with a panic only if two stoppers are active.
LEMMA Ends ==
  ASSUME SupInv, Alive, Die, UNCHANGED <<children, globals, at>>,
         panicked' \in BOOLEAN,
         panicked' => panicked \/ \E p \in Active : OthersActive(p)
  PROVE  SupInv'
<1> USE DEF Die, children, globals
<1>1. TypeOK'
  BY DEF SupInv, TypeOK
<1>2. Booting' /\ NoFuture'
  BY DEF SupInv, Booting, NoFuture, NoStopper, Gens
<1>3. MtxHandled' /\ MtxLeftOnlyByDeath'
  BY DEF SupInv, TypeOK, MtxHandled, Mtx, MtxLeftOnlyByDeath, Gens
<1>4. PointersTested'
  BY DEF SupInv, PointersTested, OthersActive, Active
<1> QED
  BY <1>1, <1>2, <1>3, <1>4 DEF SupInv

\* A new process: the one before it has replaced itself only when its MediaMTX was
\* handled.
LEMMA Begins ==
  ASSUME SupInv, NewProcess, end' \in [Gens -> {"runs", "replaced", "died"}],
         \A g \in Gens : end'[g] = "replaced" =>
           end[g] = "replaced" \/ (g = gen /\ Mtx \notin live \ doomed)
  PROVE  SupInv'
<1> USE DEF NewProcess
<1>1. gen' \in Gens /\ gen \in Gens /\ gen' > gen
  BY SupervisionAssumption DEF SupInv, TypeOK, SupervisionAssumption, Gens
<1>2. Mtx' \notin live
  BY <1>1 DEF SupInv, NoFuture, Mtx
<1>3. at' \in [Stoppers -> {"off", "idle"}]
  BY DEF NoStopper
<1>4. TypeOK'
  BY <1>1, <1>2, <1>3 DEF SupInv, TypeOK, Mtx
<1>5. NoFuture'
  BY <1>1 DEF SupInv, NoFuture, Gens
<1>6. MtxHandled' /\ PointersTested' /\ Booting'
  BY <1>2, <1>3 DEF MtxHandled, PointersTested, Booting, NoStopper
<1>7. MtxLeftOnlyByDeath'
  BY DEF SupInv, MtxLeftOnlyByDeath, Mtx
<1> QED
  BY <1>4, <1>5, <1>6, <1>7 DEF SupInv

\* A step of main that starts nothing.
LEMMA MainMoves ==
  ASSUME SupInv, NEW l \in {"initGo", "serve", "down"}, Goto(l),
         main = "start" \/ l # "initGo",
         UNCHANGED <<children, globals, at>>
  PROVE  SupInv'
<1> USE DEF Goto, children, globals
<1>1. TypeOK'
  BY DEF SupInv, TypeOK
<1>2. Booting' /\ NoFuture'
  BY DEF SupInv, Booting, NoFuture, NoStopper, Gens
<1>3. MtxHandled' /\ MtxLeftOnlyByDeath'
  BY DEF SupInv, MtxHandled, Mtx, MtxLeftOnlyByDeath, Gens
<1>4. PointersTested'
  BY DEF SupInv, PointersTested, OthersActive, Active
<1> QED
  BY <1>1, <1>2, <1>3, <1>4 DEF SupInv

LEMMA StartsGo == SupInv /\ InitGo2RTC => SupInv'
<1> SUFFICES ASSUME SupInv, InitGo2RTC
             PROVE  SupInv'
  OBVIOUS
<1> USE DEF InitGo2RTC, Goto, globals
<1>1. <<"go", gen>> \in {"go", "mtx"} \X Gens /\ <<"mtx", gen>> # <<"go", gen>>
  BY DEF SupInv, TypeOK
<1>2. TypeOK'
  BY <1>1 DEF SupInv, TypeOK
<1>3. Booting' /\ NoFuture'
  BY DEF SupInv, Booting, NoFuture, NoStopper, Gens
<1>4. MtxHandled' /\ MtxLeftOnlyByDeath'
  BY DEF SupInv, MtxHandled, Mtx, MtxLeftOnlyByDeath, Gens
<1>5. PointersTested'
  BY DEF SupInv, PointersTested, OthersActive, Active
<1> QED
  BY <1>2, <1>3, <1>4, <1>5 DEF SupInv

\* MediaMTX is started when no stopper has begun.
LEMMA StartsMtx == SupInv /\ Alive /\ InitMediaMtx => SupInv'
<1> SUFFICES ASSUME SupInv, Alive, InitMediaMtx
             PROVE  SupInv'
  OBVIOUS
<1> USE DEF InitMediaMtx, Goto, globals
<1>1. at = NoStopper /\ at' \in [Stoppers -> {"off", "idle"}]
  BY DEF SupInv, Booting, NoStopper
<1>2. live' \subseteq live \union {Mtx} /\ Mtx \in {"go", "mtx"} \X Gens
  BY DEF Mtx, SupInv, TypeOK
<1>3. TypeOK'
  <2>1. live' \subseteq ({"go", "mtx"} \X Gens) /\ doomed' \subseteq live'
    BY <1>2 DEF SupInv, TypeOK
  <2>2. at' \in [Stoppers -> {"off", "idle", "cancel", "call", "test", "spawn", "wait", "kill",
                              "reset", "forget", "go", "exec", "done"}]
    BY <1>1
  <2> QED
    BY <2>1, <2>2 DEF SupInv, TypeOK
<1>4. NoFuture'
  BY <1>2 DEF SupInv, TypeOK, NoFuture, Gens, Mtx
<1>5. MtxLeftOnlyByDeath'
  BY <1>2 DEF SupInv, MtxLeftOnlyByDeath, Alive, Mtx
<1>6. MtxHandled'
  BY <1>1 DEF SupInv, MtxHandled, Mtx
<1>7. PointersTested'
  <2>1. Active = {}
    BY <1>1 DEF Active, NoStopper
  <2>2. ~panicked
    BY <2>1 DEF SupInv, PointersTested
  <2> QED
    BY <1>1, <2>2 DEF PointersTested
<1>8. Booting'
  BY DEF Booting
<1> QED
  BY <1>3, <1>4, <1>5, <1>6, <1>7, <1>8 DEF SupInv

-----------------------------------------------------------------------------
\* A statement of a stopper.  It may forget a pointer, or go on to a place where the
\* child is dealt with, only if it is; it has tested the pointer it will use next.  For
\* every other stopper there is another one, this one.
LEMMA StopperMoves ==
  ASSUME SupInv, NEW p \in Stoppers, NEW from, from \notin {"off"},
         main \notin {"start", "initGo", "initMtx"},
         NEW to \in {"cancel", "call", "test", "spawn", "wait", "kill",
                     "reset", "forget", "go", "exec", "done"},
         Move(p, from, to), UNCHANGED <<process, live>>,
         doomed \subseteq doomed', doomed' \subseteq live, cancelled' \subseteq {"go", "mtx"},
         mtxCmd' \in BOOLEAN, mtxCancel' \in BOOLEAN,
         ~mtxCmd' => Mtx \notin live \ doomed',
         to \in {"reset", "forget", "go", "exec", "done"} => Mtx \notin live \ doomed',
         to = "call" => mtxCancel' \/ OthersActive(p),
         to \in {"spawn", "wait", "kill"} => mtxCmd' \/ OthersActive(p)
  PROVE  SupInv'
<1> USE DEF Move, process
<1>1. TypeOK'
  BY DEF SupInv, TypeOK
<1>2. Booting' /\ NoFuture'
  BY DEF SupInv, Booting, NoFuture, Gens
<1>3. MtxHandled'
  BY DEF SupInv, TypeOK, MtxHandled, Mtx
<1>4. MtxLeftOnlyByDeath'
  BY DEF SupInv, MtxLeftOnlyByDeath
<1>5. p \in Active' /\ Active \subseteq Active'
  BY DEF SupInv, TypeOK, Active
<1>6. \A q \in Stoppers : q # p => OthersActive(q)'
  BY <1>5 DEF OthersActive
<1>7. \A q \in Stoppers : OthersActive(q) => OthersActive(q)'
  BY <1>5 DEF OthersActive
<1>8. PointersTested'
  <2>1. at'[p] = to /\ \A q \in Stoppers : q # p => at'[q] = at[q]
    BY DEF SupInv, TypeOK
  <2>2. panicked' => \E q \in Active' : OthersActive(q)'
    BY <1>5, <1>7 DEF SupInv, PointersTested, Active
  <2>3. \A q \in Stoppers : at'[q] = "call" => mtxCancel' \/ OthersActive(q)'
    BY <2>1, <1>6, <1>7
  <2>4. \A q \in Stoppers :
          at'[q] \in {"spawn", "wait", "kill"} => mtxCmd' \/ OthersActive(q)'
    BY <2>1, <1>6, <1>7
  <2> QED
    BY <2>2, <2>3, <2>4 DEF PointersTested
<1> QED
  BY <1>1, <1>2, <1>3, <1>4, <1>8 DEF SupInv

\* Nobody stops anything before main has started both media servers.
LEMMA StoppedLater ==
  ASSUME SupInv, NEW p \in Stoppers, at[p] # "off", at[p] # "idle" \/ main = "serve"
  PROVE  main \notin {"start", "initGo", "initMtx"}
BY DEF SupInv, Booting, NoStopper

\* StopMediaMtx, statement by statement.
LEMMA StopPreserves ==
  ASSUME SupInv, Alive, NEW p \in Stoppers, StopMediaMtx(p)
  PROVE  SupInv'
<1> USE DEF children, globals
<1>0. mtxCmd \in BOOLEAN /\ mtxCancel \in BOOLEAN /\ cancelled \subseteq {"go", "mtx"}
      /\ doomed \subseteq live
  BY DEF SupInv, TypeOK
<1>1. CASE StopCancel(p)
  <2>1. at[p] = "cancel" /\ main \notin {"start", "initGo", "initMtx"}
    BY <1>1, StoppedLater DEF StopCancel, Move
  <2>2. ~mtxCmd => Mtx \notin live \ doomed
    BY DEF SupInv, MtxHandled
  <2>3. CASE mtxCancel
    BY <1>0, <1>1, <2>1, <2>2, <2>3, StopperMoves DEF StopCancel
  <2>4. CASE ~mtxCancel
    BY <1>0, <1>1, <2>1, <2>2, <2>4, StopperMoves DEF StopCancel
  <2> QED
    BY <2>3, <2>4
<1>2. CASE StopCall(p)
  <2>1. CASE mtxCancel /\ Move(p, "call", "test")
    <3>1. at[p] = "call" /\ main \notin {"start", "initGo", "initMtx"}
      BY <2>1, StoppedLater DEF Move
    <3>2. UNCHANGED <<process, live, doomed, globals>> /\ cancelled' \subseteq {"go", "mtx"}
      BY <1>0, <1>2, <2>1 DEF StopCall, Panic, Die, Move
    <3>3. ~mtxCmd => Mtx \notin live \ doomed
      BY DEF SupInv, MtxHandled
    <3> QED
      BY <1>0, <2>1, <3>1, <3>2, <3>3, StopperMoves
  <2>2. CASE at[p] = "call" /\ ~mtxCancel /\ Panic
    <3>1. p \in Active /\ OthersActive(p)
      BY <2>2 DEF SupInv, PointersTested, Active
    <3> QED
      BY <2>2, <3>1, Ends DEF Panic
  <2> QED
    BY <1>2, <2>1, <2>2 DEF StopCall
<1>3. CASE StopTest(p)
  <2>1. at[p] = "test" /\ main \notin {"start", "initGo", "initMtx"}
    BY <1>3, StoppedLater DEF StopTest, Move
  <2>2. ~mtxCmd => Mtx \notin live \ doomed
    BY DEF SupInv, MtxHandled
  <2>3. CASE mtxCmd
    BY <1>0, <1>3, <2>1, <2>3, StopperMoves DEF StopTest
  <2>4. CASE ~mtxCmd
    BY <1>0, <1>3, <2>1, <2>2, <2>4, StopperMoves DEF StopTest, Stopped
  <2> QED
    BY <2>3, <2>4
<1>4. CASE StopSpawn(p)
  <2>1. CASE mtxCmd /\ Move(p, "spawn", "wait")
    <3>1. at[p] = "spawn" /\ main \notin {"start", "initGo", "initMtx"}
      BY <2>1, StoppedLater DEF Move
    <3>2. UNCHANGED <<process, children, globals>>
      BY <1>4, <2>1 DEF StopSpawn, Panic, Die, Move
    <3> QED
      BY <1>0, <2>1, <3>1, <3>2, StopperMoves
  <2>2. CASE at[p] = "spawn" /\ ~mtxCmd /\ Panic
    <3>1. p \in Active /\ OthersActive(p)
      BY <2>2 DEF SupInv, PointersTested, Active
    <3> QED
      BY <2>2, <3>1, Ends DEF Panic
  <2> QED
    BY <1>4, <2>1, <2>2 DEF StopSpawn
<1>5. CASE StopExited(p)
  <2>1. at[p] = "wait" /\ main \notin {"start", "initGo", "initMtx"}
    BY <1>5, StoppedLater DEF StopExited, Move
  <2>2. Mtx \notin live
    BY <1>5 DEF StopExited, Mtx
  <2> QED
    BY <1>0, <1>5, <2>1, <2>2, StopperMoves DEF StopExited
<1>6. CASE StopTimeout(p)
  <2>1. at[p] = "wait" /\ main \notin {"start", "initGo", "initMtx"}
    BY <1>6, StoppedLater DEF StopTimeout, Move
  <2>2. mtxCmd \/ OthersActive(p)
    BY <2>1 DEF SupInv, PointersTested
  <2>3. ~mtxCmd => Mtx \notin live \ doomed
    BY DEF SupInv, MtxHandled
  <2> QED
    BY <1>0, <1>6, <2>1, <2>2, <2>3, StopperMoves DEF StopTimeout
<1>7. CASE StopKill(p)
  <2>1. CASE mtxCmd /\ Move(p, "kill", "reset")
    <3>1. at[p] = "kill" /\ main \notin {"start", "initGo", "initMtx"}
      BY <2>1, StoppedLater DEF Move
    <3>2. /\ doomed' = doomed \union ({Mtx} \intersect live)
          /\ UNCHANGED <<process, live, cancelled, globals>>
      BY <1>7, <2>1 DEF StopKill, Panic, Die, Move, Mtx
    <3>3. Mtx \notin live \ doomed' /\ doomed \subseteq doomed' /\ doomed' \subseteq live
      BY <1>0, <3>2
    <3> QED
      BY <1>0, <2>1, <3>1, <3>2, <3>3, StopperMoves
  <2>2. CASE at[p] = "kill" /\ ~mtxCmd /\ Panic
    <3>1. p \in Active /\ OthersActive(p)
      BY <2>2 DEF SupInv, PointersTested, Active
    <3> QED
      BY <2>2, <3>1, Ends DEF Panic
  <2> QED
    BY <1>7, <2>1, <2>2 DEF StopKill
<1>8. CASE StopReset(p)
  <2>1. at[p] \in {"reset", "forget"} /\ main \notin {"start", "initGo", "initMtx"}
    BY <1>8, StoppedLater DEF StopReset, Move
  <2>2. Mtx \notin live \ doomed
    BY <2>1 DEF SupInv, MtxHandled
  <2>3. CASE Move(p, "reset", "forget") /\ mtxCmd' = FALSE /\ UNCHANGED <<process, children, mtxCancel>>
    BY <1>0, <2>1, <2>2, <2>3, StopperMoves
  <2>4. CASE Move(p, "forget", Stopped(p)) /\ mtxCancel' = FALSE /\ UNCHANGED <<process, children, mtxCmd>>
    BY <1>0, <2>1, <2>2, <2>4, StopperMoves DEF Stopped
  <2> QED
    BY <1>8, <2>3, <2>4 DEF StopReset
<1> QED
  BY <1>1, <1>2, <1>3, <1>4, <1>5, <1>6, <1>7, <1>8 DEF StopMediaMtx

\* The rest of RestartHandler.
LEMMA RestartPreserves ==
  ASSUME SupInv, Alive, NEW r \in Restarts,
         Request(r) \/ RestartGo(r) \/ Exec(r) \/ ExecFails(r)
  PROVE  SupInv'
<1> USE DEF children, globals
<1>0. mtxCmd \in BOOLEAN /\ mtxCancel \in BOOLEAN /\ cancelled \subseteq {"go", "mtx"}
      /\ doomed \subseteq live /\ r \in Stoppers
  BY DEF SupInv, TypeOK, Stoppers
<1>1. ~mtxCmd => Mtx \notin live \ doomed
  BY DEF SupInv, MtxHandled
<1>2. at[r] \in {"go", "exec"} => Mtx \notin live \ doomed
  BY <1>0 DEF SupInv, MtxHandled
<1>3. CASE Request(r)
  <2>1. at[r] = "idle" /\ main \notin {"start", "initGo", "initMtx"}
    BY <1>3 DEF Request, Move
  <2> QED
    BY <1>0, <1>1, <1>3, <2>1, StopperMoves DEF Request
<1>4. CASE RestartGo(r)
  <2>1. at[r] = "go" /\ main \notin {"start", "initGo", "initMtx"}
    BY <1>0, <1>4, StoppedLater DEF RestartGo, Move
  <2> QED
    BY <1>0, <1>1, <1>2, <1>4, <2>1, StopperMoves DEF RestartGo, StopGo2RTC
<1>5. CASE Exec(r)
  <2>1. end'[gen] = "replaced" /\ end' \in [Gens -> {"runs", "replaced", "died"}]
        /\ \A g \in Gens : g # gen => end'[g] = end[g]
    BY <1>5 DEF Exec, Replace, SupInv, TypeOK
  <2> QED
    BY <1>2, <1>5, <2>1, Begins DEF Exec, Replace
<1>6. CASE ExecFails(r)
  <2>1. at[r] = "exec" /\ main \notin {"start", "initGo", "initMtx"}
    BY <1>0, <1>6, StoppedLater DEF ExecFails, Move
  <2> QED
    BY <1>0, <1>1, <1>2, <1>6, <2>1, StopperMoves DEF ExecFails
<1> QED
  BY <1>3, <1>4, <1>5, <1>6

\* A signal is put into channels, or ends the process.
LEMMA SignalPreserves ==
  ASSUME SupInv, Alive, NEW s \in {"SIGINT", "SIGTERM"}, Signal(s)
  PROVE  SupInv'
<1> USE DEF Signal, children, globals
<1>1. end' \in [Gens -> {"runs", "replaced", "died"}] /\ got' \subseteq {"sigGo", "sigMtx", "quit"}
      /\ \A g \in Gens : end'[g] = "replaced" => end[g] = "replaced"
  BY DEF SupInv, TypeOK, Receivers
<1>2. signals' \in 0 .. MaxSignals
  BY SupervisionAssumption DEF SupInv, TypeOK, SupervisionAssumption
<1>3. TypeOK'
  BY <1>1, <1>2 DEF SupInv, TypeOK
<1>4. Booting' /\ NoFuture'
  BY DEF SupInv, Booting, NoFuture, NoStopper, Gens
<1>5. MtxHandled' /\ MtxLeftOnlyByDeath'
  BY <1>1 DEF SupInv, MtxHandled, Mtx, MtxLeftOnlyByDeath, Gens
<1>6. PointersTested'
  BY DEF SupInv, PointersTested, OthersActive, Active
<1> QED
  BY <1>3, <1>4, <1>5, <1>6 DEF SupInv

LEMMA HandlerPreserves ==
  ASSUME SupInv, Alive, HandlerMtx
  PROVE  SupInv'
<1> USE DEF children, globals
<1>0. Handler \in Stoppers
  BY DEF Stoppers
<1>1. CASE Move(Handler, "idle", "cancel") /\ UNCHANGED <<process, children, globals>>
  <2>1. main \notin {"start", "initGo", "initMtx"}
    <3>1. at[Handler] = "idle"
      BY <1>1 DEF Move
    <3> QED
      BY <1>0, <3>1 DEF SupInv, Booting, NoStopper
  <2>2. ~mtxCmd => Mtx \notin live \ doomed
    BY DEF SupInv, MtxHandled
  <2>3. mtxCmd \in BOOLEAN /\ mtxCancel \in BOOLEAN /\ cancelled \subseteq {"go", "mtx"}
        /\ doomed \subseteq live
    BY DEF SupInv, TypeOK
  <2> QED
    BY <1>0, <1>1, <2>1, <2>2, <2>3, StopperMoves
<1>2. CASE StopMediaMtx(Handler)
  BY <1>0, <1>2, StopPreserves
<1> QED
  BY <1>1, <1>2 DEF HandlerMtx

LEMMA SupStep == SupInv /\ [Next]_vars => SupInv'
<1> SUFFICES ASSUME SupInv, [Next]_vars
             PROVE  SupInv'
  OBVIOUS
<1>0. cancelled \subseteq {"go", "mtx"} /\ doomed \subseteq live
  BY DEF SupInv, TypeOK
<1>1. CASE Main
  <2>1. CASE InitBase \/ InitModels \/ Quit
    BY <2>1, MainMoves DEF InitBase, InitModels, Quit
  <2>2. CASE Exit
    BY <1>1, <2>2, Ends DEF Main, Exit, SupInv, TypeOK
  <2> QED
    BY <1>1, <2>1, <2>2, StartsGo, StartsMtx DEF Main
<1>2. CASE Alive /\ InitFails
  BY <1>2, Ends DEF InitFails, SupInv, TypeOK
<1>3. CASE Relaunch
  BY <1>3, Begins DEF Relaunch, SupInv, TypeOK
<1>4. ASSUME NEW r \in Restarts, Alive, Request(r) \/ Restart(r) \/ ExecFails(r)
      PROVE  SupInv'
  <2>1. r \in Stoppers
    BY DEF Stoppers
  <2> QED
    BY <1>4, <2>1, StopPreserves, RestartPreserves DEF Restart
<1>5. ASSUME NEW s \in {"SIGINT", "SIGTERM"}, Alive, Signal(s)
      PROVE  SupInv'
  BY <1>5, SignalPreserves
<1>6. CASE Alive /\ (HandlerGo \/ HandlerMtx)
  <2>1. CASE HandlerGo
    BY <1>0, <2>1, ChildrenOnly DEF HandlerGo, StopGo2RTC
  <2> QED
    BY <1>6, <2>1, HandlerPreserves
<1>7. ASSUME NEW k \in {"go", "mtx"}, Alive, Reap(k)
      PROVE  SupInv'
  BY <1>0, <1>7, ChildrenOnly DEF Reap
<1>8. ASSUME NEW c \in live, ChildExits(c)
      PROVE  SupInv'
  BY <1>0, <1>8, ChildrenOnly DEF ChildExits
<1>9. CASE UNCHANGED vars
  BY <1>0, <1>9, ChildrenOnly DEF vars, children
<1> QED
  BY <1>1, <1>2, <1>3, <1>4, <1>5, <1>6, <1>7, <1>8, <1>9 DEF Next

\* Two stoppers that are not the same make a set of at least two.
LEMMA TwoStoppers ==
  ASSUME NEW p \in Active, OthersActive(p)
  PROVE  Cardinality(Active) >= 2
<1>1. PICK q \in Active : q # p
  BY DEF OthersActive
<1>2. IsFiniteSet(Stoppers)
  BY FS_AddElement, SupervisionAssumption DEF SupervisionAssumption, Stoppers
<1>3. IsFiniteSet(Active)
  BY <1>2, FS_Subset DEF Active
<1>4. Cardinality({p}) = 1 /\ IsFiniteSet({p})
  BY FS_Singleton
<1>5. Cardinality({p} \union {q}) = 2
  BY <1>1, <1>4, FS_AddElement
<1>6. Cardinality({p} \union {q}) <= Cardinality(Active) /\ Cardinality(Active) \in Nat
  BY <1>3, FS_Subset, FS_CardinalityType
<1> QED
  BY <1>5, <1>6

LEMMA SupInvSafe == SupInv => StopsAreSafe
<1>1. SupInv => PanicNeedsTwoStops
  BY TwoStoppers DEF SupInv, PointersTested, PanicNeedsTwoStops, Active
<1> QED
  BY <1>1 DEF SupInv, StopsAreSafe

\* A process that replaces itself leaves no MediaMTX at work, in whatever order requests,
\* signals, timeouts and deaths come, and only two stoppers at once use a nil pointer
\* (mediamtx.go, StopMediaMtx; deviceLogic.go, RestartHandler).
THEOREM StopsAlwaysSafe == Spec => []StopsAreSafe
<1>1. Spec => []SupInv
  BY SupInit, SupStep, PTL DEF Spec
<1> QED
  BY <1>1, SupInvSafe, PTL

(***************************************************************************)
(* The configuration.                                                      *)
(***************************************************************************)
\* A start decodes the whole file: its keys have the file's values in Conf.
Agrees ==
  /\ C!Wrong(C!Content(file)) = {} /\ sections = C!Sections(C!Content(file))
  /\ \A k \in DOMAIN C!Content(file) : conf[k] = file[k]

\* Later only those that decode, and some have the value of their environment variable.
AgreesOrEnv ==
  \A k \in DOMAIN C!Content(file) : C!Decodes(C!Content(file), k) =>
    conf[k] \in {file[k]} \union (IF k \in DOMAIN Env THEN {Env[k]} ELSE {})

\* Without a flaw one request saves at a time, and the others find the file it has
\* truncated; no save outlives its process.
OneSave ==
  /\ ~flawed => \A r, s \in C!Saving : r = s
  /\ ~flawed /\ C!Saving # {} => file = Empty
  /\ ~C!Serving => C!Saving = {}

\* A start reads the file that nobody writes meanwhile, before its watcher exists.
Starting ==
  /\ starting \in {"read", "decode", "watch"} => watch = "off"
  /\ watch = "off" => starting \in {"read", "decode", "watch", "dead"}
  /\ starting \in {"env", "start"} => watch = "idle"
  /\ starting # "serve" => ~dirty
  /\ starting \in {"decode", "watch", "env", "start"} => C!Parses(file)
  /\ starting = "decode" => loaded = C!Content(file)
  /\ starting \in {"watch", "env"} => Agrees
  /\ starting = "start" =>
       /\ C!Wrong(C!Content(file)) = {} /\ sections = C!Sections(C!Content(file))
       /\ C!EnvSections \subseteq sections /\ AgreesOrEnv

\* Without an event that waits, a reload works on the file that is there.
Converging ==
  C!Serving /\ ~dirty /\ C!Parses(file) =>
    /\ watch = "idle" => AgreesOrEnv
    /\ watch = "decode" => /\ loaded = C!Content(file)
                          /\ \A k \in DOMAIN loaded \ left :
                               C!Decodes(loaded, k) => conf[k] = loaded[k]

ConfInv ==
  /\ C!TypeOK /\ C!FileIsLastSave /\ C!StartFailsAfterFlaw
  /\ OneSave /\ Starting /\ Converging

LEMMA BodiesHaveKeys ==
  /\ \A b \in C!Bodies : b \notin {Empty, Broken} => DOMAIN b \subseteq Keys
  /\ First \in C!Bodies /\ First \notin {Empty, Broken}
  /\ DOMAIN First = Keys /\ DOMAIN Env \subseteq Keys /\ Empty # Broken
BY ServerAssumption DEF C!ConfigAssumption, C!Bodies

LEMMA NoKeysEmpty == DOMAIN C!NoKeys = {}
BY DEF C!NoKeys

LEMMA OverlayKeys ==
  ASSUME NEW f, NEW g
  PROVE  /\ DOMAIN C!Overlay(f, g) = DOMAIN f \union DOMAIN g
         /\ \A k \in DOMAIN f : C!Overlay(f, g)[k] = f[k]
         /\ \A k \in DOMAIN g \ DOMAIN f : C!Overlay(f, g)[k] = g[k]
BY DEF C!Overlay

LEMMA ConfInit == C!Init => ConfInv
<1> SUFFICES ASSUME C!Init
             PROVE  ConfInv
  OBVIOUS
<1> USE DEF C!Init
<1>1. C!TypeOK
  <2>1. First \in C!Bodies
    BY BodiesHaveKeys
  <2>2. DOMAIN C!Content(file) \subseteq Keys
    BY BodiesHaveKeys, <2>1 DEF C!Content
  <2> QED
    BY <2>1, <2>2, NoKeysEmpty DEF C!TypeOK
<1>2. C!Saving = {}
  BY DEF C!Saving
<1> QED
  BY <1>1, <1>2 DEF ConfInv, C!FileIsLastSave, C!StartFailsAfterFlaw, OneSave, Starting,
     Converging, C!Serving

-----------------------------------------------------------------------------
\* A save.
LEMMA TruncatePreserves ==
  ASSUME ConfInv, NEW r \in Requests, C!Truncate(r)
  PROVE  ConfInv'
<1> USE DEF C!Truncate, C!Change, C!memory
<1>1. C!Saving' = C!Saving \union {r} /\ watch # "off"
  BY DEF ConfInv, C!TypeOK, C!Saving, Starting, C!Serving
<1>2. C!TypeOK'
  BY NoKeysEmpty DEF ConfInv, C!TypeOK, C!Content
<1>3. C!FileIsLastSave' /\ OneSave'
  BY <1>1 DEF ConfInv, C!FileIsLastSave, OneSave, C!Serving
<1>4. C!StartFailsAfterFlaw' /\ Starting' /\ Converging'
  BY <1>1 DEF ConfInv, C!StartFailsAfterFlaw, Starting, Converging, C!Serving
<1> QED
  BY <1>2, <1>3, <1>4 DEF ConfInv

LEMMA WritePreserves ==
  ASSUME ConfInv, NEW r \in Requests, C!Write(r)
  PROVE  ConfInv'
<1> USE DEF C!Change, C!memory
<1>1. watch # "off" /\ r \in C!Saving /\ C!Serving
  BY DEF ConfInv, C!Saving, Starting, C!Serving, C!Write
<1>2. BodyOf[r] \in C!Bodies
  BY DEF C!Bodies
<1>3. C!Serving' /\ dirty' = TRUE /\ UNCHANGED <<watch, starting, loaded, left, conf, sections>>
  BY <1>1 DEF C!Write, C!Serving
<1>4. C!Saving' = C!Saving \ {r}
  BY DEF ConfInv, C!TypeOK, C!Write, C!Saving
<1>5. C!StartFailsAfterFlaw' /\ Starting' /\ Converging'
  BY <1>1, <1>3 DEF ConfInv, C!StartFailsAfterFlaw, Starting, Converging, C!Serving
<1>6. CASE file' \in C!Over(BodyOf[r], file) /\ body' = BodyOf[r] /\ UNCHANGED flawed
           /\ saving' = [saving EXCEPT ![r] = "saved"]
  <2>1. C!Parses(file') => DOMAIN C!Content(file') \subseteq Keys
    <3>1. CASE file' = Broken
      BY <3>1 DEF C!Parses
    <3>2. CASE file' = BodyOf[r]
      BY <1>2, <3>2, BodiesHaveKeys, NoKeysEmpty DEF C!Content, C!Parses
    <3>3. CASE file' = C!Overlay(C!Content(BodyOf[r]), file) /\ file # Empty
               /\ file # Broken /\ BodyOf[r] # Broken
      <4>1. DOMAIN file \subseteq Keys
        BY <3>3 DEF ConfInv, C!TypeOK, C!Parses, C!Content
      <4>2. DOMAIN file' = DOMAIN C!Content(BodyOf[r]) \union DOMAIN file
        BY <3>3, OverlayKeys
      <4>3. DOMAIN C!Content(BodyOf[r]) \subseteq Keys
        BY <1>2, <3>3, BodiesHaveKeys, NoKeysEmpty DEF C!Content
      <4>4. DOMAIN file' \subseteq Keys
        BY <4>1, <4>2, <4>3
      <4> QED
        BY <4>4, NoKeysEmpty DEF C!Content
    <3> QED
      BY <1>6, <3>1, <3>2, <3>3 DEF C!Over, C!Parses
  <2>2. C!TypeOK'
    BY <1>2, <1>3, <1>6, <2>1 DEF ConfInv, C!TypeOK
  <2>3. ~flawed => C!Saving' = {} /\ file' = body'
    BY <1>1, <1>4, <1>6 DEF ConfInv, OneSave, C!Over
  <2>4. C!FileIsLastSave' /\ OneSave'
    BY <1>1, <1>3, <1>4, <1>6, <2>3 DEF C!FileIsLastSave, OneSave
  <2> QED
    BY <1>5, <2>2, <2>4 DEF ConfInv
<1>7. CASE file' \in {file, Broken} /\ flawed' = TRUE /\ UNCHANGED body
           /\ saving' = [saving EXCEPT ![r] = "failed"]
  <2>1. C!TypeOK'
    BY <1>3, <1>7 DEF ConfInv, C!TypeOK, C!Parses
  <2>2. C!FileIsLastSave' /\ OneSave'
    BY <1>3, <1>7 DEF C!FileIsLastSave, OneSave
  <2> QED
    BY <1>5, <2>1, <2>2 DEF ConfInv
<1> QED
  BY <1>6, <1>7 DEF C!Write

-----------------------------------------------------------------------------
\* A start.
LEMMA StartPreserves ==
  ASSUME ConfInv, C!InitConfig
  PROVE  ConfInv'
<1> USE DEF C!requests, C!watcher, C!memory
<1>1. ~C!Serving /\ C!Saving = {} /\ UNCHANGED <<file, saving, body, flawed>>
  BY DEF C!InitConfig, C!ReadInConfig, C!Decode, C!WatchConfig, C!LoadEnv, C!Start, C!Serving,
     ConfInv, OneSave
<1>2. C!Saving' = {} /\ C!FileIsLastSave' /\ OneSave'
  BY <1>1 DEF C!Saving, ConfInv, C!FileIsLastSave, OneSave
<1>3. ~flawed => file = body
  BY <1>1 DEF ConfInv, C!FileIsLastSave
<1>4. CASE C!ReadInConfig
  <2> USE DEF C!ReadInConfig
  <2>1. C!TypeOK'
    BY <1>4 DEF ConfInv, C!TypeOK
  <2>2. C!StartFailsAfterFlaw'
    BY <1>3, <1>4 DEF ConfInv, C!StartFailsAfterFlaw, C!Usable, C!Parses
  <2>3. Starting' /\ Converging'
    BY <1>4 DEF ConfInv, Starting, Converging, C!Serving, C!Parses, C!Content
  <2> QED
    BY <1>2, <2>1, <2>2, <2>3 DEF ConfInv
<1>5. CASE C!Decode
  <2> USE DEF C!Decode
  <2>1. loaded = C!Content(file) /\ DOMAIN loaded \subseteq Keys /\ C!Parses(file)
    BY <1>5 DEF ConfInv, C!TypeOK, Starting
  <2>2. CASE C!Wrong(loaded) = {}
    <3>1. DOMAIN conf' = Keys /\ \A k \in DOMAIN loaded : conf'[k] = loaded[k]
      <4>1. conf' = C!Overlay(loaded, conf) /\ DOMAIN conf = Keys
        BY <1>5, <2>2 DEF ConfInv, C!TypeOK
      <4>2. DOMAIN conf' = DOMAIN loaded \union DOMAIN conf
        BY <4>1, OverlayKeys
      <4>3. \A k \in DOMAIN loaded : conf'[k] = loaded[k]
        BY <4>1, OverlayKeys
      <4> QED
        BY <2>1, <4>1, <4>2, <4>3
    <3>2. sections' = C!Sections(loaded) /\ sections' \subseteq {SectionOf[k] : k \in Keys}
      BY <1>5, <2>1, <2>2 DEF C!Sections
    <3>3. C!TypeOK'
      BY <1>5, <2>2, <3>1, <3>2 DEF ConfInv, C!TypeOK
    <3>4. C!StartFailsAfterFlaw'
      BY <1>5, <2>2 DEF C!StartFailsAfterFlaw
    <3>5. C!Wrong(C!Content(file)) = {} /\ sections' = C!Sections(C!Content(file))
      BY <2>1, <2>2, <3>2
    <3>6. \A k \in DOMAIN C!Content(file) : conf'[k] = file[k]
      BY <2>1, <3>1, NoKeysEmpty DEF C!Content
    <3>7. Agrees'
      BY <1>1, <3>5, <3>6 DEF Agrees, C!Wrong, C!Sections, C!Content
    <3>8. Starting' /\ Converging'
      BY <1>1, <1>5, <2>1, <2>2, <3>7 DEF ConfInv, Starting, Converging, C!Serving, C!Parses
    <3> QED
      BY <1>2, <3>3, <3>4, <3>8 DEF ConfInv
  <2>3. CASE C!Wrong(loaded) # {}
    <3>1. C!TypeOK'
      BY <1>5, <2>3 DEF ConfInv, C!TypeOK
    <3>2. C!StartFailsAfterFlaw'
      BY <1>1, <1>3, <2>1, <2>3 DEF C!StartFailsAfterFlaw, C!Usable
    <3>3. Starting' /\ Converging'
      BY <1>1, <1>5, <2>3 DEF ConfInv, Starting, Converging, C!Serving
    <3> QED
      BY <1>2, <3>1, <3>2, <3>3 DEF ConfInv
  <2> QED
    BY <2>2, <2>3
<1>6. CASE C!WatchConfig
  <2> USE DEF C!WatchConfig
  <2>1. C!TypeOK' /\ C!StartFailsAfterFlaw'
    BY <1>6 DEF ConfInv, C!TypeOK, C!StartFailsAfterFlaw
  <2>2. Agrees'
    BY <1>6 DEF ConfInv, Starting, Agrees, C!Content, C!Wrong, C!Sections
  <2>3. Starting' /\ Converging'
    BY <1>6, <2>2 DEF ConfInv, Starting, Converging, C!Serving, C!Parses
  <2> QED
    BY <1>2, <2>1, <2>3 DEF ConfInv
<1>7. CASE C!LoadEnv
  <2> USE DEF C!LoadEnv
  <2>1. Agrees /\ watch = "idle" /\ DOMAIN conf = Keys /\ C!Parses(file)
    BY <1>7 DEF ConfInv, Starting, C!TypeOK
  <2>2. CASE C!EnvSections \subseteq sections
    <3>1. /\ DOMAIN conf' = Keys
          /\ \A k \in DOMAIN Env : conf'[k] = Env[k]
          /\ \A k \in Keys \ DOMAIN Env : conf'[k] = conf[k]
      <4>1. conf' = C!Overlay(Env, conf)
        BY <1>7, <2>2
      <4>2. DOMAIN conf' = DOMAIN Env \union DOMAIN conf
        BY <4>1, OverlayKeys
      <4>3. /\ \A k \in DOMAIN Env : conf'[k] = Env[k]
            /\ \A k \in DOMAIN conf \ DOMAIN Env : conf'[k] = conf[k]
        BY <4>1 DEF C!Overlay
      <4> QED
        BY <2>1, <4>2, <4>3, BodiesHaveKeys
    <3>2. DOMAIN C!Content(file) \subseteq Keys
      BY <2>1 DEF ConfInv, C!TypeOK
    <3>3. AgreesOrEnv'
      BY <1>1, <2>1, <3>1, <3>2 DEF Agrees, AgreesOrEnv, C!Content
    <3>4. C!TypeOK' /\ C!StartFailsAfterFlaw'
      BY <1>7, <2>2, <3>1 DEF ConfInv, C!TypeOK, C!StartFailsAfterFlaw
    <3>5. /\ C!Wrong(C!Content(file))' = {} /\ sections' = C!Sections(C!Content(file))'
          /\ C!EnvSections' \subseteq sections'
      BY <1>7, <2>1, <2>2 DEF Agrees, C!Wrong, C!Sections, C!Content, C!EnvSections
    <3>6. Starting' /\ Converging'
      BY <1>7, <2>1, <2>2, <3>3, <3>5 DEF ConfInv, Starting, Converging, C!Serving, C!Parses
    <3> QED
      BY <1>2, <3>4, <3>6 DEF ConfInv
  <2>3. CASE ~(C!EnvSections \subseteq sections)
    <3>1. ~C!Usable(file)
      BY <2>1, <2>3 DEF Agrees, C!Usable
    <3>2. C!TypeOK' /\ C!StartFailsAfterFlaw'
      BY <1>3, <1>7, <2>3, <3>1 DEF ConfInv, C!TypeOK, C!StartFailsAfterFlaw, C!Usable, C!Parses,
         C!Content, C!Wrong, C!Sections, C!EnvSections
    <3>3. watch = "idle" /\ starting' = "dead" /\ UNCHANGED <<watch, dirty, file>>
      BY <1>7, <2>1, <2>3
    <3>4. Starting' /\ Converging'
      BY <1>7, <3>3 DEF ConfInv, Starting, Converging, C!Serving
    <3> QED
      BY <1>2, <3>2, <3>4 DEF ConfInv
  <2> QED
    BY <2>2, <2>3
<1>8. CASE C!Start
  <2> USE DEF C!Start
  <2>1. /\ AgreesOrEnv /\ watch = "idle" /\ C!Parses(file) /\ ~dirty
        /\ C!Wrong(C!Content(file)) = {} /\ sections = C!Sections(C!Content(file))
    BY <1>8 DEF ConfInv, Starting
  <2>2. AgreesOrEnv'
    BY <1>8, <2>1 DEF AgreesOrEnv, C!Content, C!Decodes, C!Wrong
  <2>3. C!TypeOK'
    BY <1>8 DEF ConfInv, C!TypeOK
  <2>4. CASE Required \subseteq sections
    <3>1. C!StartFailsAfterFlaw' /\ Starting'
      BY <1>8, <2>1, <2>4 DEF C!StartFailsAfterFlaw, Starting
    <3>2. Converging'
      BY <1>8, <2>1, <2>2 DEF Converging
    <3> QED
      BY <1>2, <2>3, <3>1, <3>2 DEF ConfInv
  <2>5. CASE ~(Required \subseteq sections)
    <3>1. ~C!Usable(file)
      BY <2>1, <2>5 DEF C!Usable
    <3>2. C!StartFailsAfterFlaw'
      BY <1>3, <1>8, <3>1 DEF C!StartFailsAfterFlaw, C!Usable, C!Parses,
         C!Content, C!Wrong, C!Sections, C!EnvSections
    <3>3. Starting' /\ Converging'
      BY <1>8, <2>1, <2>5 DEF Starting, Converging, C!Serving
    <3> QED
      BY <1>2, <2>3, <3>2, <3>3 DEF ConfInv
  <2> QED
    BY <2>4, <2>5
<1> QED
  BY <1>4, <1>5, <1>6, <1>7, <1>8 DEF C!InitConfig

\* RestartHandler, or a crash.
LEMMA RestartConfig ==
  ASSUME ConfInv, C!Restart
  PROVE  ConfInv'
<1> USE DEF C!Restart
<1>1. C!Saving' = {}
  BY DEF ConfInv, C!TypeOK, C!Saving
<1>2. C!TypeOK'
  <2>1. saving' \in [Requests -> {"new", "truncated", "saved", "failed", "cut"}]
    BY DEF ConfInv, C!TypeOK
  <2>2. DOMAIN loaded' = {} /\ left' = {} /\ DOMAIN conf' = Keys
    BY NoKeysEmpty
  <2>3. flawed' \in BOOLEAN
    BY DEF ConfInv, C!TypeOK
  <2> QED
    BY <2>1, <2>2, <2>3 DEF ConfInv, C!TypeOK, C!Parses, C!Content
<1>3. ~flawed' => ~flawed /\ C!Saving = {}
  OBVIOUS
<1>4. C!FileIsLastSave' /\ OneSave'
  BY <1>1, <1>3 DEF ConfInv, C!FileIsLastSave, OneSave
<1>5. C!StartFailsAfterFlaw' /\ Starting' /\ Converging'
  BY DEF C!StartFailsAfterFlaw, Starting, Converging, C!Serving
<1> QED
  BY <1>2, <1>4, <1>5 DEF ConfInv

-----------------------------------------------------------------------------
\* The hot reload.
LEMMA WatcherPreserves ==
  ASSUME ConfInv, starting # "dead", C!Watcher
  PROVE  ConfInv'
<1> USE DEF C!requests, C!memory
<1>1. UNCHANGED <<file, saving, body, flawed, starting>> /\ watch # "off"
  BY DEF C!Watcher, C!Event, C!Reload, C!Unmarshal
<1>2. C!Serving
  <2>1. watch = "idle" => dirty
    BY DEF C!Watcher, C!Event, C!Reload, C!Unmarshal
  <2> QED
    BY <1>1, <2>1 DEF ConfInv, C!TypeOK, Starting, C!Serving
<1>3. C!FileIsLastSave' /\ OneSave' /\ C!StartFailsAfterFlaw'
  BY <1>1 DEF ConfInv, C!FileIsLastSave, OneSave, C!StartFailsAfterFlaw, C!Saving, C!Serving
<1>4. C!Serving' /\ (C!Parses(file) <=> C!Parses(file)') /\ C!Content(file)' = C!Content(file)
  BY <1>1, <1>2 DEF C!Serving, C!Parses, C!Content
<1>5. watch' # "off"
  BY <1>1 DEF C!Watcher, C!Event, C!Reload, C!Unmarshal
<1>6. Starting'
  BY <1>1, <1>2, <1>5 DEF ConfInv, Starting, C!Serving
<1>7. CASE C!Event
  <2> USE DEF C!Event
  <2>1. C!TypeOK'
    BY <1>7 DEF ConfInv, C!TypeOK
  <2>2. Converging'
    BY <1>7 DEF Converging
  <2> QED
    BY <1>3, <1>6, <2>1, <2>2 DEF ConfInv
<1>8. CASE C!Reload
  <2> USE DEF C!Reload
  <2>1. DOMAIN loaded' \subseteq Keys
    BY <1>8 DEF ConfInv, C!TypeOK
  <2>2. C!TypeOK'
    BY <1>8, <2>1 DEF ConfInv, C!TypeOK
  <2>3. Converging'
    BY <1>4, <1>8 DEF Converging
  <2> QED
    BY <1>3, <1>6, <2>2, <2>3 DEF ConfInv
<1>9. CASE C!Unmarshal
  <2> USE DEF C!Unmarshal
  <2>1. DOMAIN loaded \subseteq Keys /\ left \subseteq DOMAIN loaded /\ DOMAIN conf = Keys
    BY DEF ConfInv, C!TypeOK
  <2>2. CASE left = {} /\ watch' = "idle" /\ UNCHANGED <<left, C!memory>>
    <3>1. C!TypeOK'
      BY <1>9, <2>2 DEF ConfInv, C!TypeOK
    <3>2. ~dirty /\ C!Parses(file) => AgreesOrEnv'
      <4>1. ~dirty /\ C!Parses(file) =>
              /\ loaded = C!Content(file)
              /\ \A k \in DOMAIN loaded : C!Decodes(loaded, k) => conf[k] = loaded[k]
        BY <1>2, <1>9, <2>2 DEF ConfInv, Converging
      <4>2. UNCHANGED <<file, conf, sections>>
        BY <1>1, <2>2 DEF C!memory
      <4> QED
        BY <4>1, <4>2, NoKeysEmpty DEF AgreesOrEnv, C!Content, C!Decodes, C!Wrong
    <3>3. Converging'
      BY <1>4, <1>9, <2>2, <3>2 DEF Converging
    <3> QED
      BY <1>3, <1>6, <3>1, <3>3 DEF ConfInv
  <2>3. ASSUME NEW k \in left, C!DecodeField(k), UNCHANGED watch
        PROVE  ConfInv'
    <3>1. UNCHANGED <<file, loaded, dirty, watch, starting>> /\ left' = left \ {k}
      BY <1>1, <1>9, <2>3 DEF C!Unmarshal, C!DecodeField
    <3>2. CASE C!Decodes(loaded, k)
      <4>1. /\ DOMAIN conf' = Keys /\ conf'[k] = loaded[k]
            /\ \A j \in Keys \ {k} : conf'[j] = conf[j]
            /\ sections' = sections \union {SectionOf[k]}
        BY <2>1, <2>3, <3>2 DEF C!DecodeField
      <4>2. C!TypeOK'
        BY <1>9, <2>1, <2>3, <3>1, <4>1 DEF ConfInv, C!TypeOK
      <4>3. \A j \in DOMAIN loaded : C!Decodes(loaded, j)' => C!Decodes(loaded, j)
        BY <3>1, <3>2, <4>1 DEF C!Decodes, C!Wrong
      <4>4. ASSUME ~dirty, C!Parses(file), watch = "decode"
            PROVE  /\ loaded = C!Content(file)
                   /\ \A j \in DOMAIN loaded \ left' : C!Decodes(loaded, j)' => conf'[j] = loaded[j]
        BY <1>2, <2>1, <3>1, <4>1, <4>3, <4>4 DEF ConfInv, Converging
      <4>5. Converging'
        BY <1>4, <1>9, <2>3, <3>1, <4>4 DEF Converging, C!Unmarshal
      <4> QED
        BY <1>3, <1>6, <4>2, <4>5 DEF ConfInv
    <3>3. CASE ~C!Decodes(loaded, k)
      <4>1. UNCHANGED <<conf, sections>>
        BY <2>3, <3>3 DEF C!DecodeField, C!memory
      <4>2. C!TypeOK'
        BY <1>9, <2>1, <2>3, <3>1, <4>1 DEF ConfInv, C!TypeOK
      <4>3. \A j \in DOMAIN loaded : C!Decodes(loaded, j)' => C!Decodes(loaded, j)
        BY <3>1, <4>1 DEF C!Decodes, C!Wrong
      <4>4. ASSUME ~dirty, C!Parses(file), watch = "decode"
            PROVE  /\ loaded = C!Content(file)
                   /\ \A j \in DOMAIN loaded \ left' : C!Decodes(loaded, j)' => conf'[j] = loaded[j]
        BY <1>2, <2>1, <3>1, <3>3, <4>1, <4>3, <4>4 DEF ConfInv, Converging
      <4>5. Converging'
        BY <1>4, <1>9, <2>3, <3>1, <4>4 DEF Converging, C!Unmarshal
      <4> QED
        BY <1>3, <1>6, <4>2, <4>5 DEF ConfInv
    <3> QED
      BY <3>2, <3>3
  <2> QED
    BY <1>9, <2>2, <2>3
<1> QED
  BY <1>7, <1>8, <1>9 DEF C!Watcher

LEMMA ConfStep == ConfInv /\ [C!Next]_C!vars => ConfInv'
<1> SUFFICES ASSUME ConfInv, [C!Next]_C!vars
             PROVE  ConfInv'
  OBVIOUS
<1>1. ASSUME NEW r \in Requests, C!SaveConfigHandler(r)
      PROVE  ConfInv'
  BY <1>1, TruncatePreserves, WritePreserves DEF C!SaveConfigHandler
<1>2. CASE UNCHANGED C!vars
  <2>1. /\ UNCHANGED <<file, saving, body, flawed, starting, dirty, watch, loaded, left>>
        /\ UNCHANGED <<conf, sections>>
    BY <1>2 DEF C!vars, C!requests, C!watcher, C!memory
  <2>2. C!TypeOK' /\ C!FileIsLastSave' /\ C!StartFailsAfterFlaw'
    BY <2>1 DEF ConfInv, C!TypeOK, C!FileIsLastSave, C!StartFailsAfterFlaw, C!Saving, C!Parses,
       C!Content
  <2>3. OneSave' /\ Starting' /\ Converging'
    BY <2>1 DEF ConfInv, OneSave, Starting, Converging, C!Saving, C!Serving, C!Parses,
       C!Content, Agrees, AgreesOrEnv, C!Decodes, C!Wrong, C!Sections, C!EnvSections
  <2> QED
    BY <2>2, <2>3 DEF ConfInv
<1> QED
  BY <1>1, <1>2, StartPreserves, RestartConfig, WatcherPreserves DEF C!Next

LEMMA ConfInvSafe == ConfInv => ReloadConverges
BY DEF ConfInv, ReloadConverges, C!ReloadConverges, Converging, AgreesOrEnv

\* For any saves over any keys and sections: with one save at a time the file is what was
\* saved last; a start fails only after a flawed save or of a text that does not parse,
\* lacks a section it needs or does not decode; and an idle watcher leaves Conf in
\* agreement with what decodes of a file that parses, whatever it read half-written
\* (config.go, InitConfig; main.go; deviceLogic.go, SaveConfigHandler).
THEOREM ReloadAlwaysConverges == C!Spec => []ReloadConverges
<1>1. C!Spec => []ConfInv
  BY ConfInit, ConfStep, PTL DEF C!Spec
<1> QED
  BY <1>1, ConfInvSafe, PTL

\* Both for the instance in which one of the two parts moves.
THEOREM ServerAlwaysSafe == ServerSpec => [](StopsAreSafe /\ ReloadConverges)
<1>1. ServerInit => SupInv /\ ConfInv
  BY SupInit, ConfInit DEF ServerInit
<1>2. SupInv /\ ConfInv /\ [ServerNext]_allVars => (SupInv /\ ConfInv)'
  <2> SUFFICES ASSUME SupInv, ConfInv, [ServerNext]_allVars
               PROVE  SupInv' /\ ConfInv'
    OBVIOUS
  <2>1. [Next]_vars /\ [C!Next]_C!vars
    BY DEF ServerNext, Supervised, Configured, In, allVars, configuration, C!vars, C!requests,
       C!watcher, C!memory
  <2> QED
    BY <2>1, SupStep, ConfStep
<1>3. SupInv /\ ConfInv => StopsAreSafe /\ ReloadConverges
  BY SupInvSafe, ConfInvSafe
<1> QED
  BY <1>1, <1>2, <1>3, PTL DEF ServerSpec
=============================================================================
