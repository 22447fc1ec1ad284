---------------------------- MODULE Supervision ----------------------------
(***************************************************************************)
(* main.go, pkg/common/go2rtc.go, pkg/common/mediamtx.go and               *)
(* RestartHandler: one server process after the other, the two media       *)
(* servers each of them starts, and everybody who stops them: the signal   *)
(* handlers, RestartHandler and nobody at all when main ends.              *)
(*                                                                         *)
(* A server process is known by its number gen.  syscall.Exec (and, on     *)
(* Windows, Start followed by os.Exit) is one step, Replace: goroutines    *)
(* and globals are gone, the children stay.  A child started with          *)
(* exec.CommandContext is killed by a goroutine of its process some time   *)
(* after the context was cancelled (Reap): a process that ends first       *)
(* leaves the child alive.                                                 *)
(***************************************************************************)
EXTENDS Integers, FiniteSets

CONSTANTS
  Platforms,   \* operating system and architecture of the builds, as in "linux_arm64"
  Restarts,    \* requests to RestartHandler
  MaxGen,      \* bound: processes after the first
  MaxSignals   \* bound: signals the operator sends

ASSUME SupervisionAssumption ==
  MaxGen \in Nat /\ MaxSignals \in Nat /\ IsFiniteSet(Restarts)

Gens == 0 .. MaxGen
Handler == "sigMtx"              \* the goroutine of InitMediaMtx
Stoppers == Restarts \union {Handler}

VARIABLES
  platform,   \* the one of this build
  gen,        \* the process that runs, or ran last
  end,        \* per process: "runs", "replaced" (Exec) or "died"
  main,       \* where main of that process is
  live,       \* the media servers that run: <<"go" or "mtx", process>>
  doomed,     \* those of them that were sent SIGKILL
  cancelled,  \* the contexts of this process that were cancelled
  mtxCmd,     \* mediaMtxCmd is not nil
  mtxCancel,  \* MediaMtxCancel is not nil
  at,         \* per stopper: where it is in StopMediaMtx or RestartHandler
  got,        \* the channels of this process that hold a signal
  signals,    \* number of signals sent
  panicked    \* a nil pointer was dereferenced

process == <<platform, gen, end, main, got, signals, panicked>>
children == <<live, doomed, cancelled>>
globals == <<mtxCmd, mtxCancel>>
vars == <<process, children, globals, at>>

TypeOK ==
  /\ platform \in Platforms /\ gen \in Gens /\ end \in [Gens -> {"runs", "replaced", "died"}]
  /\ main \in {"start", "initGo", "initMtx", "models", "serve", "down"}
  /\ live \subseteq ({"go", "mtx"} \X Gens) /\ doomed \subseteq live
  /\ cancelled \subseteq {"go", "mtx"}
  /\ mtxCmd \in BOOLEAN /\ mtxCancel \in BOOLEAN
  /\ at \in [Stoppers -> {"off", "idle", "cancel", "call", "test", "spawn", "wait", "kill",
                          "reset", "forget", "go", "exec", "done"}]
  /\ got \subseteq {"sigGo", "sigMtx", "quit"}
  /\ signals \in 0 .. MaxSignals /\ panicked \in BOOLEAN
  /\ <<"mtx", gen>> \in live => main \in {"models", "serve", "down"}

\* getGo2rtcCmdPath and getMediaMtxCmdPath: there is a binary, or a panic.
GoPlatforms == {"windows_amd64", "linux_amd64", "linux_arm64"}
MtxPlatforms == {"windows_amd64", "linux_amd64"}

\* Requests can come, the handler does not exist yet.
NoStopper == [p \in Stoppers |-> IF p = Handler THEN "off" ELSE "idle"]

Alive == end[gen] = "runs"

Init ==
  /\ platform \in Platforms
  /\ gen = 0 /\ end = [g \in Gens |-> "runs"] /\ main = "start"
  /\ live = {} /\ doomed = {} /\ cancelled = {}
  /\ mtxCmd = FALSE /\ mtxCancel = FALSE
  /\ at = NoStopper
  /\ got = {} /\ signals = 0 /\ panicked = FALSE

-----------------------------------------------------------------------------
(* The processes.                                                           *)

\* The process is gone: the children are left as they are.
Die ==
  /\ end' = [end EXCEPT ![gen] = "died"]
  /\ UNCHANGED <<platform, gen, main, got, signals>>

\* The same program again, from its first line.
NewProcess ==
  /\ gen < MaxGen /\ gen' = gen + 1
  /\ main' = "start" /\ got' = {}
  /\ at' = NoStopper /\ panicked' = FALSE
  /\ mtxCmd' = FALSE /\ mtxCancel' = FALSE /\ cancelled' = {}
  /\ UNCHANGED <<platform, live, doomed, signals>>

Replace ==
  /\ NewProcess
  /\ end' = [end EXCEPT ![gen] = "replaced"]

\* The operator, or the service manager, starts a program that died.
Relaunch ==
  /\ ~Alive /\ NewProcess /\ UNCHANGED end

-----------------------------------------------------------------------------
(* main.                                                                    *)

Goto(l) == main' = l /\ UNCHANGED <<platform, gen, end, got, signals, panicked>>

\* Configuration, logger, license, database and cron tasks.
InitBase ==
  /\ main = "start" /\ Goto("initGo")
  /\ UNCHANGED <<children, globals, at>>

InitGo2RTC ==
  /\ main = "initGo" /\ platform \in GoPlatforms
  /\ live' = live \union {<<"go", gen>>}
  /\ Goto("initMtx") /\ UNCHANGED <<doomed, cancelled, globals, at>>

\* Mutation: the command is kept in a local variable only, as InitGo2RTC does.
InitMediaMtxForgets ==
  /\ main = "initMtx" /\ Goto("models")
  /\ UNCHANGED <<doomed, cancelled, mtxCmd>>
  /\ \/ UNCHANGED <<live, mtxCancel, at>>
     \/ /\ platform \in MtxPlatforms
        /\ live' = live \union {<<"mtx", gen>>} /\ mtxCancel' = TRUE
        /\ at' = [at EXCEPT ![Handler] = "idle"]

\* EnableRecording is read from the configuration of this start.
InitMediaMtx ==
  /\ main = "initMtx" /\ Goto("models")
  /\ UNCHANGED <<doomed, cancelled>>
  /\ \/ UNCHANGED <<live, globals, at>>
     \/ /\ platform \in MtxPlatforms
        /\ live' = live \union {<<"mtx", gen>>}
        /\ mtxCmd' = TRUE /\ mtxCancel' = TRUE
        /\ at' = [at EXCEPT ![Handler] = "idle"]

\* The inference engine, the PLC, the routes and the server.
InitModels ==
  /\ main = "models" /\ Goto("serve")
  /\ UNCHANGED <<children, globals, at>>

\* Log.Fatalf or a panic in any of these steps, the server's included; the
\* children that were started are not stopped.
InitFails ==
  /\ main # "down" /\ Die
  /\ UNCHANGED <<children, globals, at, panicked>>

Quit ==
  /\ main = "serve" /\ "quit" \in got /\ Goto("down")
  /\ UNCHANGED <<children, globals, at>>

\* StopPLC and Shutdown, which ends or gives up after 15 seconds.
Exit ==
  /\ main = "down" /\ Die
  /\ UNCHANGED <<children, globals, at, panicked>>

Main == Alive /\ (InitBase \/ InitGo2RTC \/ InitMediaMtx \/ InitModels \/ Quit \/ Exit)

-----------------------------------------------------------------------------
(* StopMediaMtx, statement by statement: the globals have no lock.          *)

Move(p, from, to) == at[p] = from /\ at' = [at EXCEPT ![p] = to]

\* A nil pointer is used: the program ends with a panic.
Panic == panicked' = TRUE /\ Die /\ UNCHANGED <<children, globals, at>>

StopCancel(p) ==
  /\ Move(p, "cancel", IF mtxCancel THEN "call" ELSE "test")
  /\ UNCHANGED <<process, children, globals>>

StopCall(p) ==
  \/ /\ mtxCancel /\ Move(p, "call", "test")
     /\ cancelled' = cancelled \union {"mtx"}
     /\ UNCHANGED <<process, live, doomed, globals>>
  \/ at[p] = "call" /\ ~mtxCancel /\ Panic

\* A restart goes on with StopGo2RTC, the handler is done.
Stopped(p) == IF p = Handler THEN "done" ELSE "go"

StopTest(p) ==
  /\ Move(p, "test", IF mtxCmd THEN "spawn" ELSE Stopped(p))
  /\ UNCHANGED <<process, children, globals>>

\* The goroutine reads mediaMtxCmd again when it calls Wait.
StopSpawn(p) ==
  \/ /\ mtxCmd /\ Move(p, "spawn", "wait")
     /\ UNCHANGED <<process, children, globals>>
  \/ at[p] = "spawn" /\ ~mtxCmd /\ Panic

\* Wait returns, to everybody who calls it, when the child has exited.
StopExited(p) ==
  /\ <<"mtx", gen>> \notin live
  /\ Move(p, "wait", "reset")
  /\ UNCHANGED <<process, children, globals>>

\* Three seconds have passed.
StopTimeout(p) ==
  /\ Move(p, "wait", "kill")
  /\ UNCHANGED <<process, children, globals>>

StopKill(p) ==
  \/ /\ mtxCmd /\ Move(p, "kill", "reset")
     /\ doomed' = doomed \union ({<<"mtx", gen>>} \intersect live)
     /\ UNCHANGED <<process, live, cancelled, globals>>
  \/ at[p] = "kill" /\ ~mtxCmd /\ Panic

StopReset(p) ==
  \/ /\ Move(p, "reset", "forget") /\ mtxCmd' = FALSE
     /\ UNCHANGED <<process, children, mtxCancel>>
  \/ /\ Move(p, "forget", Stopped(p)) /\ mtxCancel' = FALSE
     /\ UNCHANGED <<process, children, mtxCmd>>

StopMediaMtx(p) ==
  \/ StopCancel(p) \/ StopCall(p) \/ StopTest(p) \/ StopSpawn(p)
  \/ StopExited(p) \/ StopTimeout(p) \/ StopKill(p) \/ StopReset(p)

-----------------------------------------------------------------------------
(* StopGo2RTC: go2rtcCmd is nil in every state, so that the function only   *)
(* cancels and returns.                                                     *)

\* Mutation: nothing to stop, nothing is cancelled.
StopGo2RTCFindsNothing == UNCHANGED <<process, children, globals>>

StopGo2RTC ==
  /\ cancelled' = cancelled \union {"go"}
  /\ UNCHANGED <<process, live, doomed, globals>>

-----------------------------------------------------------------------------
(* RestartHandler.                                                          *)

Request(r) ==
  /\ main = "serve" /\ gen < MaxGen
  /\ Move(r, "idle", "cancel")
  /\ UNCHANGED <<process, children, globals>>

RestartGo(r) == Move(r, "go", "exec") /\ StopGo2RTC

Exec(r) == at[r] = "exec" /\ Replace

\* The new program cannot be started; this one goes on without its children.
ExecFails(r) ==
  /\ Move(r, "exec", "done") /\ UNCHANGED <<process, children, globals>>

Restart(r) == StopMediaMtx(r) \/ RestartGo(r) \/ Exec(r)

-----------------------------------------------------------------------------
(* Signals.                                                                 *)

\* The channels registered by now.  Only main leaves SIGTERM out.
Receivers(s) ==
  (IF main \in {"initMtx", "models", "serve", "down"} THEN {"sigGo"} ELSE {})
  \union (IF at[Handler] # "off" THEN {"sigMtx"} ELSE {})
  \union (IF s = "SIGINT" /\ main \in {"serve", "down"} THEN {"quit"} ELSE {})

\* Without a channel the signal ends the program; with one, nothing else.
Signal(s) ==
  /\ signals < MaxSignals /\ signals' = signals + 1
  /\ IF Receivers(s) = {}
     THEN end' = [end EXCEPT ![gen] = "died"] /\ UNCHANGED got
     ELSE got' = got \union Receivers(s) /\ UNCHANGED end
  /\ UNCHANGED <<platform, gen, main, panicked, children, globals, at>>

\* The goroutine of InitGo2RTC stays when it has handled its signal.
HandlerGo ==
  /\ "sigGo" \in got /\ "go" \notin cancelled
  /\ StopGo2RTC /\ UNCHANGED at

HandlerMtx ==
  \/ /\ "sigMtx" \in got /\ Move(Handler, "idle", "cancel")
     /\ UNCHANGED <<process, children, globals>>
  \/ StopMediaMtx(Handler)

-----------------------------------------------------------------------------
(* The children.                                                            *)

\* The goroutine of exec.Cmd sees the cancelled context.
Reap(k) ==
  /\ k \in cancelled /\ <<k, gen>> \in live \ doomed
  /\ doomed' = doomed \union {<<k, gen>>}
  /\ UNCHANGED <<process, live, cancelled, globals, at>>

\* A child exits because it was killed, or by itself.
ChildExits(c) ==
  /\ c \in live
  /\ live' = live \ {c} /\ doomed' = doomed \ {c}
  /\ UNCHANGED <<process, cancelled, globals, at>>

Next ==
  \/ Main
  \/ Alive /\ InitFails
  \/ Relaunch
  \/ \E r \in Restarts : Alive /\ (Request(r) \/ Restart(r) \/ ExecFails(r))
  \/ \E s \in {"SIGINT", "SIGTERM"} : Alive /\ Signal(s)
  \/ Alive /\ (HandlerGo \/ HandlerMtx)
  \/ \E k \in {"go", "mtx"} : Alive /\ Reap(k)
  \/ \E c \in live : ChildExits(c)

\* Goroutines are scheduled and timers fire.  A killed child need not die.
Fairness ==
  /\ WF_vars(Main)
  /\ \A r \in Restarts : WF_vars(Alive /\ Restart(r))
  /\ WF_vars(Alive /\ HandlerGo) /\ WF_vars(Alive /\ HandlerMtx)
  /\ \A k \in {"go", "mtx"} : WF_vars(Alive /\ Reap(k))

Spec == Init /\ [][Next]_vars /\ Fairness

-----------------------------------------------------------------------------
(* Properties.                                                              *)

\* A process that replaces itself leaves no MediaMTX that was not at least sent
\* SIGKILL, however many requests and signals stop it at once: a MediaMTX still
\* at work outlives only a process that died.
MtxLeftOnlyByDeath ==
  \A g \in Gens : end[g] = "replaced" => <<"mtx", g>> \notin live \ doomed

\* The unprotected globals of StopMediaMtx hurt only when it is called twice in
\* one process: one request, or one signal, never panics.
PanicNeedsTwoStops ==
  panicked => Cardinality({p \in Stoppers : at[p] \notin {"off", "idle"}}) >= 2

\* A restart ends in a new process, in an error or with the process, although the
\* child may never react and another stopper may be in its way.
RestartEnds ==
  \A r \in Restarts : (at[r] = "cancel") ~> (at[r] \in {"idle", "done"} \/ ~Alive)

\* An interrupt ends the process that serves, unless a restart replaces it first.
InterruptExits ==
  \A g \in Gens : (gen = g /\ "quit" \in got) ~> (gen # g \/ ~Alive)

\* SIGTERM, which main ignores, still gets both media servers killed, unless the
\* process ends before that.
SignalReachesChildren ==
  \A g \in Gens :
    (gen = g /\ {"sigGo", "sigMtx"} \subseteq got)
      ~> (gen # g \/ ~Alive \/ {<<"go", g>>, <<"mtx", g>>} \intersect (live \ doomed) = {})

\* What the comment above StopGo2RTC says (go2rtc.go:60, "cancels the context,
\* waits for the exit, kills after a timeout"): once it has returned, go2rtc has
\* exited or was sent SIGKILL.
Go2RTCStopped ==
  \A r \in Restarts : at[r] = "exec" => <<"go", gen>> \notin live \ doomed
=============================================================================
