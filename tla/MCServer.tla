------------------------------ MODULE MCServer ------------------------------
(***************************************************************************)
(* One instance for the two parts of the server process that share no      *)
(* state: its media servers (Supervision) and its configuration            *)
(* (ConfigFile).  A behaviour exercises one part, which is chosen in the   *)
(* initial state; the other stays as it begins.                            *)
(***************************************************************************)
EXTENDS Supervision

CONSTANTS
  Requests, BodyOf, First, Keys, SectionOf, Required, Bad, Env, Unset, Empty, Broken

VARIABLES
  part, file, saving, body, flawed, starting, dirty, watch, loaded, left, conf, sections

configuration ==
  <<file, saving, body, flawed, starting, dirty, watch, loaded, left, conf, sections>>
allVars == <<part, vars, configuration>>

C == INSTANCE ConfigFile WITH at <- saving, main <- starting

ASSUME ServerAssumption == C!ConfigAssumption

\* Two sections, the first one required and with a variable of the environment.  A save
\* leaves out the other section, one the required section, and one has a wrong value.
MCSectionOf == [driver |-> "database", secret |-> "jwt", timeout |-> "jwt"]
MCFirst == [driver |-> "a", secret |-> "s", timeout |-> "1"]
MCBodyOf ==
  [save1 |-> [driver |-> "b"],
   save2 |-> [secret |-> "t"],
   save3 |-> [driver |-> "c", secret |-> "u", timeout |-> "wrong"]]
MCEnv == [driver |-> "e"]

ServerInit ==
  /\ part \in {"supervision", "configuration"}
  /\ Init /\ C!Init
  /\ part = "configuration" => platform = CHOOSE p \in Platforms : TRUE

In(p) == part = p /\ UNCHANGED part
Supervised(A) == In("supervision") /\ A /\ UNCHANGED configuration
Configured(A) == In("configuration") /\ A /\ UNCHANGED vars

ServerNext == Supervised(Next) \/ Configured(C!Next)

ServerSpec ==
  /\ ServerInit /\ [][ServerNext]_allVars
  /\ WF_allVars(Supervised(Main))
  /\ \A r \in Restarts : WF_allVars(Supervised(Alive /\ Restart(r)))
  /\ WF_allVars(Supervised(Alive /\ HandlerGo)) /\ WF_allVars(Supervised(Alive /\ HandlerMtx))
  /\ \A k \in {"go", "mtx"} : WF_allVars(Supervised(Alive /\ Reap(k)))
  /\ WF_allVars(Configured(C!InitConfig))
  /\ WF_allVars(Configured(starting # "dead" /\ C!Watcher))

-----------------------------------------------------------------------------
\* See Supervision: a process that replaces itself leaves no MediaMTX at work, and the
\* unprotected globals are used as nil only when two stoppers are at it at once.
StopsAreSafe == TypeOK /\ MtxLeftOnlyByDeath /\ PanicNeedsTwoStops

\* See Supervision: a restart and an interrupt end although a child may never react,
\* and SIGTERM reaches both media servers.
StopsEnd == RestartEnds /\ InterruptExits /\ SignalReachesChildren

\* See ConfigFile: with one save at a time the file is what was saved last, a start
\* fails only after a flawed save or of a text it cannot use, and an idle watcher leaves
\* Conf in agreement with what decodes of a file that parses.
ReloadConverges ==
  C!TypeOK /\ C!FileIsLastSave /\ C!StartFailsAfterFlaw /\ C!ReloadConverges

\* See ConfigFile: when the file changes no more, Conf comes to agree with its sections
\* that decode.
SavesReachConf == C!SavesReachConf
=============================================================================
