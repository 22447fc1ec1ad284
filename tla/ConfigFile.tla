------------------------------ MODULE ConfigFile ------------------------------
(***************************************************************************)
(* config.yaml and the configuration in memory: SaveConfigHandler of       *)
(* deviceLogic.go (ReadConfigHandler changes nothing), InitConfig of       *)
(* config.go with its hot reload, the use main makes of the sections, and  *)
(* a restart in the middle of it.  A save truncates the file and then      *)
(* writes it; the watcher (viper and fsnotify, external) reads whatever is *)
(* there after an event and decodes it over Conf, whose fields keep their  *)
(* values when their key is missing.                                       *)
(*                                                                         *)
(* A file is a function from its keys to values, Empty or Broken (it does  *)
(* not parse).  The fields of Conf are pointers to sections: a section the *)
(* file has never had is nil, and a start that uses it panics.             *)
(***************************************************************************)
EXTENDS FiniteSets

CONSTANTS
  Requests,  \* requests to SaveConfigHandler
  BodyOf,    \* the body of a request: a file
  First,     \* the file the program is installed with, which has all keys
  Keys,      \* the keys of Conf
  SectionOf, \* the section of a key
  Required,  \* the sections main uses: system, logs, database, onnx, the driver's own
  Bad,       \* the values of another type than their field's
  Env,       \* the values set by environment variables
  Unset,     \* the zero value of a field
  Empty, Broken

\* Assumed where the module is instantiated.
ConfigAssumption ==
  /\ DOMAIN First = Keys /\ First \notin {Empty, Broken} /\ Keys # {} /\ Empty # Broken
  /\ DOMAIN Env \subseteq Keys /\ Required \subseteq {SectionOf[k] : k \in Keys}
  /\ \A k \in Keys : First[k] \notin Bad
  /\ \A r \in Requests : BodyOf[r] \in {Empty, Broken} \/ DOMAIN BodyOf[r] \subseteq Keys

VARIABLES
  file,     \* config.yaml
  at,       \* per request: where it is
  body,     \* what was saved last
  flawed,   \* a save failed, was cut off by a restart or overlapped another one
  main,     \* where the start is; "dead" if it failed
  dirty,    \* the watcher has an event
  watch,    \* where the watcher is
  loaded,   \* what viper read last
  left,     \* the keys of loaded that are still to be decoded
  conf,     \* Conf
  sections  \* its sections that are not nil

requests == <<at, body, flawed>>
watcher == <<dirty, watch>>
memory == <<conf, sections>>
vars == <<file, requests, main, watcher, loaded, left, memory>>

NoKeys == [k \in {} |-> Unset]
\* The keys of f with its values, the other ones of g with theirs (@@ of TLC).
Overlay(f, g) == [k \in DOMAIN f \union DOMAIN g |-> IF k \in DOMAIN f THEN f[k] ELSE g[k]]
Bodies == {BodyOf[r] : r \in Requests} \union {First}
Parses(f) == f # Broken
Content(f) == IF f = Empty THEN NoKeys ELSE f
Sections(f) == {SectionOf[k] : k \in DOMAIN f}
\* The sections with a value that does not decode, and those the environment is put into.
Wrong(f) == {SectionOf[k] : k \in {j \in DOMAIN f : f[j] \in Bad}}
EnvSections == {SectionOf[k] : k \in DOMAIN Env}
\* What the program can be started with.
Usable(f) ==
  /\ Parses(f) /\ Wrong(Content(f)) = {}
  /\ Required \union EnvSections \subseteq Sections(Content(f))
Saving == {r \in Requests : at[r] = "truncated"}

TypeOK ==
  /\ at \in [Requests -> {"new", "truncated", "saved", "failed", "cut"}]
  /\ body \in Bodies /\ flawed \in BOOLEAN
  /\ main \in {"read", "decode", "watch", "env", "start", "serve", "dead"}
  /\ dirty \in BOOLEAN /\ watch \in {"off", "idle", "event", "decode"}
  /\ Parses(file) => DOMAIN Content(file) \subseteq Keys
  /\ DOMAIN loaded \subseteq Keys /\ left \subseteq DOMAIN loaded
  /\ DOMAIN conf = Keys /\ sections \subseteq {SectionOf[k] : k \in Keys}

Init ==
  /\ file = First /\ body = First /\ flawed = FALSE
  /\ at = [r \in Requests |-> "new"]
  /\ main = "read" /\ dirty = FALSE /\ watch = "off"
  /\ loaded = NoKeys /\ left = {} /\ conf = [k \in Keys |-> Unset] /\ sections = {}

Serving == main = "serve"

-----------------------------------------------------------------------------
(* SaveConfigHandler: os.WriteFile.                                         *)

\* Every change of the file is an event for a watcher that runs.
Change(f) == file' = f /\ dirty' = (watch # "off") /\ UNCHANGED watch

Truncate(r) ==
  /\ Serving /\ at[r] = "new" /\ at' = [at EXCEPT ![r] = "truncated"]
  /\ Change(Empty)
  /\ flawed' = (flawed \/ Saving # {}) /\ UNCHANGED body
  /\ UNCHANGED <<main, loaded, left, memory>>

\* Written from the start of the file: over a text another request has put there
\* meanwhile, the end of a longer one stays.
Over(new, old) == IF old = Empty THEN {new}
                  ELSE {new, Broken} \union
                         (IF Parses(old) /\ Parses(new) THEN {Overlay(Content(new), old)} ELSE {})

Write(r) ==
  /\ Serving /\ at[r] = "truncated"
  /\ \/ /\ \E f \in Over(BodyOf[r], file) : Change(f)
        /\ at' = [at EXCEPT ![r] = "saved"] /\ body' = BodyOf[r] /\ UNCHANGED flawed
     \/ /\ \E f \in {file, Broken} : Change(f)      \* no room on the disk
        /\ at' = [at EXCEPT ![r] = "failed"] /\ flawed' = TRUE /\ UNCHANGED body
  /\ UNCHANGED <<main, loaded, left, memory>>

\* A file of another name, or a body that cannot be read, changes nothing.
SaveConfigHandler(r) == Truncate(r) \/ Write(r)

-----------------------------------------------------------------------------
(* The start: InitConfig, and what main does with Conf before it serves.   *)

\* A file that does not parse is a panic.
ReadInConfig ==
  /\ main = "read"
  /\ IF Parses(file)
     THEN /\ main' = "decode"
          /\ loaded' = Content(file) /\ left' = DOMAIN Content(file)
     ELSE main' = "dead" /\ UNCHANGED <<loaded, left>>
  /\ UNCHANGED <<file, requests, watcher, memory>>

\* A value of another type than its field's is an error of Unmarshal, and a panic.
Decode ==
  /\ main = "decode" /\ left' = {}
  /\ IF Wrong(loaded) = {}
     THEN main' = "watch" /\ conf' = Overlay(loaded, conf) /\ sections' = Sections(loaded)
     ELSE main' = "dead" /\ UNCHANGED memory
  /\ UNCHANGED <<file, requests, watcher, loaded>>

WatchConfig ==
  /\ main = "watch" /\ main' = "env" /\ watch' = "idle"
  /\ UNCHANGED <<file, requests, dirty, loaded, left, memory>>

\* A variable of the environment is put into a field of its section: nil is a panic.
LoadEnv ==
  /\ main = "env"
  /\ IF EnvSections \subseteq sections THEN main' = "start" /\ conf' = Overlay(Env, conf)
                                      ELSE main' = "dead" /\ UNCHANGED conf
  /\ UNCHANGED <<file, requests, watcher, loaded, left, sections>>

\* The rest of main reads the sections it needs, whether they are there or not.
Start ==
  /\ main = "start"
  /\ main' = IF Required \subseteq sections THEN "serve" ELSE "dead"
  /\ UNCHANGED <<file, requests, watcher, loaded, left, memory>>

InitConfig == ReadInConfig \/ Decode \/ WatchConfig \/ LoadEnv \/ Start

\* RestartHandler, or a crash: saves under way are cut off where they are.
Restart ==
  /\ Serving
  /\ main' = "read" /\ watch' = "off" /\ dirty' = FALSE
  /\ loaded' = NoKeys /\ left' = {} /\ conf' = [k \in Keys |-> Unset]
  /\ sections' = {}
  /\ at' = [r \in Requests |-> IF at[r] = "truncated" THEN "cut" ELSE at[r]]
  /\ flawed' = (flawed \/ Saving # {})
  /\ UNCHANGED <<file, body>>

-----------------------------------------------------------------------------
(* Hot reload.                                                              *)

\* A value of the right type is decoded over the field's; a section that is nil is set
\* only if all of it decodes.
Decodes(f, k) ==
  f[k] \notin Bad /\ (SectionOf[k] \in sections \/ SectionOf[k] \notin Wrong(f))

\* One field: a value that does not decode is logged and leaves it as it was.
DecodeField(k) ==
  /\ left' = left \ {k}
  /\ IF Decodes(loaded, k)
     THEN /\ conf' = [conf EXCEPT ![k] = loaded[k]]
          /\ sections' = sections \union {SectionOf[k]}
     ELSE UNCHANGED memory

Event ==
  /\ watch = "idle" /\ dirty /\ watch' = "event" /\ dirty' = FALSE
  /\ UNCHANGED <<file, requests, main, loaded, left, memory>>

\* Mutation: a file that does not parse ends the watcher.
ReloadGivesUp ==
  /\ watch = "event" /\ UNCHANGED dirty
  /\ IF Parses(file) THEN /\ watch' = "decode"
                          /\ loaded' = Content(file) /\ left' = DOMAIN loaded'
                     ELSE watch' = "off" /\ UNCHANGED <<loaded, left>>
  /\ UNCHANGED <<file, requests, main, memory>>

\* A file that does not parse is logged, and what was loaded before decoded again.
Reload ==
  /\ watch = "event" /\ watch' = "decode" /\ UNCHANGED dirty
  /\ loaded' = IF Parses(file) THEN Content(file) ELSE loaded
  /\ left' = DOMAIN loaded'
  /\ UNCHANGED <<file, requests, main, memory>>

\* Mutation: events that came during the reload are dropped at its end.
UnmarshalDrops ==
  /\ watch = "decode"
  /\ \/ \E k \in left : DecodeField(k) /\ UNCHANGED <<watch, dirty>>
     \/ left = {} /\ watch' = "idle" /\ dirty' = FALSE /\ UNCHANGED <<left, memory>>
  /\ UNCHANGED <<file, requests, main, loaded>>

\* Unmarshal into Conf while everybody reads it, field by field.
Unmarshal ==
  /\ watch = "decode" /\ UNCHANGED dirty
  /\ \/ \E k \in left : DecodeField(k) /\ UNCHANGED watch
     \/ left = {} /\ watch' = "idle" /\ UNCHANGED <<left, memory>>
  /\ UNCHANGED <<file, requests, main, loaded>>

Watcher == Event \/ Reload \/ Unmarshal

Next ==
  \/ \E r \in Requests : SaveConfigHandler(r)
  \/ InitConfig
  \/ Restart
  \/ main # "dead" /\ Watcher

Spec == Init /\ [][Next]_vars /\ WF_vars(InitConfig) /\ WF_vars(main # "dead" /\ Watcher)

-----------------------------------------------------------------------------
(* Properties.                                                              *)

\* With one save at a time, none failing and no restart in the middle of it, the file
\* is what was saved last.
FileIsLastSave == ~flawed /\ Saving = {} => file = body

\* A start fails only after a save that failed, was cut off or overlapped another, or
\* of a text the program cannot be started with: one that does not parse, lacks a section
\* main or the environment needs, or has a value of the wrong type.  SaveConfigHandler
\* takes such a text like any other, and the process that runs goes on with it.
StartFailsAfterFlaw == main = "dead" => flawed \/ ~Usable(body)

\* Whatever the watcher missed, read half-way or read too early: once it has nothing
\* to do, the keys of a file that parses have the file's values in Conf, those with
\* an environment variable that or its value.  The exceptions are a value of the wrong
\* type, and a section with one that Conf did not have yet.
ReloadConverges ==
  Serving /\ watch = "idle" /\ ~dirty /\ Parses(file) =>
    \A k \in DOMAIN Content(file) : Decodes(Content(file), k) =>
      conf[k] \in {file[k]} \union (IF k \in DOMAIN Env THEN {Env[k]} ELSE {})

\* When the file changes no more, the sections of it that decode come to be Conf's and
\* stay so, a wrong value in another section or not.
SavesReachConf ==
  \A f \in {b \in Bodies : Parses(b)} : \A k \in DOMAIN Content(f) \ DOMAIN Env :
    SectionOf[k] \notin Wrong(Content(f)) =>
      (<>[](Serving /\ file = f) => <>[](conf[k] = f[k]))
=============================================================================
