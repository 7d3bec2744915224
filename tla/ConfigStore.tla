------------------------------ MODULE ConfigStore ------------------------------
(***************************************************************************)
(* The configuration store (internal/config/config.go) and what main does  *)
(* with it: the file, the copy in memory, the watcher that reloads the     *)
(* file, the updates of the admin API that write it, and the goroutines    *)
(* that hand every new configuration to the services.                      *)
(*                                                                         *)
(* The store's mutex is held by an update while it writes the file, which  *)
(* it truncates first, so an update is two steps; a reload is one.         *)
(* broadcastLocked starts one goroutine per configuration, and nothing     *)
(* orders the goroutines.  In each of them applyRuntimeConfig calls the    *)
(* services one after another, and a service may refuse its part.          *)
(*                                                                         *)
(* The editors of the file and the events of fsnotify are external.  An    *)
(* event not yet taken is a flag, since several of them lead to reloads    *)
(* that find the same file.                                                *)
(***************************************************************************)
EXTENDS Integers, Sequences, SequencesExt

CONSTANTS
  Rules, BadRules,    \* access rules, and those ValidateAccessRule turns down
  Levels, BadLevels,  \* log levels, and those zerolog.ParseLevel turns down
  RateLimits,         \* rate limits the admin API may set
  Default,            \* DefaultConfig()
  Edits,              \* configurations an editor may write into the file
  MaxRunning,         \* bound on the goroutines that deliver a configuration
  MaxChanges          \* bound on the changes of the file and the starts

(* Configurations, as far as the services tell them apart *)
Configs ==
  [level : Levels, maxLogs : Int, maxBuckets : Int, access : SUBSET Rules, rateLimit : Int,
   cache : {"enabled", "disabled"}]

ASSUME RuleAssumption == BadRules \subseteq Rules
ASSUME ConfigAssumption ==
  /\ "none" \in Levels
  /\ Default \in Configs /\ Edits \subseteq Configs /\ RateLimits \subseteq Int
ASSUME BoundAssumption == MaxRunning \in Nat /\ MaxChanges \in Nat

VARIABLES
  file,     \* a configuration, or Empty, Garbled or Missing
  phase,    \* "down", "loaded", "watching" or "unwatched"
  current,  \* the configuration in memory
  writer,   \* the configuration an update is writing under the mutex, or NoWrite
  noticed,  \* whether an event of the file waits for the watcher
  watcher,  \* "idle" or "reloading"
  running,  \* the goroutines of broadcastLocked, oldest first: [config, stage]
  inForce,  \* part -> the value its service was last given and took
  changes

vars == <<file, phase, current, writer, noticed, watcher, running, inForce, changes>>

(* What applyRuntimeConfig hands out, call by call *)
Stages ==
  <<{"level"}, {"maxLogs", "maxBuckets"}, {"access"}, {"rateLimit"}, {"cache"}>>

Parts == UNION {Stages[i] : i \in DOMAIN Stages}

StageOf(p) == CHOOSE i \in DOMAIN Stages : p \in Stages[i]

(* What yaml.Unmarshal makes of an empty file: the level is the empty string. *)
ZeroConfig ==
  [level |-> "none", maxLogs |-> 0, maxBuckets |-> 0, access |-> {}, rateLimit |-> 0,
   cache |-> "disabled"]

(* What the services have before any configuration *)
Fresh ==
  [level |-> "info", maxLogs |-> 500, maxBuckets |-> 60, access |-> {}, rateLimit |-> 1000,
   cache |-> "enabled"]

Empty == [content |-> "empty"]
Garbled == [content |-> "garbled"]
Missing == [content |-> "missing"]
NoWrite == [content |-> "none"]

Loads(f) == f \notin {Garbled, Missing}
Loaded(f) == IF f = Empty THEN ZeroConfig ELSE f

(* Whether the service of a part takes it: the level parses, the sizes are
   positive, ApplyConfig accepts every access rule. *)
Usable(p, c) ==
  /\ p = "level" => c.level \notin BadLevels
  /\ p \in {"maxLogs", "maxBuckets"} => c[p] > 0
  /\ p = "access" => c.access \intersect BadRules = {}

Taken(p, c, old) == IF Usable(p, c) THEN c[p] ELSE old

Serving == phase \in {"watching", "unwatched"}

FileEvent == noticed' = (noticed \/ phase = "watching")

-------------------------------------------------------------------------------
Init ==
  /\ file \in Edits \union {Empty, Garbled, Missing}
  /\ phase = "down"
  /\ current = ZeroConfig
  /\ writer = NoWrite
  /\ noticed = FALSE
  /\ watcher = "idle"
  /\ running = << >>
  /\ inForce = Fresh
  /\ changes = 0

(* main up to store.Subscribe; a file that cannot be loaded is a panic. *)
Start ==
  LET f == IF file = Missing THEN Default ELSE file
  IN /\ phase = "down" /\ changes < MaxChanges
     /\ Loads(f)
     /\ file' = f
     /\ current' = Loaded(f)
     /\ inForce' = [p \in Parts |-> Taken(p, Loaded(f), Fresh[p])]
     /\ phase' = "loaded"
     /\ changes' = changes + 1
     /\ UNCHANGED <<writer, noticed, watcher, running>>

(* store.Watch, whose failure is only logged, and the server after it *)
Serve ==
  /\ phase = "loaded"
  /\ phase' \in {"watching", "unwatched"}
  /\ UNCHANGED <<file, current, writer, noticed, watcher, running, inForce, changes>>

(* Update: the mutator has made c of the current configuration, and WriteFile has
   truncated the file.  An update that cannot open the file changes nothing. *)
BeginUpdate(c) ==
  /\ Serving /\ changes < MaxChanges
  /\ writer = NoWrite
  /\ writer' = c
  /\ file' = Empty
  /\ FileEvent
  /\ changes' = changes + 1
  /\ UNCHANGED <<phase, current, watcher, running, inForce>>

CreateAccessRule(r) ==
  /\ r \notin BadRules \union current.access
  /\ BeginUpdate([current EXCEPT !.access = @ \union {r}])

DeleteAccessRule(r) == BeginUpdate([current EXCEPT !.access = @ \ {r}])

UpdateRateLimits(v) == BeginUpdate([current EXCEPT !.rateLimit = v])

Broadcast(c) == running' = Append(running, [config |-> c, stage |-> 0])

(* The bytes are written, into a file of their own or over what an editor has put
   in its place since; then the new configuration is current and is broadcast. *)
FinishUpdate ==
  /\ writer # NoWrite
  /\ Len(running) < MaxRunning
  /\ file' \in {writer} \union (IF file = Empty THEN {} ELSE {file, Garbled})
  /\ current' = writer
  /\ Broadcast(writer)
  /\ writer' = NoWrite
  /\ FileEvent
  /\ UNCHANGED <<phase, watcher, inForce, changes>>

(* Writing fails half-way: the file keeps what there is, the memory is as before. *)
FailUpdate ==
  /\ writer # NoWrite
  /\ file' \in {file, Garbled}
  /\ writer' = NoWrite
  /\ FileEvent
  /\ UNCHANGED <<phase, current, watcher, running, inForce, changes>>

TakeEvent ==
  /\ phase = "watching" /\ noticed /\ watcher = "idle"
  /\ noticed' = FALSE
  /\ watcher' = "reloading"
  /\ UNCHANGED <<file, phase, current, writer, running, inForce, changes>>

\* Faulty variant of Reload: the file is read without the mutex.
ReloadUnlocked ==
  /\ watcher = "reloading"
  /\ Len(running) < MaxRunning
  /\ watcher' = "idle"
  /\ IF Loads(file)
     THEN current' = Loaded(file) /\ Broadcast(Loaded(file))
     ELSE UNCHANGED <<current, running>>
  /\ UNCHANGED <<file, phase, writer, noticed, inForce, changes>>

\* Faulty variant of Reload: the services are not told.
ReloadSilently ==
  /\ watcher = "reloading"
  /\ writer = NoWrite
  /\ watcher' = "idle"
  /\ current' = IF Loads(file) THEN Loaded(file) ELSE current
  /\ UNCHANGED <<file, phase, writer, noticed, running, inForce, changes>>

Reload ==
  /\ watcher = "reloading"
  /\ writer = NoWrite
  /\ Len(running) < MaxRunning
  /\ watcher' = "idle"
  /\ IF Loads(file)
     THEN current' = Loaded(file) /\ Broadcast(Loaded(file))
     ELSE UNCHANGED <<current, running>>
  /\ UNCHANGED <<file, phase, writer, noticed, inForce, changes>>

\* Faulty variant of Advanced: a goroutine does not end after its last call.
AdvancedOn(i) == [running EXCEPT ![i].stage = @ + 1]

(* The list without goroutine i when it has made its last call *)
Advanced(i) ==
  IF running[i].stage + 1 = Len(Stages) THEN RemoveAt(running, i)
  ELSE [running EXCEPT ![i].stage = @ + 1]

\* Faulty variant of Deliver: a part that is refused ends the delivery.
DeliverUntilRefused(i) ==
  LET c == running[i].config
      parts == Stages[running[i].stage + 1]
      refused == \E p \in parts : ~Usable(p, c)
  IN /\ running' = IF refused THEN RemoveAt(running, i) ELSE Advanced(i)
     /\ inForce' = [p \in Parts |-> IF p \in parts THEN Taken(p, c, inForce[p])
                                    ELSE inForce[p]]
     /\ UNCHANGED <<file, phase, current, writer, noticed, watcher, changes>>

(* applyRuntimeConfig in goroutine i makes its next call; what a service refuses
   is logged at most. *)
Deliver(i) ==
  LET c == running[i].config
      parts == Stages[running[i].stage + 1]
  IN /\ running' = Advanced(i)
     /\ inForce' = [p \in Parts |-> IF p \in parts THEN Taken(p, c, inForce[p])
                                    ELSE inForce[p]]
     /\ UNCHANGED <<file, phase, current, writer, noticed, watcher, changes>>

(* An editor truncates, damages, writes or replaces the file; removing it is an
   event the watcher passes over. *)
EditFile(f) ==
  /\ changes < MaxChanges
  /\ file' = f
  /\ FileEvent
  /\ changes' = changes + 1
  /\ UNCHANGED <<phase, current, writer, watcher, running, inForce>>

RemoveFile ==
  /\ changes < MaxChanges
  /\ file' = Missing
  /\ changes' = changes + 1
  /\ UNCHANGED <<phase, current, writer, noticed, watcher, running, inForce>>

(* The process ends, in the middle of an update or not. *)
Crash ==
  /\ phase # "down"
  /\ phase' = "down"
  /\ current' = ZeroConfig
  /\ writer' = NoWrite
  /\ noticed' = FALSE
  /\ watcher' = "idle"
  /\ running' = << >>
  /\ inForce' = Fresh
  /\ UNCHANGED <<file, changes>>

Next ==
  \/ Start \/ Serve \/ Crash
  \/ \E r \in Rules : CreateAccessRule(r)
  \/ \E r \in Rules : DeleteAccessRule(r)
  \/ \E v \in RateLimits : UpdateRateLimits(v)
  \/ FinishUpdate \/ FailUpdate
  \/ TakeEvent \/ Reload
  \/ \E i \in DOMAIN running : Deliver(i)
  \/ \E f \in Edits \union {Empty, Garbled} : EditFile(f)
  \/ RemoveFile

Spec == Init /\ [][Next]_vars

-------------------------------------------------------------------------------
(* The types: what is current is a whole configuration although files may be empty or
   damaged; a goroutine under way has calls left; nothing outlives the process. *)
TypeOK ==
  /\ file \in Configs \union {Empty, Garbled, Missing}
  /\ phase \in {"down", "loaded", "watching", "unwatched"}
  /\ current \in Configs
  /\ writer \in Configs \union {NoWrite}
  /\ running \in Seq([config : Configs, stage : 0 .. (Len(Stages) - 1)])
  /\ watcher \in {"idle", "reloading"} /\ (watcher = "reloading" => phase = "watching")
  /\ phase = "down" => running = << >> /\ writer = NoWrite
===============================================================================
