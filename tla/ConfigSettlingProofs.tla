------------------------- MODULE ConfigSettlingProofs -------------------------
(***************************************************************************)
(* Proofs about ConfigStore and the history ConfigSettling keeps of it.    *)
(* The argument for what is in force: for every part, either its service   *)
(* refuses the current value, or the newest goroutine has the current      *)
(* configuration and has yet to deliver the part, or the part is as it     *)
(* should be and every goroutine that has yet to deliver it is known to    *)
(* be behind.                                                              *)
(***************************************************************************)
EXTENDS ConfigSettling, SequenceTheorems, TLAPS

allVars == <<vars, history>>

Deliveries == [config : Configs, stage : 0 .. 4]

LEMMA StageFacts ==
  /\ Len(Stages) = 5 /\ DOMAIN Stages = 1 .. 5
  /\ \A i \in 1 .. 5 : Stages[i] \subseteq Parts
  /\ \A p, i, j : i \in 1 .. 5 /\ j \in 1 .. 5 /\ p \in Stages[i] /\ p \in Stages[j] => i = j
  <1>1. Len(Stages) = 5 /\ DOMAIN Stages = 1 .. 5
    BY DEF Stages
  <1>2. \A i \in 1 .. 5 : Stages[i] \subseteq Parts
    BY <1>1 DEF Parts
  <1>3. \A p, i, j : i \in 1 .. 5 /\ j \in 1 .. 5 /\ p \in Stages[i] /\ p \in Stages[j] => i = j
    <2>1. /\ Stages[1] = {"level"} /\ Stages[2] = {"maxLogs", "maxBuckets"}
          /\ Stages[3] = {"access"} /\ Stages[4] = {"rateLimit"} /\ Stages[5] = {"cache"}
      BY DEF Stages
    <2> QED
      BY <2>1
  <1> QED
    BY <1>1, <1>2, <1>3

LEMMA StageOfPart ==
  ASSUME NEW p \in Parts
  PROVE  /\ StageOf(p) \in 1 .. 5 /\ p \in Stages[StageOf(p)]
         /\ \A i \in 1 .. 5 : p \in Stages[i] <=> i = StageOf(p)
  BY StageFacts DEF Parts, StageOf

LEMMA ConfigFacts ==
  /\ ZeroConfig \in Configs
  /\ \A c \in Configs : c \notin {Empty, Garbled, Missing, NoWrite}
  /\ \A c \in Configs, rules \in SUBSET Rules :
       /\ [c EXCEPT !.access = rules] \in Configs
       /\ [c EXCEPT !.access = rules].access = rules
  /\ \A c \in Configs, v \in RateLimits : [c EXCEPT !.rateLimit = v] \in Configs
  <1>1. ZeroConfig \in Configs
    BY ConfigAssumption DEF ZeroConfig, Configs
  <1>2. \A c \in Configs : c \notin {Empty, Garbled, Missing, NoWrite}
    <2>1. \A c \in Configs : DOMAIN c # {"content"}
      BY DEF Configs
    <2>2. \A f \in {Empty, Garbled, Missing, NoWrite} : DOMAIN f = {"content"}
      BY DEF Empty, Garbled, Missing, NoWrite
    <2> QED
      BY <2>1, <2>2
  <1>3. \A c \in Configs, rules \in SUBSET Rules :
          /\ [c EXCEPT !.access = rules] \in Configs
          /\ [c EXCEPT !.access = rules].access = rules
    BY DEF Configs
  <1>4. \A c \in Configs, v \in RateLimits : [c EXCEPT !.rateLimit = v] \in Configs
    BY ConfigAssumption DEF Configs
  <1> QED
    BY <1>1, <1>2, <1>3, <1>4

LEMMA FileFacts ==
  ASSUME NEW f \in Configs \union {Empty, Garbled, Missing}, Loads(f)
  PROVE  Loaded(f) \in Configs
  BY ConfigFacts DEF Loads, Loaded

(* A sequence without one of its elements *)
LEMMA Removed ==
  ASSUME NEW S, NEW s \in Seq(S), NEW i \in 1 .. Len(s)
  PROVE  /\ RemoveAt(s, i) \in Seq(S) /\ Len(RemoveAt(s, i)) = Len(s) - 1
         /\ \A j \in 1 .. Len(s) - 1 : RemoveAt(s, i)[j] = IF j < i THEN s[j] ELSE s[j + 1]
  <1> DEFINE a == SubSeq(s, 1, i - 1)
             b == SubSeq(s, i + 1, Len(s))
  <1>1. a \in Seq(S) /\ Len(a) = i - 1 /\ \A j \in 1 .. i - 1 : a[j] = s[j]
    OBVIOUS
  <1>2. b \in Seq(S) /\ Len(b) = Len(s) - i /\ \A j \in 1 .. Len(s) - i : b[j] = s[i + j]
    OBVIOUS
  <1>3. RemoveAt(s, i) = a \o b
    BY Zenon DEF RemoveAt
  <1> HIDE DEF a, b
  <1>4. /\ a \o b \in Seq(S) /\ Len(a \o b) = Len(a) + Len(b)
        /\ \A j \in 1 .. Len(a) + Len(b) :
             (a \o b)[j] = IF j <= Len(a) THEN a[j] ELSE b[j - Len(a)]
    BY <1>1, <1>2, ConcatProperties
  <1>5. ASSUME NEW j \in 1 .. Len(s) - 1
        PROVE  (a \o b)[j] = IF j < i THEN s[j] ELSE s[j + 1]
    <2>1. CASE j < i
      BY <1>1, <1>2, <1>4, <2>1
    <2>2. CASE ~(j < i)
      <3>1. j - Len(a) \in 1 .. Len(s) - i /\ i + (j - Len(a)) = j + 1
        BY <1>1, <2>2
      <3>2. (a \o b)[j] = b[j - Len(a)]
        BY <1>1, <1>2, <1>4, <2>2
      <3> QED
        BY <1>2, <2>2, <3>1, <3>2
    <2> QED
      BY <2>1, <2>2
  <1>6. Len(a \o b) = Len(s) - 1
    BY <1>1, <1>2, <1>4
  <1> QED
    BY <1>3, <1>4, <1>5, <1>6, Zenon

LEMMA TypeInit == Init => TypeOK
  <1> SUFFICES ASSUME Init PROVE TypeOK
    OBVIOUS
  <1>1. running \in Seq([config : Configs, stage : 0 .. (Len(Stages) - 1)])
    BY DEF Init
  <1> QED
    BY <1>1, ConfigAssumption, ConfigFacts DEF Init, TypeOK

LEMMA Advance ==
  ASSUME running \in Seq(Deliveries), NEW i \in DOMAIN running
  PROVE  Advanced(i) \in Seq(Deliveries)
  <1> USE StageFacts
  <1>1. CASE running[i].stage + 1 = 5
    <2>1. i \in 1 .. Len(running) /\ Advanced(i) = RemoveAt(running, i)
      BY <1>1 DEF Advanced
    <2> QED
      BY <2>1, Removed
  <1>2. CASE running[i].stage + 1 # 5
    <2> DEFINE e == [running[i] EXCEPT !.stage = @ + 1]
    <2>1. running[i] \in Deliveries
      OBVIOUS
    <2>2. e \in Deliveries
      BY <1>2, <2>1 DEF Deliveries
    <2>3. Advanced(i) = [running EXCEPT ![i] = e]
      BY <1>2 DEF Advanced
    <2> QED
      BY <2>2, <2>3, ExceptSeq
  <1> QED
    BY <1>1, <1>2

LEMMA TypeStep == TypeOK /\ [Next]_vars => TypeOK'
  <1> SUFFICES ASSUME TypeOK, [Next]_vars PROVE TypeOK'
    OBVIOUS
  <1> USE StageFacts, ConfigFacts
  <1>0. /\ file \in Configs \union {Empty, Garbled, Missing}
        /\ phase \in {"down", "loaded", "watching", "unwatched"}
        /\ current \in Configs /\ writer \in Configs \union {NoWrite}
        /\ running \in Seq(Deliveries)
        /\ phase = "down" => running = << >> /\ writer = NoWrite
        /\ watcher \in {"idle", "reloading"} /\ (watcher = "reloading" => phase = "watching")
    BY DEF TypeOK, Deliveries
  <1>a. ASSUME file' \in Configs \union {Empty, Garbled, Missing},
               phase' \in {"down", "loaded", "watching", "unwatched"},
               current' \in Configs, writer' \in Configs \union {NoWrite},
               running' \in Seq(Deliveries), watcher' \in {"idle", "reloading"},
               watcher' = "reloading" => phase' = "watching",
               phase' = "down" => running' = << >> /\ writer' = NoWrite
        PROVE  TypeOK'
    BY <1>a DEF TypeOK, Deliveries
  <1>b. \A c \in Configs : Append(running, [config |-> c, stage |-> 0]) \in Seq(Deliveries)
    BY <1>0 DEF Deliveries
  <1>1. CASE UNCHANGED vars
    BY <1>0, <1>a, <1>1 DEF vars
  <1>2. CASE Start
    <2> DEFINE f == IF file = Missing THEN Default ELSE file
    <2>1. f \in Configs \union {Empty, Garbled, Missing} /\ Loads(f)
      BY <1>0, <1>2, ConfigAssumption DEF Start
    <2>2. Loaded(f) \in Configs
      BY <2>1, FileFacts
    <2> QED
      BY <1>0, <1>2, <1>a, <2>1, <2>2 DEF Start
  <1>3. CASE Serve
    BY <1>0, <1>3, <1>a DEF Serve
  <1>4. CASE Crash
    <2>1. << >> \in Seq(Deliveries)
      OBVIOUS
    <2> QED
      BY <1>0, <1>4, <1>a, <2>1 DEF Crash
  <1>5. ASSUME NEW c \in Configs, BeginUpdate(c) PROVE TypeOK'
    BY <1>0, <1>5, <1>a DEF BeginUpdate, Serving
  <1>6. ASSUME NEW r \in Rules, CreateAccessRule(r) PROVE TypeOK'
    <2>1. current.access \union {r} \in SUBSET Rules
      BY <1>0 DEF Configs
    <2> QED
      BY <1>0, <1>5, <1>6, <2>1 DEF CreateAccessRule
  <1>7. ASSUME NEW r \in Rules, DeleteAccessRule(r) PROVE TypeOK'
    <2>1. current.access \ {r} \in SUBSET Rules
      BY <1>0 DEF Configs
    <2> QED
      BY <1>0, <1>5, <1>7, <2>1 DEF DeleteAccessRule
  <1>8. ASSUME NEW v \in RateLimits, UpdateRateLimits(v) PROVE TypeOK'
    BY <1>0, <1>5, <1>8 DEF UpdateRateLimits
  <1>9. CASE FinishUpdate
    <2>1. writer \in Configs /\ phase # "down"
      BY <1>0, <1>9 DEF FinishUpdate
    <2> QED
      BY <1>0, <1>9, <1>a, <1>b, <2>1 DEF FinishUpdate, Broadcast
  <1>10. CASE FailUpdate
    BY <1>0, <1>10, <1>a DEF FailUpdate
  <1>11. CASE TakeEvent
    BY <1>0, <1>11, <1>a DEF TakeEvent
  <1>12. CASE Reload
    BY <1>0, <1>12, <1>a, <1>b, FileFacts DEF Reload, Broadcast
  <1>13. ASSUME NEW i \in DOMAIN running, Deliver(i) PROVE TypeOK'
    <2>1. phase # "down"
      BY <1>0, <1>13
    <2> QED
      BY <1>0, <1>13, <1>a, <2>1, Advance DEF Deliver
  <1>14. ASSUME NEW f \in Edits \union {Empty, Garbled}, EditFile(f) PROVE TypeOK'
    BY <1>0, <1>14, <1>a, ConfigAssumption DEF EditFile
  <1>15. CASE RemoveFile
    BY <1>0, <1>15, <1>a DEF RemoveFile
  <1> QED
    BY <1>1, <1>2, <1>3, <1>4, <1>6, <1>7, <1>8, <1>9, <1>10, <1>11, <1>12, <1>13, <1>14,
       <1>15 DEF Next

LEMMA StoreStep == [SettlingNext]_allVars => [Next]_vars
  BY DEF SettlingNext, Starting, Crashing, Requesting, Finishing, Failing, Reloading,
         Delivering, Editing, Next, allVars

(* What is current is a whole configuration, and a goroutine under way has calls left,
   whatever the file holds and whenever the process ends. *)
THEOREM TypeCorrect == SettlingSpec => []TypeOK
  <1>1. SettlingInit => TypeOK
    BY TypeInit DEF SettlingInit
  <1>2. TypeOK /\ [SettlingNext]_allVars => TypeOK'
    BY TypeStep, StoreStep
  <1> QED
    BY <1>1, <1>2, PTL DEF SettlingSpec, allVars

-------------------------------------------------------------------------------
(* Rules that were confirmed are in the file, too, unless it is being written. *)
FileHolds ==
  writer = NoWrite /\ acked # {} => Loads(file) /\ acked \subseteq Loaded(file).access

RulesInv == FileHolds /\ CreatedRulesStay

LEMMA RulesInit == SettlingInit => RulesInv
  BY DEF SettlingInit, Init, InitHistory, RulesInv, FileHolds, CreatedRulesStay

LEMMA RulesStep == TypeOK /\ RulesInv /\ [SettlingNext]_allVars => RulesInv'
  <1> SUFFICES ASSUME TypeOK, RulesInv, [SettlingNext]_allVars PROVE RulesInv'
    OBVIOUS
  <1> USE DEF RulesInv, FileHolds, CreatedRulesStay
  <1>0. writer \in Configs \union {NoWrite} /\ (phase = "down" => writer = NoWrite)
    BY DEF TypeOK
  <1>1. CASE acked' = {}
    BY <1>1
  <1>2. CASE UNCHANGED <<file, phase, current, writer, acked>>
    BY <1>2 DEF Loads, Loaded
  <1>3. CASE Starting
    <2>1. acked' = acked /\ writer' = writer
      BY <1>3 DEF Starting, Start
    <2>2. CASE acked # {}
      <3>1. Loads(file) /\ acked \subseteq Loaded(file).access /\ file # Missing
        BY <1>0, <1>3, <2>2 DEF Starting, Start, Loads
      <3>2. file' = file /\ current' = Loaded(file)
        BY <1>3, <3>1 DEF Starting, Start
      <3> QED
        BY <2>1, <3>1, <3>2 DEF Loads, Loaded
    <2> QED
      BY <1>1, <2>1, <2>2
  <1>4. CASE Crashing
    BY <1>4, <1>1 DEF Crashing, Crash, Loads, Loaded
  <1>5. CASE Requesting
    <2>1. PICK c \in Configs : BeginUpdate(c) /\ acked' = acked
      <3>1. /\ current \in Configs
            /\ \A r \in Rules :
                 {current.access \union {r}, current.access \ {r}} \subseteq SUBSET Rules
        BY DEF TypeOK, Configs
      <3> QED
        BY <1>5, <3>1, ConfigFacts
        DEF Requesting, CreateAccessRule, DeleteAccessRule, UpdateRateLimits, history
    <2> QED
      BY <2>1, ConfigFacts DEF BeginUpdate
  <1>6. CASE Finishing
    <2>1. CASE file' = writer
      <3>1. writer \in Configs /\ writer' = NoWrite /\ current' = writer
        BY <1>0, <1>6 DEF Finishing, FinishUpdate
      <3>2. Loads(writer) /\ Loaded(writer) = writer
        BY <3>1, ConfigFacts DEF Loads, Loaded
      <3>3. acked' \subseteq writer.access
        BY <1>6, <2>1 DEF Finishing
      <3> QED
        BY <2>1, <3>1, <3>2, <3>3 DEF Loads, Loaded
    <2> QED
      BY <1>1, <1>6, <2>1 DEF Finishing
  <1>7. CASE Reloading
    <2>1. /\ UNCHANGED <<file, phase, writer, acked>> /\ writer = NoWrite
          /\ current' = IF Loads(file) THEN Loaded(file) ELSE current
      BY <1>7 DEF Reloading, Reload
    <2> QED
      BY <1>1, <2>1 DEF Loads, Loaded
  <1>8. CASE Failing \/ Editing
    BY <1>1, <1>8 DEF Failing, Editing
  <1>9. CASE Serve /\ UNCHANGED history
    BY <1>0, <1>9 DEF Serve, history, Loads, Loaded
  <1> QED
    BY <1>2, <1>3, <1>4, <1>5, <1>6, <1>7, <1>8, <1>9
    DEF SettlingNext, allVars, vars, history, TakeEvent, Delivering, Deliver

(* A confirmed rule stays in the configuration through updates, reloads, failed writes
   of others and restarts. *)
THEOREM RulesCorrect == SettlingSpec => []CreatedRulesStay
  <1>1. RulesInv => CreatedRulesStay
    BY DEF RulesInv
  <1> QED
    BY <1>1, RulesInit, RulesStep, TypeCorrect, PTL DEF SettlingSpec, allVars

-------------------------------------------------------------------------------
BehindOK == behind \in Seq(SUBSET Parts) /\ Len(behind) = Len(running)

Newest == running[Len(running)]

(* The newest goroutine has the current configuration, and the part yet to deliver. *)
Coming(p) ==
  running # << >> /\ Newest.config = current /\ Newest.stage < StageOf(p)

Settled(p) ==
  /\ inForce[p] = current[p] \/ p \in stale
  /\ \A j \in DOMAIN running : running[j].stage < StageOf(p) => p \in behind[j]

ForceInv ==
  /\ BehindOK
  /\ phase # "down" =>
       \A p \in Parts : ~Usable(p, current) \/ Coming(p) \/ Settled(p)

LEMMA ForceInit == SettlingInit => ForceInv
  <1> SUFFICES ASSUME SettlingInit PROVE ForceInv
    OBVIOUS
  <1>1. BehindOK
    BY DEF SettlingInit, Init, InitHistory, BehindOK
  <1> QED
    BY <1>1 DEF SettlingInit, Init, ForceInv

(* What goroutine i marks in the others *)
Taking(i) == {p \in Stages[running[i].stage + 1] : Usable(p, running[i].config)}

Marked(i) ==
  [j \in DOMAIN behind |->
     IF j < i /\ running[j].stage <= running[i].stage
     THEN behind[j] \union Taking(i) ELSE behind[j]]

(* The goroutines after a call of goroutine i are the old ones, but for i's progress. *)
LEMMA DeliveryStep ==
  ASSUME TypeOK, BehindOK, NEW i \in DOMAIN running, Delivering(i)
  PROVE  /\ BehindOK'
         /\ \A j \in DOMAIN running' : \E k \in DOMAIN running :
              /\ running'[j].stage = running[k].stage + (IF k = i THEN 1 ELSE 0)
              /\ behind'[j] = Marked(i)[k]
         /\ \A p \in Parts :
              Coming(p) /\ (i = Len(running) => running[i].stage + 1 < StageOf(p)) => Coming(p)'
  <1> DEFINE n == Len(running)
             e == [running[i] EXCEPT !.stage = @ + 1]
  <1>0. /\ running \in Seq(Deliveries) /\ n \in Nat /\ i \in 1 .. n /\ DOMAIN running = 1 .. n
        /\ behind \in Seq(SUBSET Parts) /\ Len(behind) = n /\ DOMAIN behind = 1 .. n
    BY StageFacts DEF TypeOK, BehindOK, Deliveries
  <1>1. /\ \A k \in 1 .. n : running[k] \in Deliveries
        /\ e \in [config : Configs, stage : Nat] /\ e.config = running[i].config
        /\ e.stage = running[i].stage + 1
    <2>1. \A k \in 1 .. n : running[k] \in Deliveries
      BY <1>0
    <2>2. running[i] \in [config : Configs, stage : Nat]
      BY <1>0, <2>1 DEF Deliveries
    <2> QED
      BY <2>1, <2>2
  <1>2. /\ Marked(i) \in Seq(SUBSET Parts) /\ Len(Marked(i)) = n
        /\ DOMAIN Marked(i) = 1 .. n
    <2>1. Taking(i) \subseteq Parts
      BY <1>0, <1>1, StageFacts DEF Taking, Deliveries
    <2>2. Marked(i) \in [1 .. n -> SUBSET Parts]
      BY <1>0, <2>1 DEF Marked
    <2> QED
      BY <1>0, <2>2
  <1>3. /\ running' = Advanced(i) /\ current' = current
        /\ behind' = IF Len(running') < n THEN RemoveAt(Marked(i), i) ELSE Marked(i)
    <2>1. running' = Advanced(i) /\ current' = current
      BY DEF Delivering, Deliver
    <2>2. behind' = IF Len(running') < Len(running) THEN RemoveAt(Marked(i), i)
                    ELSE Marked(i)
      BY Zenon DEF Delivering, Marked, Taking
    <2> QED
      BY <2>1, <2>2
  <1>4. CASE e.stage = 5
    <2>1. running' = RemoveAt(running, i)
      BY <1>1, <1>3, <1>4, StageFacts DEF Advanced
    <2>2. /\ running' \in Seq(Deliveries) /\ Len(running') = n - 1
          /\ \A j \in 1 .. n - 1 : running'[j] = IF j < i THEN running[j] ELSE running[j + 1]
      BY <1>0, <2>1, Removed
    <2>3. behind' = RemoveAt(Marked(i), i)
      BY <1>0, <1>3, <2>2
    <2>4. /\ behind' \in Seq(SUBSET Parts) /\ Len(behind') = n - 1
          /\ \A j \in 1 .. n - 1 :
               behind'[j] = IF j < i THEN Marked(i)[j] ELSE Marked(i)[j + 1]
      <3> DEFINE m == Marked(i)
      <3>1. m \in Seq(SUBSET Parts) /\ Len(m) = n /\ i \in 1 .. Len(m)
        BY <1>0, <1>2
      <3>2. behind' = RemoveAt(m, i)
        BY <2>3
      <3> HIDE DEF m
      <3>3. /\ behind' \in Seq(SUBSET Parts) /\ Len(behind') = n - 1
            /\ \A j \in 1 .. n - 1 : behind'[j] = IF j < i THEN m[j] ELSE m[j + 1]
        BY <3>1, <3>2, Removed
      <3> QED
        BY <3>3 DEF m
    <2>5. ASSUME NEW j \in DOMAIN running'
          PROVE  \E k \in DOMAIN running :
                   /\ running'[j].stage = running[k].stage + (IF k = i THEN 1 ELSE 0)
                   /\ behind'[j] = Marked(i)[k]
      <3> DEFINE k == IF j < i THEN j ELSE j + 1
      <3>1. j \in 1 .. n - 1
        BY <1>0, <2>2
      <3>2. k \in 1 .. n /\ k # i /\ running'[j] = running[k] /\ behind'[j] = Marked(i)[k]
        BY <1>0, <2>2, <2>4, <3>1
      <3>3. running[k].stage \in Nat
        BY <1>1, <3>2 DEF Deliveries
      <3> HIDE DEF k
      <3> QED
        BY <1>0, <3>2, <3>3
    <2>6. ASSUME NEW p \in Parts, Coming(p),
                 i = Len(running) => running[i].stage + 1 < StageOf(p)
          PROVE  Coming(p)'
      <3>1. i < n
        BY <1>0, <1>1, <1>4, <2>6, StageOfPart
      <3>2. running'[n - 1] = running[n] /\ running' # << >>
        BY <1>0, <2>2, <3>1
      <3> QED
        BY <1>3, <2>2, <2>6, <3>2 DEF Coming, Newest
    <2> QED
      BY <2>2, <2>4, <2>5, <2>6 DEF BehindOK
  <1>5. CASE e.stage # 5
    <2>1. running' = [running EXCEPT ![i] = e]
      BY <1>0, <1>1, <1>3, <1>5, StageFacts DEF Advanced
    <2>1a. e \in Deliveries
      <3>1. running[i] \in Deliveries /\ running[i].stage + 1 # 5
        BY <1>0, <1>1, <1>5
      <3> QED
        BY <3>1 DEF Deliveries
    <2>2. /\ running' \in Seq(Deliveries) /\ Len(running') = n /\ DOMAIN running' = 1 .. n
          /\ \A j \in 1 .. n : running'[j] = IF j = i THEN e ELSE running[j]
      BY <1>0, <2>1, <2>1a, ExceptSeq
    <2>3. behind' = Marked(i)
      BY <1>0, <1>3, <2>2
    <2>4. ASSUME NEW j \in DOMAIN running'
          PROVE  \E k \in DOMAIN running :
                   /\ running'[j].stage = running[k].stage + (IF k = i THEN 1 ELSE 0)
                   /\ behind'[j] = Marked(i)[k]
      <3>1. j \in 1 .. n /\ behind'[j] = Marked(i)[j]
        BY <2>2, <2>3
      <3>2. running[j].stage \in Nat
        BY <1>1, <3>1 DEF Deliveries
      <3>3. running'[j].stage = running[j].stage + (IF j = i THEN 1 ELSE 0)
        BY <1>1, <2>2, <3>1, <3>2
      <3> QED
        BY <1>0, <3>1, <3>3
    <2>5. ASSUME NEW p \in Parts, Coming(p),
                 i = Len(running) => running[i].stage + 1 < StageOf(p)
          PROVE  Coming(p)'
      BY <1>0, <1>1, <1>3, <2>2, <2>5 DEF Coming, Newest
    <2> QED
      BY <1>2, <2>2, <2>3, <2>4, <2>5 DEF BehindOK
  <1> QED
    BY <1>4, <1>5

LEMMA DeliveryForce ==
  ASSUME TypeOK, ForceInv, NEW i \in DOMAIN running, Delivering(i)
  PROVE  ForceInv'
  <1> DEFINE c == running[i].config
             s == running[i].stage
  <1>0. /\ i \in 1 .. Len(running) /\ DOMAIN running = 1 .. Len(running)
        /\ \A k \in DOMAIN running : running[k].stage \in 0 .. 4
        /\ BehindOK /\ DOMAIN behind = DOMAIN running /\ phase # "down"
    <2>1. running \in Seq(Deliveries) /\ (phase = "down" => running = << >>)
      BY StageFacts DEF TypeOK, Deliveries
    <2>2. \A k \in DOMAIN running : running[k] \in Deliveries
      BY <2>1
    <2> QED
      BY <2>1, <2>2 DEF Deliveries, ForceInv, BehindOK
  <1>1. /\ phase' = phase /\ current' = current
        /\ \A p \in Parts : inForce'[p] = IF p \in Stages[s + 1] THEN Taken(p, c, inForce[p])
                                        ELSE inForce[p]
    BY DEF Delivering, Deliver
  <1>2. stale' = (stale \ Taking(i)) \union (Taking(i) \intersect behind[i])
    BY Zenon DEF Delivering, Taking
  <1>3. ASSUME NEW p \in Parts, Settled(p) PROVE Settled(p)'
    <2>1. inForce'[p] = current'[p] \/ p \in stale'
      <3>1. CASE p \in Taking(i)
        <4>1. s < StageOf(p)
          BY <1>0, <3>1, StageOfPart DEF Taking
        <4> QED
          BY <1>2, <1>3, <3>1, <4>1 DEF Settled
      <3>2. CASE p \notin Taking(i)
        <4>1. inForce'[p] = inForce[p]
          BY <1>1, <3>2 DEF Taking, Taken
        <4> QED
          BY <1>1, <1>2, <1>3, <3>2, <4>1 DEF Settled
      <3> QED
        BY <3>1, <3>2
    <2>2. ASSUME NEW j \in DOMAIN running', running'[j].stage < StageOf(p)
          PROVE  p \in behind'[j]
      <3>1. PICK k \in DOMAIN running :
              /\ running'[j].stage = running[k].stage + (IF k = i THEN 1 ELSE 0)
              /\ behind'[j] = Marked(i)[k]
        BY <1>0, DeliveryStep
      <3>2. running[k].stage < StageOf(p)
        BY <1>0, <2>2, <3>1, StageOfPart
      <3>3. p \in behind[k]
        BY <1>3, <3>2 DEF Settled
      <3> QED
        BY <1>0, <3>1, <3>3 DEF Marked
    <2> QED
      BY <2>1, <2>2 DEF Settled
  <1>4. ASSUME NEW p \in Parts, Usable(p, current), Coming(p) PROVE Coming(p)' \/ Settled(p)'
    <2>1. CASE i = Len(running) => s + 1 < StageOf(p)
      BY <1>0, <1>4, <2>1, DeliveryStep
    <2>2. CASE i = Len(running) /\ ~(s + 1 < StageOf(p))
      <3>1. s + 1 = StageOf(p) /\ c = current /\ p \in Stages[s + 1]
        BY <1>0, <1>4, <2>2, StageOfPart DEF Coming, Newest
      <3>2. p \in Taking(i) /\ inForce'[p] = current'[p]
        BY <1>1, <1>4, <3>1 DEF Taking, Taken
      <3>3. ASSUME NEW j \in DOMAIN running', running'[j].stage < StageOf(p)
            PROVE  p \in behind'[j]
        <4>1. PICK k \in DOMAIN running :
                /\ running'[j].stage = running[k].stage + (IF k = i THEN 1 ELSE 0)
                /\ behind'[j] = Marked(i)[k]
          BY <1>0, DeliveryStep
        <4>2. k < i /\ running[k].stage <= s
          BY <1>0, <2>2, <3>1, <3>3, <4>1
        <4> QED
          BY <1>0, <3>2, <4>1, <4>2 DEF Marked
      <3> QED
        BY <3>2, <3>3 DEF Settled
    <2> QED
      BY <2>1, <2>2
  <1>5. BehindOK'
    BY <1>0, DeliveryStep
  <1>6. \A p \in Parts : Usable(p, current)' <=> Usable(p, current)
    BY <1>1 DEF Usable
  <1> QED
    BY <1>0, <1>3, <1>4, <1>5, <1>6 DEF ForceInv

(* A goroutine is started for what has become current. *)
LEMMA BroadcastForce ==
  ASSUME TypeOK, ForceInv, NEW c \in Configs, current' = c, Broadcast(c),
         behind' = Append(behind, {})
  PROVE  ForceInv'
  <1>1. /\ running \in Seq(Deliveries) /\ [config |-> c, stage |-> 0] \in Deliveries
        /\ behind \in Seq(SUBSET Parts) /\ Len(behind) = Len(running)
    BY StageFacts DEF TypeOK, ForceInv, BehindOK, Deliveries
  <1>2. /\ Len(running') = Len(running) + 1
        /\ running'[Len(running')] = [config |-> c, stage |-> 0] /\ running' # << >>
    BY <1>1 DEF Broadcast
  <1>3. BehindOK'
    BY <1>1, <1>2 DEF BehindOK
  <1>4. \A p \in Parts : Coming(p)'
    BY <1>2, StageOfPart DEF Coming, Newest
  <1> QED
    BY <1>3, <1>4 DEF ForceInv

LEMMA SameForce ==
  ASSUME ForceInv, phase # "down", UNCHANGED <<current, running, behind, inForce, stale>>
  PROVE  ForceInv'
  BY DEF ForceInv, BehindOK, Coming, Newest, Settled, Usable

LEMMA ForceStep == TypeOK /\ ForceInv /\ [SettlingNext]_allVars => ForceInv'
  <1> SUFFICES ASSUME TypeOK, ForceInv, [SettlingNext]_allVars PROVE ForceInv'
    OBVIOUS
  <1>0. phase = "down" => running = << >> /\ writer = NoWrite /\ watcher = "idle"
    BY DEF TypeOK
  <1>1. CASE phase = "down" /\ phase' = phase /\ UNCHANGED <<running, behind>>
    BY <1>1 DEF ForceInv, BehindOK
  <1>2. CASE Starting
    <2>1. /\ running = << >> /\ running' = running /\ behind' = behind
          /\ \A p \in Parts : inForce'[p] = Taken(p, current', Fresh[p])
      BY <1>0, <1>2, Zenon DEF Starting, Start
    <2>2. \A p \in Parts : Usable(p, current)' => Settled(p)'
      BY <2>1 DEF Settled, Taken, Usable
    <2> QED
      BY <2>1, <2>2 DEF ForceInv, BehindOK
  <1>3. CASE Crashing
    <2>1. running' = << >> /\ behind' = << >> /\ phase' = "down"
      BY <1>3 DEF Crashing, Crash
    <2> QED
      BY <2>1 DEF ForceInv, BehindOK
  <1>4. CASE Finishing
    <2>1. writer \in Configs
      BY <1>4 DEF Finishing, FinishUpdate, TypeOK
    <2> QED
      BY <1>4, <2>1, BroadcastForce DEF Finishing, FinishUpdate
  <1>5. CASE Reloading
    <2>1. phase # "down"
      BY <1>0, <1>5 DEF Reloading, Reload
    <2>2. running \in Seq(Deliveries)
      BY StageFacts DEF TypeOK, Deliveries
    <2>3. CASE Loads(file)
      <3>1. Loaded(file) \in Configs
        BY <2>3, FileFacts DEF TypeOK
      <3>2. Broadcast(Loaded(file)) /\ current' = Loaded(file)
        BY <1>5, <2>3 DEF Reloading, Reload
      <3>3. Len(running') > Len(running)
        BY <2>2, <3>1, <3>2 DEF Broadcast, Deliveries
      <3> QED
        BY <1>5, <3>1, <3>2, <3>3, BroadcastForce DEF Reloading
    <2>4. CASE ~Loads(file)
      BY <1>5, <2>1, <2>2, <2>4, SameForce DEF Reloading, Reload
    <2> QED
      BY <2>3, <2>4
  <1>6. ASSUME NEW i \in DOMAIN running, Delivering(i) PROVE ForceInv'
    BY <1>6, DeliveryForce
  <1>7. CASE Requesting \/ Failing \/ Editing
    <2>1. UNCHANGED <<phase, current, running, behind, inForce, stale>>
      BY <1>7 DEF Requesting, CreateAccessRule, DeleteAccessRule, UpdateRateLimits,
                  BeginUpdate, Failing, FailUpdate, Editing, EditFile, RemoveFile, history
    <2> QED
      BY <1>1, <2>1, SameForce
  <1>8. CASE Serve /\ UNCHANGED history
    BY <1>8, SameForce DEF Serve, history
  <1>9. CASE (TakeEvent /\ UNCHANGED history) \/ UNCHANGED allVars
    BY <1>1, <1>9, SameForce DEF TakeEvent, allVars, vars, history
  <1> QED
    BY <1>2, <1>3, <1>4, <1>5, <1>6, <1>7, <1>8, <1>9 DEF SettlingNext

(* What is in force agrees with the current configuration, part by part, as soon as
   every goroutine under way has delivered the part, but for what a service refuses and
   what an older goroutine has delivered last. *)
THEOREM AgreementCorrect == SettlingSpec => []AgreeWhenSettled
  <1>1. TypeOK /\ ForceInv => AgreeWhenSettled
    <2> SUFFICES ASSUME TypeOK, ForceInv, Serving, NEW p \in Parts,
                        \A j \in DOMAIN running : running[j].stage >= StageOf(p)
                 PROVE  InForceAs(p, current)
      BY DEF AgreeWhenSettled
    <2>1. running \in Seq(Deliveries)
      BY StageFacts DEF TypeOK, Deliveries
    <2>2. ~Coming(p)
      <3> SUFFICES ASSUME running # << >> PROVE ~(Newest.stage < StageOf(p))
        BY DEF Coming
      <3>1. Len(running) \in DOMAIN running
        BY <2>1
      <3>2. running[Len(running)] \in Deliveries
        BY <2>1, <3>1
      <3> QED
        BY <3>1, <3>2, StageOfPart DEF Newest, Deliveries
    <2> QED
      BY <2>2 DEF ForceInv, Settled, InForceAs, Serving
  <1> QED
    BY <1>1, ForceInit, ForceStep, TypeCorrect, PTL DEF SettlingSpec, allVars
===============================================================================
