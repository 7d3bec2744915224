---------------------------- MODULE ConfigSettling ----------------------------
(***************************************************************************)
(* What becomes of an edit of the configuration file, or of a rule created *)
(* through the API, in ConfigStore.  The history variables record, beside  *)
(* the state of the program, why a value may not be what the file says.    *)
(***************************************************************************)
EXTENDS ConfigStore, FiniteSets

VARIABLES
  missed,  \* whether the file has changed between Start and Serve, and not since
  acked,   \* rules whose creation the API has confirmed and nothing has undone
  behind,  \* for each of running, the parts a newer goroutine has delivered
  stale    \* parts last delivered by a goroutine that was behind

history == <<missed, acked, behind, stale>>

InitHistory == missed = FALSE /\ acked = {} /\ behind = << >> /\ stale = {}

(* The actions of ConfigStore, each with what it does to the history *)
Starting == Start /\ missed' = FALSE /\ stale' = {} /\ UNCHANGED <<acked, behind>>

Crashing ==
  /\ Crash
  /\ acked' = IF writer = NoWrite THEN acked ELSE {}
  /\ missed' = FALSE /\ behind' = << >> /\ stale' = {}

Requesting ==
  /\ \/ \E r \in Rules : CreateAccessRule(r) \/ DeleteAccessRule(r)
     \/ \E v \in RateLimits : UpdateRateLimits(v)
  /\ UNCHANGED history

Finishing ==
  /\ FinishUpdate
  /\ acked' = IF file' = writer
              THEN (acked \union (writer.access \ current.access)) \intersect writer.access
              ELSE {}
  /\ missed' = FALSE
  /\ behind' = Append(behind, {}) /\ UNCHANGED stale

Failing == FailUpdate /\ acked' = {} /\ missed' = FALSE /\ UNCHANGED <<behind, stale>>

Reloading ==
  /\ Reload
  /\ behind' = IF Len(running') > Len(running) THEN Append(behind, {}) ELSE behind
  /\ UNCHANGED <<missed, acked, stale>>

(* Goroutine i makes its next call: it is late for the parts a newer one has
   delivered, and older ones that have yet to make this call become late for it. *)
Delivering(i) ==
  LET c == running[i].config
      taken == {p \in Stages[running[i].stage + 1] : Usable(p, c)}
      marked == [j \in DOMAIN behind |->
                   IF j < i /\ running[j].stage <= running[i].stage
                   THEN behind[j] \union taken ELSE behind[j]]
  IN /\ Deliver(i)
     /\ behind' = IF Len(running') < Len(running) THEN RemoveAt(marked, i) ELSE marked
     /\ stale' = (stale \ taken) \union (taken \intersect behind[i])
     /\ UNCHANGED <<missed, acked>>

Editing ==
  /\ \/ \E f \in Edits \union {Empty, Garbled} : EditFile(f) /\ missed' = ~Serving
     \/ RemoveFile /\ UNCHANGED missed
  /\ acked' = {} /\ UNCHANGED <<behind, stale>>

SettlingInit == Init /\ InitHistory

SettlingNext ==
  \/ Starting \/ Crashing \/ Requesting \/ Finishing \/ Failing \/ Reloading \/ Editing
  \/ Serve /\ UNCHANGED history
  \/ TakeEvent /\ UNCHANGED history
  \/ \E i \in DOMAIN running : Delivering(i)

(* Nothing is fair but the process itself: a write comes to an end, the mutex is
   handed to whoever waits for it, and goroutines run. *)
Fairness ==
  /\ WF_<<vars, history>>(Finishing \/ Failing)
  /\ WF_<<vars, history>>(TakeEvent /\ UNCHANGED history)
  /\ WF_<<vars, history>>(Reloading)
  /\ WF_<<vars, history>>(\E i \in DOMAIN running : Delivering(i))

SettlingSpec == SettlingInit /\ [][SettlingNext]_<<vars, history>> /\ Fairness

-------------------------------------------------------------------------------
InForceAs(p, c) == inForce[p] = c[p] \/ ~Usable(p, c) \/ p \in stale

(* A part that every goroutine under way has delivered is in force as the current
   configuration has it, unless its service refuses it or an older goroutine has
   delivered it last: one refused part, of the present or of an earlier
   configuration, keeps none of the others back. *)
AgreeWhenSettled ==
  Serving =>
    \A p \in Parts :
      (\A j \in DOMAIN running : running[j].stage >= StageOf(p)) => InForceAs(p, current)

(* A rule whose creation was confirmed is in the configuration, through other
   updates, reloads and restarts, until it is deleted, somebody edits the file, or
   a later write of the file is cut short. *)
CreatedRulesStay == phase # "down" => acked \subseteq current.access

(* A configuration an editor leaves in the file reaches memory and then every
   service, unless the file changes again, the process ends, a service refuses its
   part or is given an older one last, or the edit came before the watcher. *)
EditsTakeEffect ==
  \A f \in Edits :
    (file = f /\ phase = "watching" /\ ~missed)
      ~> \/ file # f \/ phase # "watching"
         \/ current = f /\ \A p \in Parts : InForceAs(p, f)
===============================================================================
