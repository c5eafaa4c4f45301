---------------------------- MODULE DeletionSync ----------------------------
(***************************************************************************)
(* How an agent that was offline learns of deletions: DeleteFile records   *)
(* them with the second of the day (server/api/download.go:233-236),       *)
(* GetDeletions returns those later than a time the agent names            *)
(* (server/api/sync.go), and the agent's sync goroutine carries them out,  *)
(* remembers the latest second it has seen, and keeps it in config.json    *)
(* (agent/main.go:85-132).                                                 *)
(*                                                                         *)
(* One agent; agents share nothing here.  A deletion is the delete request *)
(* that records it.  Times are whole seconds, as RFC 3339 writes them, and *)
(* the server and the agent write the same zone, not east of UTC: the      *)
(* agent does not escape a "+", and the server would refuse its requests.  *)
(***************************************************************************)
EXTENDS Integers, FiniteSets

CONSTANTS
  Deletions,  \* the delete requests that get as far as recording
  Window,     \* how far a fresh agent looks back: 24 hours in the code
  MaxTime,    \* bound: the last second of the run
  MaxFaults,  \* bound: crashes of the agent, and writes of config.json that fail
  Never       \* no time: not stamped, or no readable config.json

ASSUME BoundsAssumption ==
  /\ Window \in Nat \ {0}
  /\ MaxTime \in Nat
  /\ MaxFaults \in Nat
  /\ Never \notin Int

VARIABLES
  clock,     \* the second it is
  stamp,     \* the deleted_at each request has taken from the clock
  recorded,  \* the requests whose row is in deleted_files
  loop,      \* where the agent's sync goroutine is
  lastSync,  \* its lastSync
  batch,     \* the events of the answer it has still to carry out
  config,    \* the last_sync in config.json
  removed,   \* history: the deletions whose chunks it has removed
  late,      \* history: the deletions that came too late for it
  faults     \* crashes and failed writes so far

serverVars == <<clock, stamp, recorded>>
agentVars == <<loop, lastSync, batch, config, removed, faults>>
vars == <<serverVars, agentVars, late>>

Times == 0..MaxTime

Stamped == {x \in Deletions : stamp[x] # Never}

TypeOK ==
  /\ clock \in Times
  /\ stamp \in [Deletions -> Times \cup {Never}]
  /\ recorded \subseteq Stamped
  /\ loop \in {"off", "fetch", "process", "wait"}
  /\ lastSync \in -Window..MaxTime
  /\ batch \subseteq recorded
  /\ config \in Times \cup {Never}
  /\ removed \subseteq recorded
  /\ late \subseteq Stamped
  /\ faults \in 0..MaxFaults

Init ==
  /\ clock = 0
  /\ stamp = [x \in Deletions |-> Never]
  /\ recorded = {}
  /\ loop = "off"
  /\ lastSync = -Window
  /\ batch = {}
  /\ config = Never
  /\ removed = {}
  /\ late = {}
  /\ faults = 0

-----------------------------------------------------------------------------
(* The server.                                                             *)

Tick ==
  /\ clock < MaxTime
  /\ clock' = clock + 1
  /\ UNCHANGED <<stamp, recorded, agentVars, late>>

\* DeleteFile takes the time for its row...
Stamp(x) ==
  /\ stamp[x] = Never
  /\ stamp' = [stamp EXCEPT ![x] = clock]
  /\ UNCHANGED <<clock, recorded, agentVars, late>>

\* ...and the row is there for others when the insert has committed.  It comes
\* too late for an agent that was already told of one of the same or a later second.
Record(x) ==
  /\ stamp[x] # Never
  /\ x \notin recorded
  /\ recorded' = recorded \cup {x}
  /\ late' = late \cup {z \in {x} : \E y \in removed \cup batch : stamp[y] >= stamp[x]}
  /\ UNCHANGED <<clock, stamp, agentVars>>

\* A query that returns what was recorded up to a time, not since.
DeletionsUpTo(t) == {x \in recorded : stamp[x] <= t}

\* A query that sees a row before its insert has committed.
DeletionsSinceDirty(t) == {x \in Stamped : stamp[x] > t}

\* GetDeletions: deleted_at > since.
DeletionsSince(t) == {x \in recorded : stamp[x] > t}

-----------------------------------------------------------------------------
(* The agent.                                                              *)

\* Started: from config.json, or from a day ago, and then it was away for too
\* long for what is older.
AgentStart ==
  /\ loop = "off"
  /\ lastSync' = IF config = Never THEN clock - Window ELSE config
  /\ late' = late \cup {x \in Stamped : config = Never /\ stamp[x] <= clock - Window}
  /\ loop' = "fetch"
  /\ UNCHANGED <<serverVars, batch, config, removed, faults>>

Fetch ==
  /\ loop = "fetch"
  /\ batch' = DeletionsSince(lastSync)
  /\ loop' = IF batch' = {} THEN "wait" ELSE "process"
  /\ UNCHANGED <<serverVars, late, lastSync, config, removed, faults>>

FetchFails ==
  /\ loop = "fetch"
  /\ loop' = "wait"
  /\ UNCHANGED <<serverVars, late, lastSync, batch, config, removed, faults>>

\* lastSync is set before all of a batch has been carried out.
CarryOutPersisting(x) ==
  /\ loop = "process"
  /\ x \in batch
  /\ batch' = batch \ {x}
  /\ removed' = removed \cup {x}
  /\ lastSync' = IF stamp[x] > lastSync THEN stamp[x] ELSE lastSync
  /\ config' = lastSync'
  /\ UNCHANGED <<serverVars, late, loop, faults>>

\* One event: its chunks are removed, whatever DeleteChunk returns.
CarryOut(x) ==
  /\ loop = "process"
  /\ x \in batch
  /\ batch' = batch \ {x}
  /\ removed' = removed \cup {x}
  /\ lastSync' = IF stamp[x] > lastSync THEN stamp[x] ELSE lastSync
  /\ UNCHANGED <<serverVars, late, loop, config, faults>>

\* config.json is written after the last event.
Persist ==
  /\ loop = "process"
  /\ batch = {}
  /\ config' = lastSync
  /\ loop' = "wait"
  /\ UNCHANGED <<serverVars, late, lastSync, batch, removed, faults>>

\* The write fails, with nothing or a part of the file written, and nobody looks.
PersistFails ==
  /\ loop = "process"
  /\ batch = {}
  /\ faults < MaxFaults
  /\ faults' = faults + 1
  /\ config' \in {config, Never}
  /\ loop' = "wait"
  /\ UNCHANGED <<serverVars, late, lastSync, batch, removed>>

\* The ticker.
Wake ==
  /\ loop = "wait"
  /\ loop' = "fetch"
  /\ UNCHANGED <<serverVars, late, lastSync, batch, config, removed, faults>>

\* The agent stops anywhere; while it writes config.json that leaves a part of
\* it, which the next start cannot read.
Crash ==
  /\ loop # "off"
  /\ faults < MaxFaults
  /\ faults' = faults + 1
  /\ config' \in {config} \cup IF loop = "process" /\ batch = {} THEN {Never} ELSE {}
  /\ loop' = "off"
  /\ batch' = {}
  /\ UNCHANGED <<serverVars, late, lastSync, removed>>

AgentStep ==
  \/ AgentStart
  \/ Fetch
  \/ FetchFails
  \/ \E x \in Deletions : CarryOut(x)
  \/ Persist
  \/ PersistFails
  \/ Wake

Next ==
  \/ Tick
  \/ \E x \in Deletions : Stamp(x) \/ Record(x)
  \/ AgentStep
  \/ Crash

Spec == Init /\ [][Next]_vars

\* The agent is started again and its goroutine runs; a request that is made
\* over and over is answered some time; a delete that has come to its insert
\* makes it.  Nothing obliges anyone to delete, and the clock may stop.
FairSpec ==
  /\ Spec
  /\ WF_vars(AgentStep)
  /\ SF_vars(Fetch)
  /\ \A x \in Deletions : WF_vars(Record(x))

-----------------------------------------------------------------------------
(* Properties.                                                             *)

\* What config.json says was synced has been carried out, but for deletions that
\* came too late: a crash between the removals and the write of the file, or in
\* the middle of it, or a write that fails, repeats work but skips none (agent/main.go:109-125).
ConfigIsCarriedOut ==
  config # Never => DeletionsUpTo(config) \subseteq removed \cup late

\* Every deletion that was recorded in time is carried out by the agent in the
\* end, whatever requests fail, wherever the agent crashes and whichever other
\* deletions share its second (agent/main.go:86, 109-125).
TimelyDeletionsArrive == \A x \in Deletions : x \in recorded ~> x \in removed \cup late

\* Every deletion that was recorded is carried out by the agent in the end
\* (agent/main.go:117 "Identify latest deleted_at correctly to avoid skipping").
EveryDeletionArrives == \A x \in Deletions : x \in recorded ~> x \in removed

=============================================================================
