------------------------------- MODULE Agent -------------------------------
(***************************************************************************)
(* The storage agents (agent/bg/receiver.go, agent/storage/store.go): each *)
(* polls its inbox for one command at a time, carries it out on its disk   *)
(* and answers through the relay; a STORE it also reports to the server's  *)
(* catalog.  The user's Google Drive is a device too, one the server       *)
(* writes to directly, and shares the variables stored and saved.          *)
(*                                                                         *)
(* The relay appears as Mailbox.tla promises it: a command or an answer    *)
(* posted is taken at most once, under its own key, in any order or never, *)
(* and a wait on a server key may be woken without a message.  Relay.tla   *)
(* shows where that wake-up comes from, the clean-up goroutine a           *)
(* RelaySend on the key started, so it needs an earlier RelaySend.         *)
(***************************************************************************)
EXTENDS Catalog

CONSTANTS
  Agents,     \* the devices that run the agent; the others are Google Drives
  Handlers,   \* the server's requests, which tag the commands they send
  NoTask      \* an agent that is polling has no command

ASSUME AgentsAssumption == Agents \subseteq Devices

VARIABLES
  inbox,      \* the commands accepted for each agent and not yet taken
  answers,    \* the acknowledgements and chunks sent to the server
  sentOn,     \* the server keys on which there was a RelaySend
  stored,     \* the chunks on each device: none, a torn part, or whole
  saved,      \* history: the chunks each device has ever saved
  task,       \* the command each agent is carrying out
  apc         \* how far it is

relayVars == <<inbox, answers, sentOn>>
diskVars == <<stored, saved>>
loopVars == <<task, apc>>

Commands == [type : {"STORE", "RETRIEVE", "DELETE"}, chunk : Chunks, by : Handlers]
ServerKeys == {"ack", "chunk"} \X Chunks
Answers == [key : ServerKeys, data : {"whole", "part"}, from : Agents, by : Handlers]

AgentTypeOK ==
  /\ inbox \in [Agents -> SUBSET Commands]
  /\ answers \subseteq Answers
  /\ sentOn \subseteq ServerKeys
  /\ stored \in [Devices -> [Chunks -> {"none", "part", "whole"}]]
  /\ saved \subseteq Chunks \X Devices
  /\ task \in [Agents -> Commands \cup {NoTask}]
  /\ apc \in [Agents -> {"polling", "handling", "saved", "reported"}]

AgentInit ==
  /\ inbox = [d \in Agents |-> {}]
  /\ answers = {}
  /\ sentOn = {}
  /\ stored = [d \in Devices |-> [c \in Chunks |-> "none"]]
  /\ saved = {}
  /\ task = [d \in Agents |-> NoTask]
  /\ apc = [d \in Agents |-> "polling"]

-----------------------------------------------------------------------------
\* The agent is handling a command of this type.
Handling(d, type) == apc[d] = "handling" /\ task[d].type = type

\* The poll takes a command.
Poll(d) ==
  /\ apc[d] = "polling"
  /\ \E m \in inbox[d] :
       /\ inbox' = [inbox EXCEPT ![d] = @ \ {m}]
       /\ task' = [task EXCEPT ![d] = m]
  /\ apc' = [apc EXCEPT ![d] = "handling"]
  /\ UNCHANGED <<answers, sentOn, diskVars, catalogVars>>

\* handleStore, step 2: WriteFile succeeds.
SaveChunk(d) ==
  /\ Handling(d, "STORE")
  /\ stored' = [stored EXCEPT ![d][task[d].chunk] = "whole"]
  /\ saved' = saved \cup {<<task[d].chunk, d>>}
  /\ apc' = [apc EXCEPT ![d] = "saved"]
  /\ UNCHANGED <<relayVars, task, catalogVars>>

\* An agent that acknowledges a chunk it could not save.
SaveChunkFailsAcked(d) ==
  /\ Handling(d, "STORE")
  /\ apc' = [apc EXCEPT ![d] = "saved"]
  /\ UNCHANGED <<relayVars, diskVars, task, catalogVars>>

\* WriteFile fails, before or after it has truncated the chunk's file: the
\* agent neither reports nor acknowledges.
SaveChunkFails(d) ==
  /\ Handling(d, "STORE")
  /\ \E part \in {stored[d][task[d].chunk], "part"} :
       stored' = [stored EXCEPT ![d][task[d].chunk] = part]
  /\ apc' = [apc EXCEPT ![d] = "polling"]
  /\ task' = [task EXCEPT ![d] = NoTask]
  /\ UNCHANGED <<relayVars, saved, catalogVars>>

\* Step 3: the report reaches the catalog, or its failure is logged.
ReportChunkLocation(d) ==
  /\ apc[d] = "saved"
  /\ InsertLocation(task[d].chunk, d) \/ UNCHANGED catalogVars
  /\ apc' = [apc EXCEPT ![d] = "reported"]
  /\ UNCHANGED <<relayVars, diskVars, task>>

\* RelaySend to the server: accepted, or dropped after its time-out.
SendAnswer(d, key, data) ==
  /\ sentOn' = sentOn \cup {key}
  /\ answers' \in {answers, answers \cup
       {[key |-> key, data |-> data, from |-> d, by |-> task[d].by]}}
  /\ UNCHANGED inbox

\* Step 4: the acknowledgement, which does not say who stored the chunk.
SendAck(d) ==
  /\ apc[d] = "reported"
  /\ SendAnswer(d, <<"ack", task[d].chunk>>, "whole")
  /\ apc' = [apc EXCEPT ![d] = "polling"]
  /\ task' = [task EXCEPT ![d] = NoTask]
  /\ UNCHANGED <<diskVars, catalogVars>>

\* A retrieval that does not look at GetChunk's error.
HandleRetrieveUnchecked(d) ==
  /\ Handling(d, "RETRIEVE")
  /\ SendAnswer(d, <<"chunk", task[d].chunk>>, stored[d][task[d].chunk])
  /\ apc' = [apc EXCEPT ![d] = "polling"]
  /\ task' = [task EXCEPT ![d] = NoTask]
  /\ UNCHANGED <<diskVars, catalogVars>>

\* handleRetrieve: whatever the chunk's file holds, or no answer at all.
HandleRetrieve(d) ==
  /\ Handling(d, "RETRIEVE")
  /\ IF stored[d][task[d].chunk] = "none"
       THEN UNCHANGED relayVars
       ELSE SendAnswer(d, <<"chunk", task[d].chunk>>, stored[d][task[d].chunk])
  /\ apc' = [apc EXCEPT ![d] = "polling"]
  /\ task' = [task EXCEPT ![d] = NoTask]
  /\ UNCHANGED <<diskVars, catalogVars>>

\* handleDelete: the file is removed, or the failure is logged.
HandleDelete(d) ==
  /\ Handling(d, "DELETE")
  /\ \E left \in {"none", stored[d][task[d].chunk]} :
       stored' = [stored EXCEPT ![d][task[d].chunk] = left]
  /\ apc' = [apc EXCEPT ![d] = "polling"]
  /\ task' = [task EXCEPT ![d] = NoTask]
  /\ UNCHANGED <<relayVars, saved, catalogVars>>

\* The deletion sync, beside the loop: a chunk of a deletion the server has
\* recorded is removed, at any later time and however often.  DeletionSync.tla
\* says which ones are fetched when.
SyncDeletion(d) ==
  /\ \E x \in deletions : \E c \in x.ids : stored' = [stored EXCEPT ![d][c] = "none"]
  /\ UNCHANGED <<relayVars, saved, loopVars, catalogVars>>

\* The agent stops and is started again: its command is lost, and a write it
\* was in the middle of leaves part of the chunk.
AgentRestart(d) ==
  /\ apc[d] # "polling"
  /\ stored' \in {stored} \cup
       IF Handling(d, "STORE") THEN {[stored EXCEPT ![d][task[d].chunk] = "part"]} ELSE {}
  /\ apc' = [apc EXCEPT ![d] = "polling"]
  /\ task' = [task EXCEPT ![d] = NoTask]
  /\ UNCHANGED <<relayVars, saved, catalogVars>>

AgentStep(d) ==
  \/ Poll(d)
  \/ SaveChunk(d)
  \/ SaveChunkFails(d)
  \/ ReportChunkLocation(d)
  \/ SendAck(d)
  \/ HandleRetrieve(d)
  \/ HandleDelete(d)
  \/ SyncDeletion(d)

=============================================================================
