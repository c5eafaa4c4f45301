----------------------------- MODULE Rebalance -----------------------------
(***************************************************************************)
(* TriggerRebalance and MoveChunk (server/api/rebalance.go), over the      *)
(* catalog (Catalog.tla) and the agents (Agent.tla).  A rebalance counts   *)
(* the chunks of each online device once, and then works from its own      *)
(* copy of the locations and its own running loads: it takes the devices   *)
(* in the order of a Go map, and moves chunks from each overloaded one to  *)
(* the least loaded, one at a time.  A move is a retrieval, a STORE, a     *)
(* DELETE and two statements, of which only the retrieval is waited for,   *)
(* and nobody looks at what the statements return.                         *)
(*                                                                         *)
(* The chunks of finished uploads are on the devices to begin with, as any *)
(* sequence of uploads can have left them.  Other contents come into being *)
(* when a move stores what it did not receive whole.                       *)
(***************************************************************************)
EXTENDS Agent, FiniteSetsExt

CONSTANTS
  Holders,     \* the devices with chunks to begin with; the others are new
  TornOf,      \* what a chunk with its end cut off is as a chunk of its own
  EmptyChunk   \* the chunk without bytes

ASSUME HoldersAssumption ==
  /\ Holders \subseteq Devices
  /\ IsFiniteSet(Devices) /\ Devices # {}
  /\ IsFiniteSet(Chunks) /\ Chunks # {}

\* The rows of chunks that an upload without repetitions makes.
RowsOf(c) ==
  {row \in [file : Files, sequence : 0..Cardinality(Chunks)] :
     row.sequence < Len(Content[row.file]) /\ Content[row.file][row.sequence + 1] = c}

\* The chunks of the files; the others are fragments of them.
Uploaded == {c \in Chunks : RowsOf(c) # {}}

ASSUME FragmentsAssumption == TornOf \in [Chunks -> Chunks] /\ EmptyChunk \in Chunks

\* Every request here is a rebalance, started by hand or by RegisterDevice.
Rebalances == Handlers

VARIABLES
  pc,         \* where each rebalance is
  load,       \* deviceLoad: its running count for each device online
  snapshot,   \* chunkLocs: the locations it read
  unvisited,  \* the devices the outer loop has still to visit
  unseen,     \* the chunks of the device that the inner loop has still to see
  move,       \* the device at hand, its count, its moves; the chunk on its way
  crossed,    \* history: the chunks that two rebalances moved across each other
  refused     \* history: the moves' statements that the database refused

planVars == <<load, snapshot, unvisited, unseen, move>>
vars == <<catalogVars, relayVars, diskVars, loopVars, pc, planVars, crossed, refused>>

Phases ==
  { "idle", "count", "devices", "chunks",  \* planning
    "retrieve", "data", "store", "insert", "delete", "forget",  \* MoveChunk
    "done" }

Moving == {"retrieve", "data", "store", "insert", "delete", "forget"}

Moves == [from : Devices, count : Nat, moved : Nat, chunk : Chunks, to : Devices,
          data : {"whole", "part", "none"}]

\* What the variables of the loops hold before they are assigned.
NoMove == [from |-> CHOOSE d \in Devices : TRUE, count |-> 0, moved |-> 0,
           chunk |-> CHOOSE c \in Chunks : TRUE, to |-> CHOOSE d \in Devices : TRUE, data |-> "none"]

TypeOK ==
  /\ CatalogTypeOK
  /\ AgentTypeOK
  /\ pc \in [Rebalances -> Phases]
  /\ \A r \in Rebalances : load[r] \in [DOMAIN load[r] -> Nat] /\ DOMAIN load[r] \subseteq Devices
  /\ snapshot \in [Rebalances -> SUBSET (Chunks \X Devices)]
  /\ unvisited \in [Rebalances -> SUBSET Devices]
  /\ unseen \in [Rebalances -> SUBSET Chunks]
  /\ move \in [Rebalances -> Moves]
  /\ crossed \subseteq Chunks
  /\ refused \subseteq {"insert", "delete"} \X Chunks

\* The chunks of the files, each on at least one device.
Placements == {p \in SUBSET (Uploaded \X Holders) : \A c \in Uploaded : \E d \in Holders : <<c, d>> \in p}

Init ==
  /\ files = [f \in Files |-> "committed"]
  /\ chunks = [c \in Chunks |-> IF c \in Uploaded THEN CHOOSE row \in RowsOf(c) : TRUE ELSE NoRow]
  /\ locations \in Placements
  /\ deletions = {}
  /\ inbox = [d \in Agents |-> {}]
  /\ answers = {}
  /\ sentOn = {}
  /\ stored = [d \in Devices |-> [c \in Chunks |-> IF <<c, d>> \in locations THEN "whole" ELSE "none"]]
  /\ saved = locations
  /\ task = [d \in Agents |-> NoTask]
  /\ apc = [d \in Agents |-> "polling"]
  /\ pc = [r \in Rebalances |-> "idle"]
  /\ load = [r \in Rebalances |-> <<>>]
  /\ snapshot = [r \in Rebalances |-> {}]
  /\ unvisited = [r \in Rebalances |-> {}]
  /\ unseen = [r \in Rebalances |-> {}]
  /\ move = [r \in Rebalances |-> NoMove]
  /\ crossed = {}
  /\ refused = {}

GoTo(r, phase) == pc' = [pc EXCEPT ![r] = phase]

-----------------------------------------------------------------------------
(* TriggerRebalance.                                                       *)

\* The chunks a device holds, as a set of locations has it.
On(d, places) == {c \in Chunks : <<c, d>> \in places}

Total(r) == FoldSet(LAMBDA d, n : load[r][d] + n, 0, DOMAIN load[r])

\* A target that counts the devices that are offline too.
TargetLoadOfAll(r) == Total(r) \div Cardinality(Devices)

TargetLoad(r) == Total(r) \div Cardinality(DOMAIN load[r])

\* Whatever devices are online now; with fewer than two nothing is done, nor
\* if the statement fails.
RebalanceBegin(r) ==
  /\ pc[r] = "idle"
  /\ \E online \in SUBSET Devices :
       IF Cardinality(online) < 2
         THEN GoTo(r, "done") /\ UNCHANGED unvisited
         ELSE GoTo(r, "count") /\ unvisited' = [unvisited EXCEPT ![r] = online]
  /\ UNCHANGED <<catalogVars, relayVars, diskVars, load, snapshot, unseen, move>>

\* The second statement: every location there is; a load for those online.
RebalanceCount(r) ==
  /\ pc[r] = "count"
  /\ snapshot' = [snapshot EXCEPT ![r] = locations]
  /\ load' = [load EXCEPT ![r] = [d \in unvisited[r] |-> Cardinality(On(d, locations))]]
  /\ GoTo(r, "devices")
  /\ UNCHANGED <<catalogVars, relayVars, diskVars, unvisited, unseen, move>>

\* It fails, which is the end of the rebalance.
RebalanceCountFails(r) ==
  /\ pc[r] = "count"
  /\ GoTo(r, "done")
  /\ UNCHANGED <<catalogVars, relayVars, diskVars, planVars>>

\* The outer loop: count is what the load is now, and stays so below.
RebalanceDevice(r) ==
  /\ pc[r] = "devices"
  /\ \E d \in unvisited[r] :
       /\ unvisited' = [unvisited EXCEPT ![r] = @ \ {d}]
       /\ IF load[r][d] > TargetLoad(r)
            THEN /\ move' = [move EXCEPT ![r].from = d, ![r].count = load[r][d], ![r].moved = 0]
                 /\ unseen' = [unseen EXCEPT ![r] = On(d, snapshot[r])]
                 /\ GoTo(r, "chunks")
            ELSE UNCHANGED <<move, unseen, pc>>
  /\ UNCHANGED <<catalogVars, relayVars, diskVars, load, snapshot>>

LeastLoaded(r) == {d \in DOMAIN load[r] : \A e \in DOMAIN load[r] : load[r][d] <= load[r][e]}

\* The inner loop: the next chunk, and a device with the lowest load for it.
RebalanceChunk(r) ==
  /\ pc[r] = "chunks"
  /\ move[r].moved < move[r].count - TargetLoad(r)
  /\ \E c \in unseen[r], d \in LeastLoaded(r) :
       /\ unseen' = [unseen EXCEPT ![r] = @ \ {c}]
       /\ IF load[r][d] < move[r].count
            THEN move' = [move EXCEPT ![r].chunk = c, ![r].to = d] /\ GoTo(r, "retrieve")
            ELSE UNCHANGED <<move, pc>>
  /\ UNCHANGED <<catalogVars, relayVars, diskVars, load, snapshot, unvisited>>

RebalanceNextDevice(r) ==
  /\ pc[r] = "chunks"
  /\ move[r].moved >= move[r].count - TargetLoad(r) \/ unseen[r] = {}
  /\ GoTo(r, "devices")
  /\ UNCHANGED <<catalogVars, relayVars, diskVars, planVars>>

RebalanceEnd(r) ==
  /\ pc[r] = "devices"
  /\ unvisited[r] = {}
  /\ GoTo(r, "done")
  /\ UNCHANGED <<catalogVars, relayVars, diskVars, planVars>>

-----------------------------------------------------------------------------
(* MoveChunk.                                                              *)

\* injectRelayMessage, whose result MoveChunk does not look at.  A Google
\* Drive has no agent, so nobody ever polls what is injected for it.
Inject(r, d, type, c) ==
  /\ inbox' \in {inbox} \cup
       IF d \in Agents THEN {[inbox EXCEPT ![d] = @ \cup {[type |-> type, chunk |-> c, by |-> r]}]} ELSE {}
  /\ UNCHANGED <<answers, sentOn>>

MoveRetrieve(r) ==
  /\ pc[r] = "retrieve"
  /\ Inject(r, move[r].from, "RETRIEVE", move[r].chunk)
  /\ GoTo(r, "data")
  /\ UNCHANGED <<catalogVars, diskVars, planVars>>

\* Any answer for the chunk, or the nil of a channel that a clean-up closed.
MoveData(r) ==
  /\ pc[r] = "data"
  /\ \/ \E a \in answers : /\ a.key = <<"chunk", move[r].chunk>>
                           /\ answers' = answers \ {a}
                           /\ move' = [move EXCEPT ![r].data = a.data]
     \/ /\ <<"chunk", move[r].chunk>> \in sentOn
        /\ move' = [move EXCEPT ![r].data = "none"]
        /\ UNCHANGED answers
  /\ GoTo(r, "store")
  /\ UNCHANGED <<catalogVars, inbox, sentOn, diskVars, load, snapshot, unvisited, unseen>>

\* A time-out that is taken for a move.
MoveTimeoutCounted(r) ==
  /\ pc[r] = "data"
  /\ load' = [load EXCEPT ![r][move[r].from] = @ - 1, ![r][move[r].to] = @ + 1]
  /\ GoTo(r, "chunks")
  /\ UNCHANGED <<catalogVars, relayVars, diskVars, snapshot, unvisited, unseen, move>>

\* A time-out that asks for the chunk once more.
MoveTimeoutRetried(r) ==
  /\ pc[r] = "data"
  /\ GoTo(r, "retrieve")
  /\ UNCHANGED <<catalogVars, relayVars, diskVars, planVars>>

\* No time-out before the agent has taken the command.
MoveTimeoutTaken(r) ==
  /\ pc[r] = "data"
  /\ move[r].from \in Agents => inbox[move[r].from] = {}
  /\ GoTo(r, "chunks")
  /\ UNCHANGED <<catalogVars, relayVars, diskVars, planVars>>

\* No chunk within 10 s: the move fails and the loads stay as they are.
MoveTimeout(r) ==
  /\ pc[r] = "data"
  /\ GoTo(r, "chunks")
  /\ UNCHANGED <<catalogVars, relayVars, diskVars, planVars>>

\* A chunk is named by the hash of its bytes, so what did not arrive whole is
\* sent to the target as another chunk.
Sent(r) ==
  CASE move[r].data = "whole" -> move[r].chunk
    [] move[r].data = "part"  -> TornOf[move[r].chunk]
    [] move[r].data = "none"  -> EmptyChunk

MoveStore(r) ==
  /\ pc[r] = "store"
  /\ Inject(r, move[r].to, "STORE", Sent(r))
  /\ GoTo(r, "insert")
  /\ UNCHANGED <<catalogVars, diskVars, planVars>>

\* The database refuses a statement about the chunk, and nobody looks.
Refusal(r, statement) ==
  /\ refused' = refused \cup {<<statement, move[r].chunk>>}
  /\ UNCHANGED catalogVars

MoveInsert(r) ==
  /\ pc[r] = "insert"
  /\ \/ InsertLocation(move[r].chunk, move[r].to) /\ UNCHANGED refused
     \/ Refusal(r, "insert")
  /\ GoTo(r, "delete")
  /\ UNCHANGED <<relayVars, diskVars, planVars>>

MoveDelete(r) ==
  /\ pc[r] = "delete"
  /\ Inject(r, move[r].from, "DELETE", move[r].chunk)
  /\ GoTo(r, "forget")
  /\ UNCHANGED <<catalogVars, diskVars, planVars>>

\* A plan that counts the move the wrong way round.
MoveForgetSwapped(r) ==
  /\ pc[r] = "forget"
  /\ \/ DeleteLocation(move[r].chunk, move[r].from) /\ UNCHANGED refused
     \/ Refusal(r, "delete")
  /\ load' = [load EXCEPT ![r][move[r].from] = @ + 1, ![r][move[r].to] = @ - 1]
  /\ move' = [move EXCEPT ![r].moved = @ + 1]
  /\ GoTo(r, "chunks")
  /\ UNCHANGED <<relayVars, diskVars, snapshot, unvisited, unseen>>

\* The last statement, and the plan's own count.
MoveForget(r) ==
  /\ pc[r] = "forget"
  /\ \/ DeleteLocation(move[r].chunk, move[r].from) /\ UNCHANGED refused
     \/ Refusal(r, "delete")
  /\ load' = [load EXCEPT ![r][move[r].from] = @ - 1, ![r][move[r].to] = @ + 1]
  /\ move' = [move EXCEPT ![r].moved = @ + 1]
  /\ GoTo(r, "chunks")
  /\ UNCHANGED <<relayVars, diskVars, snapshot, unvisited, unseen>>

-----------------------------------------------------------------------------
\* The steps of a rebalance, but for the two statements that write.
PlanStep(r) ==
  \/ RebalanceCount(r)
  \/ RebalanceCountFails(r)
  \/ RebalanceDevice(r)
  \/ RebalanceChunk(r)
  \/ RebalanceNextDevice(r)
  \/ RebalanceEnd(r)

MoveStep(r) ==
  \/ MoveRetrieve(r)
  \/ MoveData(r)
  \/ MoveTimeout(r)
  \/ MoveStore(r)
  \/ MoveDelete(r)

Step(r) ==
  \/ (PlanStep(r) \/ MoveStep(r)) /\ UNCHANGED refused
  \/ MoveInsert(r)
  \/ MoveForget(r)

\* The statement that rebalance r runs next deletes the location that q has just
\* inserted, and for whose sake q is about to delete another.
Crosses(r, q) ==
  /\ q # r
  /\ pc[r] = "forget" /\ pc[q] \in {"delete", "forget"}
  /\ move[q].chunk = move[r].chunk /\ move[q].to = move[r].from

NoteCrossing(r) ==
  crossed' = crossed \cup {move[q].chunk : q \in {p \in Rebalances : Crosses(r, p)}}

\* Every rebalance has ended, and the agents are polling.
Quiet ==
  /\ \A r \in Rebalances : pc[r] = "done"
  /\ \A d \in Agents : apc[d] = "polling" /\ inbox[d] = {}

Next ==
  \/ \E r \in Rebalances : /\ (RebalanceBegin(r) /\ UNCHANGED refused) \/ Step(r)
                           /\ NoteCrossing(r)
                           /\ UNCHANGED loopVars
  \/ \E d \in Agents : AgentStep(d) /\ UNCHANGED <<pc, planVars, crossed, refused>>
  \/ Quiet /\ UNCHANGED vars

Spec == Init /\ [][Next]_vars

-----------------------------------------------------------------------------
(* Properties.                                                             *)

\* A move is decided with the count its device had before its earlier moves,
\* yet goes downhill for the loads of this moment, and so never to the device
\* it comes from, which would delete the chunk (rebalance.go:92-101).
MovesDownhill ==
  \A r \in Rebalances : pc[r] \in Moving => load[r][move[r].to] < load[r][move[r].from]

\* Any number of rebalances may run (each agent that registers starts one), and
\* still a chunk of a file loses its last location only if two of them moved it
\* across each other or the database refused the insert of a move, whose delete
\* is run all the same: replicas, reports that come late, stale plans, moves of
\* one chunk in the same direction and deletes that fail only add locations
\* (rebalance.go:163-173).
ChunksStayLocated ==
  \A c \in Uploaded \ crossed : <<"insert", c>> \notin refused => \E d \in Devices : <<c, d>> \in locations

\* Between two moves the loads of a rebalance are what the catalog has of the
\* files' chunks, as long as no other has begun, no statement was refused, and
\* the locations it read had no replicas: failed moves, its own stale snapshot,
\* late reports and the fragments it makes of chunks that do not arrive whole do
\* not make it overfill a device (rebalance.go:104-107 against 150-173).
Only(r) == \A q \in Rebalances \ {r} : pc[q] = "idle"

Unreplicated(r) == \A c \in Chunks : \A d, e \in Devices :
                     <<c, d>> \in snapshot[r] /\ <<c, e>> \in snapshot[r] => d = e

LoadsMatchCatalog ==
  \A r \in Rebalances :
    pc[r] \in {"devices", "chunks", "done"} /\ Only(r) /\ Unreplicated(r) /\ refused = {} =>
      \A d \in DOMAIN load[r] : load[r][d] = Cardinality(On(d, locations) \cap Uploaded)

\* RegisterDevice calls TriggerRebalance, and the agent waits for its answer.
\* Every step brings a rebalance closer to its end, whatever others write and
\* send meanwhile: the outer loop has fewer devices to visit, or the inner loop
\* fewer chunks to see, or the move of one chunk gets further.  No move is
\* begun twice, and none leads back (rebalance.go:68-112, 117-176).
Progress == [idle |-> 0, count |-> 1, retrieve |-> 2, data |-> 3, store |-> 4, insert |-> 5,
             delete |-> 6, forget |-> 7, chunks |-> 8, devices |-> 9, done |-> 10]

Closer(r) ==
  \/ unvisited'[r] \subseteq unvisited[r] /\ unvisited'[r] # unvisited[r]
  \/ /\ unvisited'[r] = unvisited[r]
     /\ \/ unseen'[r] \subseteq unseen[r] /\ unseen'[r] # unseen[r]
        \/ unseen'[r] = unseen[r] /\ Progress[pc'[r]] > Progress[pc[r]]

RebalancesConverge == [][\A r \in Rebalances : Step(r) => Closer(r)]_vars

\* And a rebalance that has begun can always take its next step, whatever the
\* agents do or leave undone: with the above it ends (rebalance.go:142-148).
NeverStuck == \A r \in Rebalances : pc[r] \notin {"idle", "done"} => ENABLED Step(r)

\* When everything has been carried out every chunk is still on some device:
\* "automatically migrating data to ensure optimal distribution and
\* redundancy" (README.md:34).
NothingIsLost ==
  Quiet => \A c \in Uploaded : \E d \in Devices : stored[d][c] = "whole"

=============================================================================
