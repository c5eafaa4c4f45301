------------------------------ MODULE Registry ------------------------------
(***************************************************************************)
(* Devices and accounts: how an agent starts and registers                 *)
(* (agent/main.go, agent/identity/identity.go, agent/client/client.go),    *)
(* and the handlers RegisterDevice, Heartbeat, GetPeers, ClaimDevice,      *)
(* DeleteDevice, Signup and Login of the server (server/api/handlers.go,   *)
(* devices.go, auth.go).                                                   *)
(*                                                                         *)
(* A device is named by the id its agent generates once.  Each start of    *)
(* the agent makes a claim token, here the number of the start, and sends  *)
(* one registration, which the server carries out statement by statement;  *)
(* it may do so when the agent has long given up or started again.  The    *)
(* answer leaves the server when the handler returns, which is after the   *)
(* rebalance it runs for a device that has an owner, if that ends: what a  *)
(* rebalance does is in Rebalance, here only that it changes locations.    *)
(*                                                                         *)
(* A time that matters only as long or short is a step of its own: Lapse   *)
(* is 30 s without a heartbeat.  Uploads appear as what they do to devices *)
(* and locations: choose a device, and name it in chunk_locations later.   *)
(***************************************************************************)
EXTENDS Naturals, FiniteSets

CONSTANTS
  Devices,      \* the ids of agents
  Users,        \* people who may sign up
  Removals,     \* calls of DeleteDevice
  Nobody,       \* user_id is NULL
  NoRow,        \* devices has no row with this id
  MaxStarts,    \* bound: starts of each agent
  MaxRestarts   \* bound: restarts of the server

ASSUME RegistryAssumption ==
  /\ Devices # {}
  /\ Nobody \notin Users
  /\ MaxStarts \in Nat /\ MaxRestarts \in Nat

Starts == 1..MaxStarts
Owners == Users \cup {Nobody}
Row == [owner : Owners, token : Starts, fresh : BOOLEAN]

ASSUME NoRowAssumption == NoRow \notin Row

VARIABLES
  devices,    \* table devices: owner, claim_token, and whether last_seen is recent
  locations,  \* the devices that rows of chunk_locations name
  users,      \* table users
  sessions,   \* the users with a session in the server's memory
  register,   \* where the registration of each start is
  removal,    \* where each DeleteDevice is, for whom and of what
  chosen,     \* devices an upload has chosen and not recorded yet
  identity,   \* identity.json of each agent
  agent,      \* what each agent's process is doing
  starts,     \* how often it was started
  shown,      \* the claim tokens it has shown
  restarts    \* how often the server was restarted

tableVars == <<devices, locations, users>>
serverVars == <<sessions, register, removal, chosen, restarts>>
agentVars == <<identity, agent, starts, shown>>
vars == <<tableVars, serverVars, agentVars>>

RegisterPhases == {"none", "sent", "update", "insert", "written", "rebalance", "ended"}
AgentPhases == {"off", "generating", "registering", "opening", "running"}
RemovalPhases == {"idle", "locations", "row", "ended"}
RemovalStates == [at : RemovalPhases, user : Owners, device : Devices]

TypeOK ==
  /\ devices \in [Devices -> Row \cup {NoRow}]
  /\ locations \subseteq Devices
  /\ users \subseteq Users
  /\ sessions \subseteq users
  /\ register \in [Devices -> [Starts -> RegisterPhases]]
  /\ removal \in [Removals -> RemovalStates]
  /\ chosen \subseteq Devices
  /\ identity \in [Devices -> {"absent", "empty", "kept"}]
  /\ agent \in [Devices -> AgentPhases]
  /\ starts \in [Devices -> 0..MaxStarts]
  /\ shown \in [Devices -> SUBSET Starts]
  /\ restarts \in 0..MaxRestarts

Init ==
  /\ devices = [d \in Devices |-> NoRow]
  /\ locations = {}
  /\ users = {}
  /\ sessions = {}
  /\ register = [d \in Devices |-> [n \in Starts |-> "none"]]
  /\ removal = [x \in Removals |-> [at |-> "idle", user |-> Nobody, device |-> CHOOSE d \in Devices : TRUE]]
  /\ chosen = {}
  /\ identity = [d \in Devices |-> "absent"]
  /\ agent = [d \in Devices |-> "off"]
  /\ starts = [d \in Devices |-> 0]
  /\ shown = [d \in Devices |-> {}]
  /\ restarts = 0

Registered(d) == devices[d] # NoRow

-----------------------------------------------------------------------------
(* Accounts.                                                               *)

\* Signup: an email that has a row is answered 409.
Signup(u) ==
  /\ users' = users \cup {u}
  /\ UNCHANGED <<devices, locations, serverVars, agentVars>>

\* A login that does not look the user up.
LoginUnknown(u) ==
  /\ sessions' = sessions \cup {u}
  /\ UNCHANGED <<tableVars, register, removal, chosen, restarts, agentVars>>

\* Login: a session more in the map, which nothing ever removes from it.
Login(u) ==
  /\ u \in users
  /\ sessions' = sessions \cup {u}
  /\ UNCHANGED <<tableVars, register, removal, chosen, restarts, agentVars>>

-----------------------------------------------------------------------------
(* The agent's process.                                                    *)

\* A claim token that no earlier start had.
GenerateToken(d) == starts' = [starts EXCEPT ![d] = @ + 1]

\* The agent displays its id and its claim token.
ShowToken(d) == shown' = [shown EXCEPT ![d] = @ \cup {starts[d]}]

\* Client.Register: the request reaches the server or not.
Announce(d) ==
  /\ agent' = [agent EXCEPT ![d] = "registering"]
  /\ GenerateToken(d)
  /\ register' \in {register, [register EXCEPT ![d][starts[d] + 1] = "sent"]}

\* LoadOrGenerate finds no file: it generates an id and creates the file.
StartNew(d) ==
  /\ agent[d] = "off" /\ starts[d] < MaxStarts
  /\ identity[d] = "absent"
  /\ identity' = [identity EXCEPT ![d] = "empty"]
  /\ agent' = [agent EXCEPT ![d] = "generating"]
  /\ UNCHANGED <<tableVars, serverVars, starts, shown>>

\* An agent that registers its id before it has written it down.
WriteIdentityLater(d) ==
  /\ agent[d] = "generating"
  /\ identity' \in {identity, [identity EXCEPT ![d] = "kept"]}
  /\ Announce(d)
  /\ UNCHANGED <<tableVars, sessions, removal, chosen, restarts, shown>>

\* ... writes it, and goes on to the registration.
WriteIdentity(d) ==
  /\ agent[d] = "generating"
  /\ identity' = [identity EXCEPT ![d] = "kept"]
  /\ Announce(d)
  /\ UNCHANGED <<tableVars, sessions, removal, chosen, restarts, shown>>

\* LoadOrGenerate reads the file.  One that is empty cannot be decoded: the
\* agent exits and nothing has changed, however often it is started.
StartAgain(d) ==
  /\ agent[d] = "off" /\ starts[d] < MaxStarts
  /\ identity[d] = "kept"
  /\ Announce(d)
  /\ UNCHANGED <<tableVars, sessions, removal, chosen, restarts, identity, shown>>

\* The registration is answered, fails or times out (30 s): the agent says so
\* and goes on all the same.
GoOn(d) ==
  /\ agent[d] = "registering"
  /\ agent' = [agent EXCEPT ![d] = "opening"]
  /\ UNCHANGED <<tableVars, serverVars, identity, starts, shown>>

\* The store is there: the receiver and the heartbeats start, and the claim
\* token is shown.
OpenStore(d) ==
  /\ agent[d] = "opening"
  /\ agent' = [agent EXCEPT ![d] = "running"]
  /\ ShowToken(d)
  /\ UNCHANGED <<tableVars, serverVars, identity, starts>>

\* It cannot be made: the agent exits.  In gdrive mode it may also be waited
\* for without end, for Google or for a code that someone has to paste.
OpenStoreFails(d) ==
  /\ agent[d] = "opening"
  /\ agent' = [agent EXCEPT ![d] = "off"]
  /\ UNCHANGED <<tableVars, serverVars, identity, starts, shown>>

\* The agent is stopped, or its machine is.
Stop(d) ==
  /\ agent[d] # "off"
  /\ agent' = [agent EXCEPT ![d] = "off"]
  /\ UNCHANGED <<tableVars, serverVars, identity, starts, shown>>

\* Heartbeat: a device without a row is answered 404, which the agent prints.
Heartbeat(d) ==
  /\ Registered(d)
  /\ devices' = [devices EXCEPT ![d].fresh = TRUE]
  /\ UNCHANGED <<locations, users, serverVars, agentVars>>

SendHeartbeat(d) ==
  /\ agent[d] = "running"
  /\ Heartbeat(d)

\* 30 s without one.
Lapse(d) ==
  /\ Registered(d)
  /\ devices[d].fresh
  /\ devices' = [devices EXCEPT ![d].fresh = FALSE]
  /\ UNCHANGED <<locations, users, serverVars, agentVars>>

-----------------------------------------------------------------------------
(* RegisterDevice: a registration n of device d.                           *)

Advance(d, n, from, to) ==
  /\ register[d][n] = from
  /\ register' = [register EXCEPT ![d][n] = to]
  /\ UNCHANGED <<locations, users, sessions, removal, chosen, restarts, agentVars>>

RegisterCheck(d, n) ==
  /\ Advance(d, n, "sent", IF Registered(d) THEN "update" ELSE "insert")
  /\ UNCHANGED devices

\* The UPDATE or the INSERT fails: answered 500, and no rebalance.
RegisterFails(d, n) ==
  /\ register[d][n] \in {"update", "insert"}
  /\ Advance(d, n, register[d][n], "ended")
  /\ UNCHANGED devices

\* The UPDATE keeps user_id.  A row that is gone meanwhile stays gone.
RegisterUpdate(d, n) ==
  /\ Advance(d, n, "update", "written")
  /\ devices' = [devices EXCEPT ![d] =
       IF @ = NoRow THEN @ ELSE [@ EXCEPT !.token = n, !.fresh = TRUE]]

\* INSERT OR REPLACE.
RegisterInsertReplaces(d, n) ==
  /\ Advance(d, n, "insert", "written")
  /\ devices' = [devices EXCEPT ![d] = [owner |-> Nobody, token |-> n, fresh |-> TRUE]]

\* The INSERT has no user_id.  A row that is there meanwhile makes it fail.
RegisterInsert(d, n) ==
  /\ Advance(d, n, "insert", IF Registered(d) THEN "ended" ELSE "written")
  /\ devices' = [devices EXCEPT ![d] =
       IF @ = NoRow THEN [owner |-> Nobody, token |-> n, fresh |-> TRUE] ELSE @]

\* SELECT user_id: the rebalance is for a device that has an owner.
RegisterOwner(d, n) ==
  /\ Advance(d, n, "written",
       IF Registered(d) /\ devices[d].owner # Nobody THEN "rebalance" ELSE "ended")
  /\ UNCHANGED devices

\* TriggerRebalance within the handler: a move inserts a location of some
\* device, or deletes one.
RegisterMove(d, n) ==
  /\ register[d][n] = "rebalance"
  /\ \E e \in Devices : locations' \in {locations \cup {e}, locations \ {e}}
  /\ UNCHANGED <<devices, users, serverVars, agentVars>>

\* TriggerRebalance returns, and so does the handler.
RegisterRebalance(d, n) ==
  /\ Advance(d, n, "rebalance", "ended")
  /\ UNCHANGED devices

RegisterStep(d, n) ==
  \/ RegisterCheck(d, n)
  \/ RegisterUpdate(d, n)
  \/ RegisterInsert(d, n)
  \/ RegisterFails(d, n)
  \/ RegisterOwner(d, n)
  \/ RegisterMove(d, n)
  \/ RegisterRebalance(d, n)

-----------------------------------------------------------------------------
(* ClaimDevice, DeleteDevice, and what an upload does to devices.          *)

\* Middleware lets a request through that carries the token of a session.
LoggedIn(u) == u \in sessions

\* Whoever has the token of the last registration becomes the owner.
ClaimDevice(u, d) ==
  /\ LoggedIn(u)
  /\ Registered(d)
  /\ devices[d].token \in shown[d]
  /\ devices' = [devices EXCEPT ![d].owner = u]
  /\ UNCHANGED <<locations, users, serverVars, agentVars>>

\* The ownership is checked here and nowhere below.
DeleteDevice(x, u, d) ==
  /\ removal[x].at = "idle"
  /\ LoggedIn(u)
  /\ Registered(d) /\ devices[d].owner = u
  /\ removal' = [removal EXCEPT ![x] = [at |-> "locations", user |-> u, device |-> d]]
  /\ UNCHANGED <<tableVars, sessions, register, chosen, restarts, agentVars>>

\* An error of this DELETE is ignored...
RemoveLocations(x) ==
  /\ removal[x].at = "locations"
  /\ locations' \in {locations, locations \ {removal[x].device}}
  /\ removal' = [removal EXCEPT ![x].at = "row"]
  /\ UNCHANGED <<devices, users, sessions, register, chosen, restarts, agentVars>>

\* ... and one of this answered 500.
RemoveRow(x) ==
  /\ removal[x].at = "row"
  /\ devices' \in {devices, [devices EXCEPT ![removal[x].device] = NoRow]}
  /\ removal' = [removal EXCEPT ![x].at = "ended"]
  /\ UNCHANGED <<locations, users, sessions, register, chosen, restarts, agentVars>>

\* An upload reads the devices of its user: all of them, online or not.
UploadChooses(d) ==
  /\ Registered(d) /\ devices[d].owner # Nobody
  /\ chosen' = chosen \cup {d}
  /\ UNCHANGED <<tableVars, sessions, register, removal, restarts, agentVars>>

\* The device has acknowledged, or reported by itself, or it did neither.
UploadRecords(d) ==
  /\ d \in chosen
  /\ locations' \in {locations, locations \cup {d}}
  /\ chosen' = chosen \ {d}
  /\ UNCHANGED <<devices, users, sessions, register, removal, restarts, agentVars>>

\* The server is restarted: its sessions and the requests in flight are gone.
ServerRestart ==
  /\ restarts < MaxRestarts
  /\ restarts' = restarts + 1
  /\ sessions' = {}
  /\ chosen' = {}
  /\ register' = [d \in Devices |-> [n \in Starts |->
                    IF register[d][n] = "none" THEN "none" ELSE "ended"]]
  /\ removal' = [x \in Removals |->
                    IF removal[x].at = "idle" THEN removal[x] ELSE [removal[x] EXCEPT !.at = "ended"]]
  /\ UNCHANGED <<tableVars, agentVars>>

-----------------------------------------------------------------------------
AgentStep(d) ==
  \/ StartNew(d)
  \/ WriteIdentity(d)
  \/ StartAgain(d)
  \/ GoOn(d)
  \/ OpenStore(d)
  \/ OpenStoreFails(d)
  \/ Stop(d)
  \/ SendHeartbeat(d)

Next ==
  \/ \E u \in Users : Signup(u) \/ Login(u)
  \/ \E d \in Devices : AgentStep(d) \/ Lapse(d) \/ UploadChooses(d) \/ UploadRecords(d)
  \/ \E d \in Devices, n \in Starts : RegisterStep(d, n)
  \/ \E u \in Users, d \in Devices : ClaimDevice(u, d) \/ \E x \in Removals : DeleteDevice(x, u, d)
  \/ \E x \in Removals : RemoveLocations(x) \/ RemoveRow(x)
  \/ ServerRestart

Spec == Init /\ [][Next]_vars

\* An agent that is off sends no heartbeat while time passes.  Nothing else
\* is obliged to happen: no handler has to end, no agent to start or to go on.
FairSpec == Spec /\ \A d \in Devices : WF_vars(agent[d] = "off" /\ Lapse(d))

-----------------------------------------------------------------------------
(* Properties.                                                             *)

\* A device that is registered finds its own id again after any crash: were
\* the id known to the server before the agent has written it down, chunks
\* and owner would belong to a device that never returns (identity.go:57-64,
\* agent/main.go:41-52).
IdentityIsKept == \A d \in Devices : Registered(d) => identity[d] = "kept"

\* Registering never takes a device from its owner, in whatever order two
\* registrations of it, a claim and a removal are carried out: while a row
\* stays, its owner is only replaced by a user who is logged in
\* (handlers.go:36-57, devices.go:30).
OwnerIsKept ==
  [][\A d \in Devices :
       Registered(d) /\ Registered(d)' /\ devices'[d].owner # devices[d].owner
         => devices'[d].owner \in sessions]_vars

\* The devices GetPeers shows as online, if it went by the column.
PeersByColumn == {d \in Devices : Registered(d)}

\* The devices GetPeers shows as online.
Peers == {d \in Devices : Registered(d) /\ devices[d].fresh}

\* The peers stop showing an agent that has stopped for good, although the
\* column online stays 1: no late registration of it makes it look alive for
\* ever (handlers.go:114-117).
OfflineIsNoticed == \A d \in Devices : <>[](agent[d] = "off") => <>[](d \notin Peers)

=============================================================================
