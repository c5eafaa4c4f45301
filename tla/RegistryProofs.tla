--------------------------- MODULE RegistryProofs ---------------------------
(***************************************************************************)
(* What is proved of Registry, for any agents, users and removals, and any *)
(* number of starts and restarts.                                          *)
(***************************************************************************)
EXTENDS Registry, TLAPS

\* An agent that has not registered yet may, and one that has done so has a
\* number; only an id that was written down has been sent.
StartsInv ==
  \A d \in Devices : /\ agent[d] = "generating" => starts[d] < MaxStarts
                     /\ agent[d] \in {"registering", "opening"} => starts[d] \in Starts

SentInv ==
  \A d \in Devices, n \in Starts : register[d][n] # "none" => identity[d] = "kept"

IInv == TypeOK /\ StartsInv /\ SentInv /\ IdentityIsKept

LEMMA InitInv == Init => IInv
<1> SUFFICES ASSUME Init PROVE IInv
  OBVIOUS
<1> USE RegistryAssumption DEF Init, Starts, Owners, RegisterPhases, RemovalPhases, AgentPhases
<1>1. TypeOK
  <2>1. removal \in [Removals -> [at : RemovalPhases, user : Owners, device : Devices]]
    OBVIOUS
  <2> QED BY <2>1 DEF TypeOK, RemovalStates
<1>2. StartsInv /\ SentInv /\ IdentityIsKept
  BY DEF StartsInv, SentInv, IdentityIsKept, Registered
<1> QED BY <1>1, <1>2 DEF IInv

\* A row with another owner, token or age is a row.
LEMMA RowChanges ==
  ASSUME NEW r \in Row
  PROVE  /\ r # NoRow
         /\ \A o \in Owners : [r EXCEPT !.owner = o] \in Row
         /\ \A b \in BOOLEAN : [r EXCEPT !.fresh = b] \in Row
         /\ \A n \in Starts : [r EXCEPT !.token = n, !.fresh = TRUE] \in Row
  BY NoRowAssumption DEF Row

\* A removal that goes on is a removal, of the same device.
LEMMA RemovalChanges ==
  ASSUME NEW r \in RemovalStates, NEW phase \in RemovalPhases
  PROVE  [r EXCEPT !.at = phase] \in RemovalStates
  BY DEF RemovalStates

\* Moving one registration on keeps the type of all.
LEMMA RegisterChanges ==
  ASSUME TypeOK, NEW d \in Devices, NEW n \in Starts, NEW to \in RegisterPhases,
         register' = [register EXCEPT ![d][n] = to]
  PROVE  /\ register' \in [Devices -> [Starts -> RegisterPhases]]
         /\ register'[d][n] = to
         /\ \A e \in Devices, m \in Starts :
              e # d \/ m # n => register'[e][m] = register[e][m]
<1>1. register[d] \in [Starts -> RegisterPhases]
  BY DEF TypeOK
<1>2. [register[d] EXCEPT ![n] = to] \in [Starts -> RegisterPhases]
  BY <1>1
<1>3. register' = [register EXCEPT ![d] = [register[d] EXCEPT ![n] = to]]
  OBVIOUS
<1> QED BY <1>1, <1>2, <1>3 DEF TypeOK

LEMMA NextInv == IInv /\ [Next]_vars => IInv'
<1> SUFFICES ASSUME IInv, [Next]_vars PROVE IInv'
  OBVIOUS
<1> USE RegistryAssumption, NoRowAssumption
<1> USE DEF IInv, TypeOK, StartsInv, SentInv, IdentityIsKept, Registered
<1> USE DEF Starts, RegisterPhases, RemovalPhases, AgentPhases, tableVars, serverVars, agentVars
<1>1. ASSUME NEW u \in Users, Signup(u) \/ Login(u) PROVE IInv'
  BY <1>1 DEF Signup, Login
<1>2. ASSUME NEW d \in Devices, Announce(d), identity'[d] = "kept", agent[d] \in {"off", "generating"},
             starts[d] < MaxStarts, UNCHANGED <<tableVars, sessions, removal, chosen, restarts, shown>>,
             identity' = identity \/ identity' = [identity EXCEPT ![d] = "kept"]
      PROVE  IInv'
  <2>1. /\ starts' = [starts EXCEPT ![d] = @ + 1] /\ starts[d] + 1 \in Starts
        /\ agent' = [agent EXCEPT ![d] = "registering"]
    BY <1>2 DEF Announce, GenerateToken
  <2>2. /\ register' \in [Devices -> [Starts -> RegisterPhases]]
        /\ \A e \in Devices, m \in Starts : e # d => register'[e][m] = register[e][m]
    <3>1. CASE register' = register
      BY <3>1
    <3>2. CASE register' = [register EXCEPT ![d][starts[d] + 1] = "sent"]
      BY <2>1, <3>2, RegisterChanges
    <3> QED BY <1>2, <3>1, <3>2 DEF Announce, GenerateToken
  <2>3. /\ identity' \in [Devices -> {"absent", "empty", "kept"}]
        /\ identity'[d] = "kept"
        /\ \A e \in Devices : e # d => identity'[e] = identity[e]
    BY <1>2
  <2>4. UNCHANGED <<devices, locations, users, sessions, removal, chosen, restarts, shown>>
    BY <1>2
  <2>5. TypeOK'
    <3> HIDE DEF StartsInv, SentInv, IdentityIsKept
    <3>1. starts' \in [Devices -> 0..MaxStarts]
      BY <2>1
    <3>2. agent' \in [Devices -> AgentPhases]
      BY <2>1
    <3> QED BY <2>2, <2>3, <2>4, <3>1, <3>2
  <2>6. StartsInv'
    <3> HIDE DEF SentInv, IdentityIsKept
    <3> QED BY <2>1
  <2>7. SentInv' /\ IdentityIsKept'
    <3> HIDE DEF StartsInv
    <3> QED BY <2>2, <2>3, <2>4
  <2> QED BY <2>5, <2>6, <2>7
<1>3. ASSUME NEW d \in Devices, AgentStep(d) PROVE IInv'
  <2>1. CASE StartNew(d)
    BY <2>1 DEF StartNew
  <2>2. CASE WriteIdentity(d)
    <3>1. /\ Announce(d) /\ agent[d] = "generating"
          /\ identity' = [identity EXCEPT ![d] = "kept"]
          /\ UNCHANGED <<tableVars, sessions, removal, chosen, restarts, shown>>
      BY <2>2 DEF WriteIdentity
    <3>2. identity'[d] = "kept" /\ starts[d] < MaxStarts
      BY <3>1
    <3> QED BY <1>2, <3>1, <3>2
  <2>3. CASE StartAgain(d)
    <3>1. /\ Announce(d) /\ agent[d] = "off" /\ starts[d] < MaxStarts
          /\ identity' = identity /\ identity[d] = "kept"
          /\ UNCHANGED <<tableVars, sessions, removal, chosen, restarts, shown>>
      BY <2>3 DEF StartAgain
    <3> QED BY <1>2, <3>1
  <2>4. CASE GoOn(d) \/ OpenStore(d) \/ OpenStoreFails(d)
    <3>1. CASE GoOn(d)
      BY <3>1 DEF GoOn
    <3>2. CASE OpenStore(d)
      BY <3>2 DEF OpenStore, ShowToken
    <3>3. CASE OpenStoreFails(d)
      BY <3>3 DEF OpenStoreFails
    <3> QED BY <2>4, <3>1, <3>2, <3>3
  <2>5. CASE Stop(d)
    BY <2>5 DEF Stop
  <2>6. CASE SendHeartbeat(d)
    <3>1. [devices[d] EXCEPT !.fresh = TRUE] \in Row
      BY <2>6, RowChanges DEF SendHeartbeat, Heartbeat
    <3> QED BY <2>6, <3>1 DEF SendHeartbeat, Heartbeat
  <2> QED BY <1>3, <2>1, <2>2, <2>3, <2>4, <2>5, <2>6 DEF AgentStep
<1>4. ASSUME NEW d \in Devices, Lapse(d) PROVE IInv'
  <2>1. [devices[d] EXCEPT !.fresh = FALSE] \in Row
    BY <1>4, RowChanges DEF Lapse
  <2> QED BY <1>4, <2>1 DEF Lapse
<1>5. ASSUME NEW d \in Devices, UploadChooses(d) \/ UploadRecords(d) PROVE IInv'
  BY <1>5 DEF UploadChooses, UploadRecords
<1>6. ASSUME NEW d \in Devices, NEW n \in Starts, RegisterStep(d, n) PROVE IInv'
  <2>0. CASE RegisterMove(d, n)
    BY <2>0 DEF RegisterMove
  <2> SUFFICES ASSUME ~RegisterMove(d, n) PROVE IInv'
    BY <2>0
  <2>1. /\ register[d][n] # "none"
        /\ UNCHANGED <<users, locations, sessions, removal, chosen, restarts, agentVars>>
        /\ \E to \in RegisterPhases \ {"none"} : register' = [register EXCEPT ![d][n] = to]
    BY <1>6 DEF RegisterStep, RegisterCheck, RegisterUpdate, RegisterInsert, RegisterFails, RegisterOwner,
                RegisterRebalance, Advance
  <2>2. identity[d] = "kept"
    BY <2>1
  <2>3. /\ register' \in [Devices -> [Starts -> RegisterPhases]]
        /\ SentInv'
    BY <2>1, <2>2, RegisterChanges
  <2>4. \/ UNCHANGED devices
        \/ \E r \in Row \cup {NoRow} : devices' = [devices EXCEPT ![d] = r]
    <3>1. CASE RegisterUpdate(d, n)
      <4>1. CASE devices[d] = NoRow
        BY <3>1, <4>1 DEF RegisterUpdate
      <4>2. CASE devices[d] # NoRow
        <5>1. [devices[d] EXCEPT !.token = n, !.fresh = TRUE] \in Row
          BY <4>2, RowChanges
        <5> QED BY <3>1, <4>2, <5>1 DEF RegisterUpdate
      <4> QED BY <4>1, <4>2
    <3>2. CASE RegisterInsert(d, n)
      <4>1. [owner |-> Nobody, token |-> n, fresh |-> TRUE] \in Row
        BY DEF Row, Owners
      <4> QED BY <3>2, <4>1 DEF RegisterInsert
    <3>3. CASE RegisterCheck(d, n) \/ RegisterFails(d, n) \/ RegisterOwner(d, n) \/ RegisterMove(d, n)
              \/ RegisterRebalance(d, n)
      BY <3>3 DEF RegisterCheck, RegisterFails, RegisterOwner, RegisterMove, RegisterRebalance
    <3> QED BY <1>6, <3>1, <3>2, <3>3 DEF RegisterStep
  <2>5. TypeOK' /\ StartsInv'
    <3> HIDE DEF SentInv, IdentityIsKept
    <3>1. devices' \in [Devices -> Row \cup {NoRow}]
      BY <2>4
    <3> QED BY <2>1, <2>3, <3>1
  <2>6. IdentityIsKept'
    BY <2>1, <2>2, <2>4
  <2> QED BY <2>3, <2>5, <2>6
<1>7. ASSUME NEW u \in Users, NEW d \in Devices, ClaimDevice(u, d) PROVE IInv'
  <2>1. [devices[d] EXCEPT !.owner = u] \in Row
    BY <1>7, RowChanges DEF ClaimDevice, LoggedIn, Owners
  <2>2. devices' = [devices EXCEPT ![d] = [devices[d] EXCEPT !.owner = u]] /\ devices[d] # NoRow
    BY <1>7 DEF ClaimDevice, LoggedIn
  <2>3. UNCHANGED <<locations, users, serverVars, agentVars>>
    BY <1>7 DEF ClaimDevice, LoggedIn
  <2> QED BY <2>1, <2>2, <2>3
<1>8. ASSUME NEW u \in Users, NEW d \in Devices, NEW x \in Removals, DeleteDevice(x, u, d) PROVE IInv'
  <2>1. [at |-> "locations", user |-> u, device |-> d] \in RemovalStates
    BY DEF RemovalStates, Owners
  <2> QED BY <1>8, <2>1 DEF DeleteDevice, LoggedIn
<1>9. ASSUME NEW x \in Removals, RemoveLocations(x) \/ RemoveRow(x) PROVE IInv'
  <2>1. [removal[x] EXCEPT !.at = "row"] \in RemovalStates /\ [removal[x] EXCEPT !.at = "ended"] \in RemovalStates
    BY RemovalChanges
  <2>2. removal' \in [Removals -> RemovalStates]
    BY <1>9, <2>1 DEF RemoveLocations, RemoveRow
  <2>3. removal[x].device \in Devices
    BY DEF RemovalStates
  <2> QED BY <1>9, <2>2, <2>3 DEF RemoveLocations, RemoveRow
<1>10. CASE ServerRestart
  <2>1. /\ register' \in [Devices -> [Starts -> RegisterPhases]]
        /\ \A d \in Devices, n \in Starts : register'[d][n] # "none" => register[d][n] # "none"
    BY <1>10 DEF ServerRestart
  <2>2. \A x \in Removals : [removal[x] EXCEPT !.at = "ended"] \in RemovalStates
    BY RemovalChanges
  <2>3. removal' \in [Removals -> RemovalStates]
    BY <1>10, <2>2 DEF ServerRestart
  <2>4. /\ UNCHANGED <<tableVars, agentVars>>
        /\ sessions' = {} /\ chosen' = {} /\ restarts' \in 0..MaxRestarts
    BY <1>10 DEF ServerRestart
  <2> QED BY <2>1, <2>3, <2>4
<1>11. CASE UNCHANGED vars
  BY <1>11 DEF vars
<1> QED BY <1>1, <1>3, <1>4, <1>5, <1>6, <1>7, <1>8, <1>9, <1>10, <1>11 DEF Next

\* Every variable keeps its type.
THEOREM TypeCorrect == Spec => []TypeOK
<1>1. IInv => TypeOK
  BY DEF IInv
<1> QED BY <1>1, InitInv, NextInv, PTL DEF Spec

\* No device is registered under an id that its agent could lose.
THEOREM IdentitiesAreKept == Spec => []IdentityIsKept
<1>1. IInv => IdentityIsKept
  BY DEF IInv
<1> QED BY <1>1, InitInv, NextInv, PTL DEF Spec

\* Registering takes no device from its owner, in any order of registrations,
\* claims and removals.
THEOREM OwnersAreKept == Spec => OwnerIsKept
<1> DEFINE Keeps ==
      \A d \in Devices :
        Registered(d) /\ Registered(d)' /\ devices'[d].owner # devices[d].owner
          => devices'[d].owner \in sessions
<1>1. IInv /\ [Next]_vars => Keeps
  <2> SUFFICES ASSUME IInv, [Next]_vars PROVE Keeps
    OBVIOUS
  <2> USE NoRowAssumption DEF IInv, TypeOK, Registered, Row, tableVars, serverVars, agentVars
  <2>1. ASSUME NEW u \in Users, NEW d \in Devices, ClaimDevice(u, d) PROVE Keeps
    BY <2>1 DEF ClaimDevice, LoggedIn
  <2>2. ASSUME NEW d \in Devices, Heartbeat(d) \/ Lapse(d) PROVE Keeps
    <3>1. PICK now \in BOOLEAN :
            /\ devices[d] \in Row
            /\ devices' = [devices EXCEPT ![d] = [devices[d] EXCEPT !.fresh = now]]
      BY <2>2 DEF Heartbeat, Lapse
    <3>2. \A e \in Devices : Registered(e) => devices'[e].owner = devices[e].owner
      BY <3>1
    <3> QED BY <3>2
  <2>3. ASSUME NEW d \in Devices, NEW n \in Starts, RegisterStep(d, n) PROVE Keeps
    <3>1. CASE RegisterUpdate(d, n)
      BY <3>1 DEF RegisterUpdate
    <3>2. CASE RegisterInsert(d, n)
      BY <3>2 DEF RegisterInsert
    <3>3. CASE RegisterCheck(d, n) \/ RegisterFails(d, n) \/ RegisterOwner(d, n) \/ RegisterMove(d, n)
              \/ RegisterRebalance(d, n)
      BY <3>3 DEF RegisterCheck, RegisterFails, RegisterOwner, RegisterMove, RegisterRebalance
    <3> QED BY <2>3, <3>1, <3>2, <3>3 DEF RegisterStep
  <2>4. ASSUME NEW x \in Removals, RemoveRow(x) PROVE Keeps
    BY <2>4 DEF RemoveRow
  <2>5. CASE UNCHANGED devices
    BY <2>5
  <2>6. CASE devices' # devices
    <3>1. \/ \E u \in Users, d \in Devices : ClaimDevice(u, d)
          \/ \E d \in Devices : Heartbeat(d) \/ Lapse(d)
          \/ \E d \in Devices, n \in Starts : RegisterStep(d, n)
          \/ \E x \in Removals : RemoveRow(x)
      BY <2>6 DEF Next, vars, Signup, Login, AgentStep, StartNew, WriteIdentity, StartAgain, GoOn, OpenStore,
                  OpenStoreFails, Stop, SendHeartbeat,
                  UploadChooses, UploadRecords, DeleteDevice, RemoveLocations, ServerRestart
    <3> QED BY <2>1, <2>2, <2>3, <2>4, <3>1
  <2> QED BY <2>5, <2>6
<1>2. Spec => []IInv
  BY InitInv, NextInv, PTL DEF Spec
<1> QED BY <1>1, <1>2, PTL DEF Spec, OwnerIsKept

=============================================================================
