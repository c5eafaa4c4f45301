-------------------------- MODULE RebalanceProofs --------------------------
(***************************************************************************)
(* Theorems about Rebalance, for every set of chunks, devices and agents:  *)
(* its types; that every move of every rebalance goes downhill; that each  *)
(* of its steps brings it closer to its end; that a file's chunk loses its *)
(* last location only if two rebalances moved it across each other or an   *)
(* insert was refused; and that the loads of a rebalance are those of the  *)
(* catalog as long as no other has begun.                                  *)
(*                                                                         *)
(* All of it rests on one fact about numbers: some device has no more      *)
(* chunks than the quotient of their sum and their number.                 *)
(***************************************************************************)
EXTENDS Rebalance, AgentProofs

-----------------------------------------------------------------------------
(* The least loaded device and the quotient.                               *)

\* If every device has more than t, each set of n devices has n * (t + 1).
LEMMA SumIsLarge ==
  ASSUME NEW D, IsFiniteSet(D), NEW l \in [D -> Nat], NEW g \in [SUBSET D -> Nat], Sums(g, l, D),
         NEW t \in Nat, \A d \in D : l[d] > t
  PROVE  g[D] >= Cardinality(D) * (t + 1)
<1> DEFINE T == {n \in Nat : \A s \in SUBSET D : Cardinality(s) = n => g[s] >= n * (t + 1)}
<1>1. 0 \in T
  <2>1. \A s \in SUBSET D : g[s] \in Nat
    OBVIOUS
  <2>2. QED
    BY <2>1
<1>2. ASSUME NEW n \in Nat, n \in T PROVE n + 1 \in T
  <2>1. ASSUME NEW s \in SUBSET D, Cardinality(s) = n + 1 PROVE g[s] >= (n + 1) * (t + 1)
    <3> DEFINE q == s \ {Some(s)}
    <3>1. s # {}
      BY <2>1, Sizes
    <3>2. Some(s) \in D /\ q \in SUBSET D /\ Cardinality(q) = n
      BY <2>1, <3>1, OneLess
    <3>3. g[s] = l[Some(s)] + g[q]
      BY <3>1 DEF Sums
    <3>4. g[q] >= n * (t + 1)
      BY <1>2, <3>2
    <3>5. l[Some(s)] \in Nat /\ l[Some(s)] >= t + 1 /\ g[q] \in Nat
      BY <3>2
    <3>6. (n + 1) * (t + 1) = n * (t + 1) + (t + 1) /\ n * (t + 1) \in Nat
      OBVIOUS
    <3> HIDE DEF q
    <3>7. QED
      BY <3>3, <3>4, <3>5, <3>6
  <2>2. QED
    BY <2>1
<1>3. Cardinality(D) \in Nat
  BY FS_CardinalityType
<1> HIDE DEF T
<1>4. Cardinality(D) \in T
  BY <1>1, <1>2, <1>3, Induction
<1>5. QED
  BY <1>4 DEF T

\* The quotient is a natural, and the least loaded device is not above it.
LEMMA LeastIsNotAbove ==
  ASSUME NEW r, load[r] \in [DOMAIN load[r] -> Nat],
         DOMAIN load[r] \subseteq Devices, DOMAIN load[r] # {}
  PROVE  /\ TargetLoad(r) \in Nat
         /\ \A d \in LeastLoaded(r) : d \in DOMAIN load[r] /\ load[r][d] <= TargetLoad(r)
<1> DEFINE D == DOMAIN load[r]
           l == load[r]
           n == Cardinality(D)
           total == Total(r)
           t == TargetLoad(r)
<1>1. IsFiniteSet(D) /\ D \subseteq Devices /\ D # {} /\ l \in [D -> Nat]
  BY HoldersAssumption, FS_Subset
<1>2. n \in Nat \ {0}
  BY <1>1, FS_CardinalityType, FS_EmptySet
<1>3. total = (CHOOSE g : Sums(g, l, D))[D]
  BY DEF Total, FoldSet, MapThenFoldSet, Sums, Some
<1>4. t = total \div n
  BY DEF TargetLoad
<1> HIDE DEF D, l, n, total, t
<1>5. \E g \in [SUBSET D -> Nat] : Sums(g, l, D)
  BY <1>1, SumsExist
<1> DEFINE h == CHOOSE g : Sums(g, l, D)
<1>6. Sums(h, l, D)
  BY <1>5
<1>7. h \in [SUBSET D -> Nat]
  <2>1. PICK g \in [SUBSET D -> Nat] : Sums(g, l, D)
    BY <1>5
  <2>2. QED
    BY <1>1, <1>6, <2>1, SumsAgree
<1> HIDE DEF h
<1>8. total \in Nat
  BY <1>3, <1>7 DEF h
<1>9. t \in Nat /\ total < n * (t + 1)
  BY <1>2, <1>4, <1>8
<1>10. \E d \in D : l[d] <= t
  <2>1. SUFFICES ASSUME \A d \in D : ~ (l[d] <= t) PROVE FALSE
    OBVIOUS
  <2>2. \A d \in D : l[d] > t
    BY <1>1, <1>9, <2>1
  <2>3. h[D] >= Cardinality(D) * (t + 1)
    BY <1>1, <1>6, <1>7, <1>9, <2>2, SumIsLarge
  <2>4. n * (t + 1) \in Nat
    BY <1>2, <1>9
  <2>5. QED
    BY <1>3, <1>8, <1>9, <2>3, <2>4 DEF h, n
<1>11. PICK e \in D : l[e] <= t
  BY <1>10
<1>12. ASSUME NEW d \in LeastLoaded(r) PROVE d \in D /\ l[d] <= t
  <2>1. d \in D /\ l[d] <= l[e]
    BY <1>12 DEF LeastLoaded, D, l
  <2>2. QED
    BY <1>1, <1>9, <1>11, <2>1
<1>13. QED
  BY <1>9, <1>12 DEF D, l, t

-----------------------------------------------------------------------------
(* The types, and where a move goes.                                       *)

\* Where a rebalance is, its loads are those of some devices of the user, the
\* loops run over these, and the device at hand has what it had less its moves.
PlanOf(r) ==
  /\ load[r] \in [DOMAIN load[r] -> Nat] /\ DOMAIN load[r] \subseteq Devices
  /\ pc[r] = "count" => unvisited[r] # {}
  /\ pc[r] \in {"devices", "chunks"} \cup Moving =>
       DOMAIN load[r] # {} /\ unvisited[r] \subseteq DOMAIN load[r]
  /\ pc[r] \in {"chunks"} \cup Moving =>
       move[r].from \in DOMAIN load[r] /\ load[r][move[r].from] = move[r].count - move[r].moved
  /\ pc[r] \in Moving => /\ move[r].to \in DOMAIN load[r]
                         /\ load[r][move[r].to] < load[r][move[r].from]

PlanTypeOK ==
  /\ pc \in [Rebalances -> Phases]
  /\ DOMAIN load = Rebalances
  /\ snapshot \in [Rebalances -> SUBSET (Chunks \X Devices)]
  /\ unvisited \in [Rebalances -> SUBSET Devices]
  /\ unseen \in [Rebalances -> SUBSET Chunks]
  /\ move \in [Rebalances -> Moves]

TypeInv ==
  /\ CatalogTypeOK
  /\ AgentTypeOK
  /\ HasTask
  /\ PlanTypeOK
  /\ \A r \in Rebalances : PlanOf(r)

HistoryTypeOK == crossed \subseteq Chunks /\ refused \subseteq {"insert", "delete"} \X Chunks

LEMMA TypeParts == TypeInv => (HistoryTypeOK => TypeOK) /\ MovesDownhill
  BY DEF TypeInv, TypeOK, PlanTypeOK, HistoryTypeOK, PlanOf, MovesDownhill

LEMMA InitType == Init => TypeInv
<1> SUFFICES ASSUME Init PROVE TypeInv
  OBVIOUS
<1>1. CatalogTypeOK
  <2>1. locations \subseteq Chunks \X Devices
    BY HoldersAssumption DEF Init, Placements, Uploaded
  <2>2. \A c \in Uploaded : RowsOf(c) # {} /\ RowsOf(c) \subseteq Rows
    BY DEF Uploaded, RowsOf, Rows
  <2>3. chunks \in [Chunks -> Rows \cup {NoRow}]
    BY <2>2 DEF Init
  <2>4. QED
    BY <2>1, <2>3 DEF Init, CatalogTypeOK
<1>2. AgentTypeOK /\ HasTask
  <2>1. saved \subseteq Chunks \X Devices
    BY HoldersAssumption DEF Init, Placements, Uploaded
  <2>2. QED
    BY <2>1 DEF Init, AgentTypeOK, HasTask
<1>3. PlanTypeOK
  <2>1. NoMove \in Moves
    <3>1. (CHOOSE d \in Devices : TRUE) \in Devices /\ (CHOOSE c \in Chunks : TRUE) \in Chunks
      BY HoldersAssumption
    <3>2. QED
      BY <3>1 DEF NoMove, Moves
  <2>2. QED
    BY <2>1 DEF Init, PlanTypeOK, Phases
<1>4. \A r \in Rebalances : PlanOf(r)
  <2>1. \A r \in Rebalances : load[r] = <<>> /\ pc[r] = "idle"
    BY DEF Init
  <2>2. <<>> \in [DOMAIN <<>> -> Nat] /\ DOMAIN <<>> \subseteq Devices
    OBVIOUS
  <2>3. QED
    BY <2>1, <2>2 DEF PlanOf, Moving
<1>5. QED
  BY <1>1, <1>2, <1>3, <1>4 DEF TypeInv

\* A rebalance whose variables stay as they are.
LEMMA PlanFrame ==
  ASSUME NEW r \in Rebalances, PlanOf(r),
         pc'[r] = pc[r], load'[r] = load[r], unvisited'[r] = unvisited[r], move'[r] = move[r]
  PROVE  PlanOf(r)'
  BY DEF PlanOf

\* A step of one rebalance is not a step of another.
LEMMA OneRebalanceSteps ==
  ASSUME TypeInv, NEW r \in Rebalances, RebalanceBegin(r) \/ Step(r)
  PROVE  \A q \in Rebalances \ {r} :
           /\ pc'[q] = pc[q] /\ load'[q] = load[q] /\ snapshot'[q] = snapshot[q]
           /\ unvisited'[q] = unvisited[q] /\ unseen'[q] = unseen[q] /\ move'[q] = move[q]
<1> SUFFICES ASSUME NEW q \in Rebalances, q # r
             PROVE  /\ pc'[q] = pc[q] /\ load'[q] = load[q] /\ snapshot'[q] = snapshot[q]
                    /\ unvisited'[q] = unvisited[q] /\ unseen'[q] = unseen[q] /\ move'[q] = move[q]
  OBVIOUS
<1> USE DEF TypeInv, PlanTypeOK, GoTo, planVars
<1>1. CASE RebalanceBegin(r)
  BY <1>1 DEF RebalanceBegin
<1>2. CASE RebalanceCount(r)
  BY <1>2 DEF RebalanceCount
<1>3. CASE RebalanceDevice(r)
  BY <1>3 DEF RebalanceDevice
<1>4. CASE RebalanceChunk(r)
  BY <1>4 DEF RebalanceChunk
<1>5. CASE RebalanceCountFails(r) \/ RebalanceNextDevice(r) \/ RebalanceEnd(r)
  BY <1>5 DEF RebalanceCountFails, RebalanceNextDevice, RebalanceEnd
<1>6. CASE MoveRetrieve(r) \/ MoveTimeout(r) \/ MoveStore(r) \/ MoveInsert(r) \/ MoveDelete(r)
  BY <1>6 DEF MoveRetrieve, MoveTimeout, MoveStore, MoveInsert, MoveDelete
<1>7. CASE MoveData(r)
  BY <1>7 DEF MoveData
<1>8. CASE MoveForget(r)
  BY <1>8 DEF MoveForget
<1>9. QED
  BY <1>1, <1>2, <1>3, <1>4, <1>5, <1>6, <1>7, <1>8 DEF Step, PlanStep, MoveStep

\* A step of a rebalance that leaves the disks and the agents' loops alone.
LEMMA InjectType ==
  ASSUME TypeInv, NEW r \in Rebalances, NEW d, NEW type \in {"STORE", "RETRIEVE", "DELETE"},
         NEW c \in Chunks, Inject(r, d, type, c), UNCHANGED <<diskVars, loopVars>>
  PROVE  AgentTypeOK' /\ HasTask'
<1> DEFINE command == [type |-> type, chunk |-> c, by |-> r]
<1>1. command \in Commands
  BY DEF Commands, Rebalances
<1>2. inbox' \in [Agents -> SUBSET Commands]
  <2>1. inbox \in [Agents -> SUBSET Commands]
    BY DEF TypeInv, AgentTypeOK
  <2>2. inbox' = inbox \/ (d \in Agents /\ inbox' = [inbox EXCEPT ![d] = @ \cup {command}])
    BY DEF Inject
  <2> HIDE DEF command
  <2>3. QED
    BY <1>1, <2>1, <2>2
<1>3. UNCHANGED <<answers, sentOn>>
  BY DEF Inject
<1>4. QED
  BY <1>2, <1>3 DEF TypeInv, AgentTypeOK, HasTask, diskVars, loopVars

\* What is stored is a chunk, if not always the one that was asked for.
LEMMA SentIsChunk ==
  ASSUME TypeInv, NEW r \in Rebalances
  PROVE  Sent(r) \in Chunks
<1>1. move[r].chunk \in Chunks /\ move[r].data \in {"whole", "part", "none"}
  BY DEF TypeInv, PlanTypeOK, Moves
<1>2. QED
  BY <1>1, FragmentsAssumption DEF Sent

LEMMA RebalanceType ==
  ASSUME TypeInv, NEW r \in Rebalances, RebalanceBegin(r) \/ Step(r), UNCHANGED loopVars
  PROVE  TypeInv'
<1> DEFINE m == move[r]
           l == load[r]
           D == DOMAIN load[r]
<1>1. /\ CatalogTypeOK /\ AgentTypeOK /\ HasTask /\ PlanTypeOK /\ PlanOf(r)
      /\ \A q \in Rebalances : PlanOf(q)
  BY DEF TypeInv
<1>2. ASSUME CatalogTypeOK', AgentTypeOK', HasTask', PlanTypeOK', PlanOf(r)' PROVE TypeInv'
  <2>1. ASSUME NEW q \in Rebalances PROVE PlanOf(q)'
    <3>1. CASE q = r
      BY <1>2, <3>1
    <3>2. CASE q # r
      BY <1>1, <3>2, OneRebalanceSteps, PlanFrame
    <3>3. QED
      BY <3>1, <3>2
  <2>2. QED
    BY <1>2, <2>1 DEF TypeInv
<1>3. /\ m.from \in Devices /\ m.to \in Devices /\ m.chunk \in Chunks
      /\ m.count \in Nat /\ m.moved \in Nat /\ m \in Moves
  BY <1>1 DEF PlanTypeOK, Moves
<1>4. \A phase \in Phases : GoTo(r, phase) => pc' \in [Rebalances -> Phases] /\ pc'[r] = phase
  BY <1>1 DEF PlanTypeOK, GoTo
<1>5. CASE RebalanceBegin(r)
  <2>1. PICK online \in SUBSET Devices :
          IF Cardinality(online) < 2
            THEN GoTo(r, "done") /\ UNCHANGED unvisited
            ELSE GoTo(r, "count") /\ unvisited' = [unvisited EXCEPT ![r] = online]
    BY <1>5 DEF RebalanceBegin
  <2>2. UNCHANGED <<catalogVars, relayVars, diskVars, load, snapshot, unseen, move>>
    BY <1>5 DEF RebalanceBegin
  <2>3. Cardinality({}) = 0
    BY FS_EmptySet
  <2>4. /\ pc' \in [Rebalances -> Phases] /\ unvisited' \in [Rebalances -> SUBSET Devices]
        /\ pc'[r] = "done" \/ (pc'[r] = "count" /\ unvisited'[r] # {})
    <3>1. "done" \in Phases /\ "count" \in Phases
      BY DEF Phases
    <3>2. pc' \in [Rebalances -> Phases]
      BY <1>4, <2>1, <3>1
    <3>3. unvisited' \in [Rebalances -> SUBSET Devices]
      BY <1>1, <2>1 DEF PlanTypeOK
    <3>4. pc'[r] = "done" \/ (pc'[r] = "count" /\ Cardinality(online) # 0 /\ unvisited'[r] = online)
      BY <1>1, <1>4, <2>1, <3>1 DEF PlanTypeOK
    <3>5. QED
      BY <2>3, <3>2, <3>3, <3>4
  <2>5. PlanTypeOK' /\ PlanOf(r)'
    BY <1>1, <2>2, <2>4 DEF PlanTypeOK, PlanOf, Moving
  <2>6. QED
    BY <1>1, <1>2, <2>2, <2>5, CatalogFrame, AgentFrame
<1>6. CASE RebalanceCount(r)
  <2>1. /\ pc[r] = "count"
        /\ snapshot' = [snapshot EXCEPT ![r] = locations]
        /\ load' = [load EXCEPT ![r] = [d \in unvisited[r] |-> Cardinality(On(d, locations))]]
        /\ GoTo(r, "devices")
        /\ UNCHANGED <<catalogVars, relayVars, diskVars, unvisited, unseen, move>>
    BY <1>6 DEF RebalanceCount
  <2>2. \A d \in Devices : Cardinality(On(d, locations)) \in Nat
    <3>1. \A d \in Devices : On(d, locations) \in SUBSET Chunks
      BY DEF On
    <3>2. QED
      BY <3>1, HoldersAssumption, Sizes
  <2>3. load'[r] = [d \in unvisited[r] |-> Cardinality(On(d, locations))]
    BY <1>1, <2>1 DEF PlanTypeOK
  <2>4. unvisited[r] \subseteq Devices /\ unvisited[r] # {} /\ unvisited'[r] = unvisited[r]
    BY <1>1, <2>1 DEF PlanTypeOK, PlanOf
  <2>5. pc' \in [Rebalances -> Phases] /\ pc'[r] = "devices"
    BY <1>4, <2>1 DEF Phases
  <2>6. locations \in SUBSET (Chunks \X Devices)
    BY <1>1 DEF CatalogTypeOK
  <2>7. PlanTypeOK'
    BY <1>1, <2>1, <2>5, <2>6 DEF PlanTypeOK
  <2>8. PlanOf(r)'
    BY <2>2, <2>3, <2>4, <2>5 DEF PlanOf, Moving
  <2>9. QED
    BY <1>1, <1>2, <2>1, <2>7, <2>8, CatalogFrame, AgentFrame
<1>7. CASE RebalanceDevice(r)
  <2>1. pc[r] = "devices" /\ UNCHANGED <<catalogVars, relayVars, diskVars, load, snapshot>>
    BY <1>7 DEF RebalanceDevice
  <2>2. PICK d \in unvisited[r] :
          /\ unvisited' = [unvisited EXCEPT ![r] = @ \ {d}]
          /\ \/ /\ move' = [move EXCEPT ![r].from = d, ![r].count = l[d], ![r].moved = 0]
                /\ unseen' = [unseen EXCEPT ![r] = On(d, snapshot[r])]
                /\ GoTo(r, "chunks")
             \/ UNCHANGED <<move, unseen, pc>>
    BY <1>7 DEF RebalanceDevice
  <2>3. d \in D /\ d \in Devices /\ l[d] \in Nat /\ unvisited[r] \subseteq D /\ D # {}
    BY <1>1, <2>1, <2>2 DEF PlanOf
  <2>4. unvisited' \in [Rebalances -> SUBSET Devices] /\ unvisited'[r] \subseteq D
    BY <1>1, <2>2, <2>3 DEF PlanTypeOK
  <2>5. CASE UNCHANGED <<move, unseen, pc>>
    <3>1. PlanTypeOK' /\ PlanOf(r)'
      BY <1>1, <2>1, <2>4, <2>5 DEF PlanTypeOK, PlanOf, Moving
    <3>2. QED
      BY <1>1, <1>2, <2>1, <3>1, CatalogFrame, AgentFrame
  <2>6. CASE /\ move' = [move EXCEPT ![r].from = d, ![r].count = l[d], ![r].moved = 0]
             /\ unseen' = [unseen EXCEPT ![r] = On(d, snapshot[r])]
             /\ GoTo(r, "chunks")
    <3>1. move'[r] = [m EXCEPT !.from = d, !.count = l[d], !.moved = 0]
      BY <1>1, <2>6 DEF PlanTypeOK
    <3>2. move'[r] \in Moves /\ move'[r].from = d /\ move'[r].count = l[d] /\ move'[r].moved = 0
      <4> DEFINE q == move'[r]
                 n == l[d]
      <4>1. m \in Moves /\ n \in Nat /\ q = [m EXCEPT !.from = d, !.count = n, !.moved = 0]
        BY <1>3, <2>3, <3>1
      <4> HIDE DEF m, q, n
      <4>2. q \in Moves /\ q.from = d /\ q.count = n /\ q.moved = 0
        BY <2>3, <4>1 DEF Moves
      <4>3. QED
        BY <4>2 DEF q, n
    <3>3. move' \in [Rebalances -> Moves]
      BY <1>1, <2>6, <3>1, <3>2 DEF PlanTypeOK
    <3>4. unseen' \in [Rebalances -> SUBSET Chunks]
      BY <1>1, <2>6 DEF PlanTypeOK, On
    <3>5. pc' \in [Rebalances -> Phases] /\ pc'[r] = "chunks"
      BY <1>4, <2>6 DEF Phases
    <3>6. PlanTypeOK'
      BY <1>1, <2>1, <2>4, <3>3, <3>4, <3>5 DEF PlanTypeOK
    <3>7. l[d] = l[d] - 0
      BY <2>3
    <3>8. PlanOf(r)'
      BY <1>1, <2>1, <2>3, <2>4, <3>2, <3>5, <3>7 DEF PlanOf, Moving
    <3>9. QED
      BY <1>1, <1>2, <2>1, <3>6, <3>8, CatalogFrame, AgentFrame
  <2>7. QED
    BY <2>2, <2>5, <2>6
<1>8. CASE RebalanceChunk(r)
  <2>1. /\ pc[r] = "chunks" /\ m.moved < m.count - TargetLoad(r)
        /\ UNCHANGED <<catalogVars, relayVars, diskVars, load, snapshot, unvisited>>
    BY <1>8 DEF RebalanceChunk
  <2>2. PICK c \in unseen[r], d \in LeastLoaded(r) :
          /\ unseen' = [unseen EXCEPT ![r] = @ \ {c}]
          /\ \/ move' = [move EXCEPT ![r].chunk = c, ![r].to = d] /\ GoTo(r, "retrieve")
             \/ UNCHANGED <<move, pc>>
    BY <1>8 DEF RebalanceChunk
  <2>3. /\ l \in [D -> Nat] /\ D \subseteq Devices /\ D # {} /\ unvisited[r] \subseteq D
        /\ m.from \in D /\ l[m.from] = m.count - m.moved
    BY <1>1, <2>1 DEF PlanOf
  <2>4. TargetLoad(r) \in Nat /\ d \in D /\ l[d] <= TargetLoad(r)
    BY <2>3, LeastIsNotAbove
  <2>5. l[d] < l[m.from]
    BY <1>3, <2>1, <2>3, <2>4
  <2>6. unseen' \in [Rebalances -> SUBSET Chunks] /\ c \in Chunks
    BY <1>1, <2>2 DEF PlanTypeOK
  <2>7. CASE UNCHANGED <<move, pc>>
    <3>1. PlanTypeOK' /\ PlanOf(r)'
      BY <1>1, <2>1, <2>6, <2>7 DEF PlanTypeOK, PlanOf
    <3>2. QED
      BY <1>1, <1>2, <2>1, <3>1, CatalogFrame, AgentFrame
  <2>8. CASE move' = [move EXCEPT ![r].chunk = c, ![r].to = d] /\ GoTo(r, "retrieve")
    <3>1. move'[r] = [m EXCEPT !.chunk = c, !.to = d]
      BY <1>1, <2>8 DEF PlanTypeOK
    <3>2. /\ move'[r] \in Moves /\ move'[r].from = m.from /\ move'[r].to = d
          /\ move'[r].count = m.count /\ move'[r].moved = m.moved
      BY <1>3, <2>3, <2>4, <2>6, <3>1 DEF Moves
    <3>3. move' \in [Rebalances -> Moves]
      BY <1>1, <2>8, <3>1, <3>2 DEF PlanTypeOK
    <3>4. pc' \in [Rebalances -> Phases] /\ pc'[r] = "retrieve"
      BY <1>4, <2>8 DEF Phases
    <3>5. PlanTypeOK'
      BY <1>1, <2>1, <2>6, <3>3, <3>4 DEF PlanTypeOK
    <3>6. PlanOf(r)'
      BY <2>1, <2>3, <2>4, <2>5, <3>2, <3>4 DEF PlanOf, Moving
    <3>7. QED
      BY <1>1, <1>2, <2>1, <3>5, <3>6, CatalogFrame, AgentFrame
  <2>9. QED
    BY <2>2, <2>7, <2>8
<1>9. ASSUME NEW phase \in Phases, GoTo(r, phase), phase \in Moving => pc[r] \in Moving,
             phase # "count", phase \in {"devices", "chunks"} => pc[r] \in {"devices", "chunks"} \cup Moving,
             phase = "chunks" => pc[r] \in Moving, UNCHANGED planVars
      PROVE  PlanTypeOK' /\ PlanOf(r)'
  <2>1. pc' \in [Rebalances -> Phases] /\ pc'[r] = phase
    BY <1>4, <1>9
  <2>2. UNCHANGED <<load, snapshot, unvisited, unseen, move>>
    BY <1>9 DEF planVars
  <2>3. QED
    BY <1>1, <1>9, <2>1, <2>2 DEF PlanTypeOK, PlanOf
<1>10. CASE RebalanceCountFails(r) \/ RebalanceNextDevice(r) \/ RebalanceEnd(r)
  <2>1. /\ \/ pc[r] \in {"devices", "chunks"} /\ GoTo(r, "devices")
           \/ GoTo(r, "done")
        /\ \E phase \in {"devices", "done"} : GoTo(r, phase)
        /\ UNCHANGED <<catalogVars, relayVars, diskVars, planVars>>
    BY <1>10 DEF RebalanceCountFails, RebalanceNextDevice, RebalanceEnd
  <2>2. PlanTypeOK' /\ PlanOf(r)'
    BY <1>9, <2>1 DEF Phases, Moving
  <2>3. QED
    BY <1>1, <1>2, <2>1, <2>2, CatalogFrame, AgentFrame
<1>11. CASE MoveTimeout(r) \/ MoveInsert(r)
  <2>1. /\ pc[r] \in Moving /\ \E phase \in {"chunks", "delete"} : GoTo(r, phase)
        /\ UNCHANGED <<relayVars, diskVars, planVars>>
        /\ UNCHANGED catalogVars \/ InsertLocation(m.chunk, m.to)
    BY <1>11 DEF MoveTimeout, MoveInsert, Refusal, Moving
  <2>2. PlanTypeOK' /\ PlanOf(r)'
    BY <1>9, <2>1 DEF Phases, Moving
  <2>3. CatalogTypeOK'
    BY <1>1, <1>3, <2>1, CatalogFrame, ChunkStatementsType
  <2>4. QED
    BY <1>1, <1>2, <2>1, <2>2, <2>3, AgentFrame
<1>12. CASE MoveRetrieve(r) \/ MoveDelete(r) \/ MoveStore(r)
  <2>1. /\ pc[r] \in Moving /\ \E phase \in {"data", "forget", "insert"} : GoTo(r, phase)
        /\ \/ Inject(r, m.from, "RETRIEVE", m.chunk) \/ Inject(r, m.from, "DELETE", m.chunk)
           \/ Inject(r, m.to, "STORE", Sent(r))
        /\ UNCHANGED <<catalogVars, diskVars, planVars>>
    BY <1>12 DEF MoveRetrieve, MoveDelete, MoveStore, Moving
  <2>2. PlanTypeOK' /\ PlanOf(r)'
    BY <1>9, <2>1 DEF Phases, Moving
  <2>3. AgentTypeOK' /\ HasTask'
    BY <1>1, <1>3, <2>1, SentIsChunk, InjectType
  <2>4. QED
    BY <1>1, <1>2, <2>1, <2>2, <2>3, CatalogFrame
<1>13. CASE MoveData(r)
  <2>1. /\ pc[r] = "data" /\ GoTo(r, "store")
        /\ UNCHANGED <<catalogVars, inbox, sentOn, diskVars, load, snapshot, unvisited, unseen>>
    BY <1>13 DEF MoveData
  <2>2. PICK data \in {"whole", "part", "none"} : move' = [move EXCEPT ![r].data = data]
    BY <1>1, <1>13 DEF MoveData, AgentTypeOK, Answers
  <2>3. answers' \subseteq answers
    BY <1>13 DEF MoveData
  <2>4. move'[r] = [m EXCEPT !.data = data]
    BY <1>1, <2>2 DEF PlanTypeOK
  <2>5. /\ move'[r] \in Moves /\ move'[r].from = m.from /\ move'[r].to = m.to
        /\ move'[r].count = m.count /\ move'[r].moved = m.moved
    BY <1>3, <2>4 DEF Moves
  <2>6. move' \in [Rebalances -> Moves]
    BY <1>1, <2>2, <2>4, <2>5 DEF PlanTypeOK
  <2>7. pc' \in [Rebalances -> Phases] /\ pc'[r] = "store"
    BY <1>4, <2>1 DEF Phases
  <2>8. PlanTypeOK'
    BY <1>1, <2>1, <2>6, <2>7 DEF PlanTypeOK
  <2>9. PlanOf(r)'
    BY <1>1, <2>1, <2>5, <2>7 DEF PlanOf, Moving
  <2>10. AgentTypeOK' /\ HasTask'
    BY <1>1, <2>1, <2>3 DEF AgentTypeOK, HasTask, diskVars, loopVars
  <2>11. QED
    BY <1>1, <1>2, <2>1, <2>8, <2>9, <2>10, CatalogFrame
<1>14. CASE MoveForget(r)
  <2>1. /\ pc[r] = "forget" /\ GoTo(r, "chunks")
        /\ DeleteLocation(m.chunk, m.from) \/ UNCHANGED catalogVars
        /\ load' = [load EXCEPT ![r][m.from] = @ - 1, ![r][m.to] = @ + 1]
        /\ move' = [move EXCEPT ![r].moved = @ + 1]
        /\ UNCHANGED <<relayVars, diskVars, snapshot, unvisited, unseen>>
    BY <1>14 DEF MoveForget, Refusal
  <2>2. /\ l \in [D -> Nat] /\ D \subseteq Devices /\ D # {} /\ unvisited[r] \subseteq D
        /\ m.from \in D /\ l[m.from] = m.count - m.moved
        /\ m.to \in D /\ l[m.to] < l[m.from]
    BY <1>1, <2>1 DEF PlanOf, Moving
  <2>3. load'[r] = [l EXCEPT ![m.from] = @ - 1, ![m.to] = @ + 1]
    BY <1>1, <2>1 DEF PlanTypeOK
  <2>4. move'[r] = [m EXCEPT !.moved = m.moved + 1]
    BY <1>1, <2>1 DEF PlanTypeOK
  <2>5. /\ move'[r] \in Moves /\ move'[r].from = m.from
        /\ move'[r].count = m.count /\ move'[r].moved = m.moved + 1
    BY <1>3, <2>4 DEF Moves
  <2>6. l[m.from] - 1 \in Nat /\ l[m.to] + 1 \in Nat /\ m.from # m.to
    BY <2>2
  <2>7. /\ load'[r] \in [D -> Nat] /\ DOMAIN load'[r] = D
        /\ load'[r][m.from] = l[m.from] - 1
    BY <2>2, <2>3, <2>6
  <2>8. l[m.from] - 1 = m.count - (m.moved + 1)
    BY <1>3, <2>2
  <2>9. move' \in [Rebalances -> Moves]
    BY <1>1, <2>1, <2>4, <2>5 DEF PlanTypeOK
  <2>10. pc' \in [Rebalances -> Phases] /\ pc'[r] = "chunks"
    BY <1>4, <2>1 DEF Phases
  <2>11. PlanTypeOK'
    BY <1>1, <2>1, <2>9, <2>10 DEF PlanTypeOK
  <2>12. PlanOf(r)'
    BY <2>1, <2>2, <2>5, <2>7, <2>8, <2>10 DEF PlanOf, Moving
  <2>13. CatalogTypeOK'
    BY <1>1, <2>1, CatalogFrame DEF CatalogTypeOK, DeleteLocation
  <2>14. QED
    BY <1>1, <1>2, <2>1, <2>11, <2>12, <2>13, AgentFrame
<1>15. QED
  BY <1>5, <1>6, <1>7, <1>8, <1>10, <1>11, <1>12, <1>13, <1>14 DEF Step, PlanStep, MoveStep

LEMMA NextType == TypeInv /\ [Next]_vars => TypeInv'
<1> SUFFICES ASSUME TypeInv, [Next]_vars PROVE TypeInv'
  OBVIOUS
<1>1. ASSUME UNCHANGED <<pc, planVars>>, CatalogTypeOK', AgentTypeOK', HasTask' PROVE TypeInv'
  BY <1>1, PlanFrame DEF TypeInv, PlanTypeOK, planVars
<1>2. CASE UNCHANGED vars
  BY <1>1, <1>2, CatalogFrame, AgentFrame DEF TypeInv, vars
<1>3. ASSUME NEW r \in Rebalances, RebalanceBegin(r) \/ Step(r), UNCHANGED loopVars PROVE TypeInv'
  BY <1>3, RebalanceType
<1>4. ASSUME NEW d \in Agents, AgentStep(d), UNCHANGED <<pc, planVars>> PROVE TypeInv'
  BY <1>1, <1>4, AgentType DEF TypeInv
<1>5. QED
  BY <1>2, <1>3, <1>4 DEF Next

\* Every variable keeps its type, and a rebalance never counts below zero or
\* past the devices it knows.
THEOREM TypeCorrect == Spec => []TypeOK
<1>1. Init => HistoryTypeOK
  BY DEF Init, HistoryTypeOK
<1>2. TypeInv /\ HistoryTypeOK /\ [Next]_vars => HistoryTypeOK'
  <2> SUFFICES ASSUME TypeInv, HistoryTypeOK, [Next]_vars PROVE HistoryTypeOK'
    OBVIOUS
  <2>1. \A r \in Rebalances : move[r].chunk \in Chunks
    BY DEF TypeInv, PlanTypeOK, Moves
  <2>2. ASSUME NEW r \in Rebalances, NoteCrossing(r) PROVE crossed' \subseteq Chunks
    BY <2>1, <2>2 DEF NoteCrossing, HistoryTypeOK
  <2>3. ASSUME NEW r \in Rebalances, Step(r) PROVE refused' \subseteq {"insert", "delete"} \X Chunks
    <3>1. refused' = refused \/ \E statement \in {"insert", "delete"} : Refusal(r, statement)
      BY <2>3 DEF Step, MoveInsert, MoveForget
    <3>2. QED
      BY <2>1, <3>1 DEF Refusal, HistoryTypeOK
  <2>4. QED
    BY <2>2, <2>3 DEF Next, vars, HistoryTypeOK
<1>3. QED
  BY <1>1, <1>2, InitType, NextType, TypeParts, PTL DEF Spec

\* Every move goes to a device with fewer chunks than the one it comes from,
\* whatever else runs and whatever moves failed before it.
THEOREM MovesGoDownhill == Spec => []MovesDownhill
  BY InitType, NextType, TypeParts, PTL DEF Spec

-----------------------------------------------------------------------------
(* Every step brings a rebalance closer to its end.                        *)

LEMMA StepIsCloser ==
  ASSUME TypeInv, NEW r \in Rebalances, Step(r)
  PROVE  Closer(r)
<1>1. /\ pc \in [Rebalances -> Phases] /\ unvisited \in [Rebalances -> SUBSET Devices]
      /\ unseen \in [Rebalances -> SUBSET Chunks]
  BY DEF TypeInv, PlanTypeOK
<1>2. \A phase : GoTo(r, phase) => pc'[r] = phase
  BY <1>1 DEF GoTo
<1>3. ASSUME unvisited' = unvisited, unseen' = unseen, Progress[pc'[r]] > Progress[pc[r]] PROVE Closer(r)
  BY <1>3 DEF Closer
<1>4. CASE RebalanceDevice(r)
  <2>1. PICK d \in unvisited[r] : unvisited' = [unvisited EXCEPT ![r] = @ \ {d}]
    BY <1>4 DEF RebalanceDevice
  <2>2. unvisited'[r] = unvisited[r] \ {d}
    BY <1>1, <2>1
  <2>3. QED
    BY <2>1, <2>2 DEF Closer
<1>5. CASE RebalanceChunk(r)
  <2>1. PICK c \in unseen[r] : unseen' = [unseen EXCEPT ![r] = @ \ {c}]
    BY <1>5 DEF RebalanceChunk
  <2>2. unseen'[r] = unseen[r] \ {c} /\ unvisited' = unvisited
    BY <1>1, <1>5, <2>1 DEF RebalanceChunk
  <2>3. QED
    BY <2>1, <2>2 DEF Closer
<1>6. CASE RebalanceCount(r) \/ RebalanceCountFails(r) \/ RebalanceNextDevice(r) \/ RebalanceEnd(r)
  <2>1. /\ UNCHANGED <<unvisited, unseen>>
        /\ \/ pc[r] = "count" /\ pc'[r] \in {"devices", "done"}
           \/ pc[r] = "chunks" /\ pc'[r] = "devices"
           \/ pc[r] = "devices" /\ pc'[r] = "done"
    BY <1>2, <1>6 DEF RebalanceCount, RebalanceCountFails, RebalanceNextDevice, RebalanceEnd, planVars
  <2>2. QED
    BY <1>3, <2>1 DEF Progress
<1>7. CASE MoveStep(r) \/ MoveInsert(r) \/ MoveForget(r)
  <2>1. /\ UNCHANGED <<unvisited, unseen>>
        /\ \/ pc[r] = "retrieve" /\ pc'[r] = "data"
           \/ pc[r] = "data" /\ pc'[r] \in {"store", "chunks"}
           \/ pc[r] = "store" /\ pc'[r] = "insert"
           \/ pc[r] = "insert" /\ pc'[r] = "delete"
           \/ pc[r] = "delete" /\ pc'[r] = "forget"
           \/ pc[r] = "forget" /\ pc'[r] = "chunks"
    BY <1>2, <1>7 DEF MoveStep, MoveRetrieve, MoveData, MoveTimeout, MoveStore, MoveInsert, MoveDelete,
      MoveForget, planVars
  <2>2. QED
    BY <1>3, <2>1 DEF Progress
<1>8. QED
  BY <1>4, <1>5, <1>6, <1>7 DEF Step, PlanStep

\* Whatever runs beside it, each step of a rebalance leaves it fewer devices to
\* visit, or fewer chunks to see, or further on with the chunk at hand: with
\* finitely many of both (HoldersAssumption) it takes finitely many steps.
THEOREM RebalancesComeToAnEnd == Spec => RebalancesConverge
<1>1. TypeInv => \A r \in Rebalances : Step(r) => Closer(r)
  BY StepIsCloser
<1>2. QED
  BY <1>1, InitType, NextType, PTL DEF Spec, RebalancesConverge

-----------------------------------------------------------------------------
(* No chunk loses its last location unless two rebalances cross.           *)

\* A STORE of the chunk that the agent has still to report.
Storing(d, c) ==
  \/ \E m \in inbox[d] : m.type = "STORE" /\ m.chunk = c
  \/ Handling(d, "STORE") /\ task[d].chunk = c
  \/ apc[d] = "saved" /\ task[d].chunk = c

\* What an agent can do to the locations, and to what is left to report.
LEMMA AgentReports ==
  ASSUME AgentTypeOK, NEW d \in Agents, AgentStep(d)
  PROVE  /\ deletions' = deletions
         /\ \/ locations' = locations
            \/ Storing(d, task[d].chunk) /\ locations' = locations \cup {<<task[d].chunk, d>>}
         /\ \A e \in Agents, c \in Chunks : Storing(e, c)' => Storing(e, c)
<1> USE DEF AgentTypeOK, catalogVars, relayVars, diskVars, Handling
<1>1. CASE Poll(d)
  <2>1. PICK m \in inbox[d] :
          inbox' = [inbox EXCEPT ![d] = @ \ {m}] /\ task' = [task EXCEPT ![d] = m]
    BY <1>1 DEF Poll
  <2>2. apc' = [apc EXCEPT ![d] = "handling"] /\ apc[d] = "polling" /\ UNCHANGED catalogVars
    BY <1>1 DEF Poll
  <2>3. ASSUME NEW e \in Agents, NEW c \in Chunks, Storing(e, c)' PROVE Storing(e, c)
    <3>1. CASE e = d
      <4>1. inbox'[d] \subseteq inbox[d] /\ task'[d] = m /\ apc'[d] = "handling"
        BY <2>1, <2>2
      <4>2. QED
        BY <2>3, <3>1, <4>1 DEF Storing
    <3>2. CASE e # d
      <4>1. inbox'[e] = inbox[e] /\ task'[e] = task[e] /\ apc'[e] = apc[e]
        BY <2>1, <2>2, <3>2
      <4>2. QED
        BY <2>3, <4>1 DEF Storing
    <3>3. QED
      BY <3>1, <3>2
  <2>4. QED
    BY <2>2, <2>3
<1>2. ASSUME inbox' = inbox, task' = task, \E s \in {"saved", "reported"} : apc' = [apc EXCEPT ![d] = s],
             Handling(d, "STORE") \/ apc[d] = "saved"
      PROVE  \A e \in Agents, c \in Chunks : Storing(e, c)' => Storing(e, c)
  BY <1>2 DEF Storing
<1>3. ASSUME inbox' = inbox, task' = [task EXCEPT ![d] = NoTask], apc' = [apc EXCEPT ![d] = "polling"]
      PROVE  \A e \in Agents, c \in Chunks : Storing(e, c)' => Storing(e, c)
  BY <1>3 DEF Storing
<1>4. CASE SaveChunk(d)
  BY <1>2, <1>4 DEF SaveChunk
<1>5. CASE ReportChunkLocation(d)
  <2>1. Storing(d, task[d].chunk)
    BY <1>5 DEF ReportChunkLocation, Storing
  <2>2. QED
    BY <1>2, <1>5, <2>1 DEF ReportChunkLocation, InsertLocation
<1>6. CASE SaveChunkFails(d) \/ SendAck(d) \/ HandleRetrieve(d) \/ HandleDelete(d)
  BY <1>3, <1>6 DEF SaveChunkFails, SendAck, HandleRetrieve, HandleDelete, SendAnswer
<1>7. CASE SyncDeletion(d)
  BY <1>7 DEF SyncDeletion, Storing, loopVars
<1>8. QED
  BY <1>1, <1>4, <1>5, <1>6, <1>7 DEF AgentStep

\* Every chunk of a file that was not moved both ways at once, and whose inserts
\* all were carried out, has a location, and one that
\* is about to lose a location has one where it goes.
LocatedInv ==
  /\ ChunksStayLocated
  /\ \A r \in Rebalances :
       pc[r] \in {"delete", "forget"} /\ move[r].chunk \notin crossed /\ <<"insert", move[r].chunk>> \notin refused =>
         <<move[r].chunk, move[r].to>> \in locations

LEMMA InitLocated == Init => LocatedInv
  BY HoldersAssumption DEF Init, Placements, LocatedInv, ChunksStayLocated

\* The step of rebalance r, as the others see it.
LEMMA OthersKeepMoves ==
  ASSUME TypeInv, NEW r \in Rebalances, RebalanceBegin(r) \/ Step(r),
         NEW q \in Rebalances, q # r
  PROVE  pc'[q] = pc[q] /\ move'[q] = move[q]
  BY OneRebalanceSteps

LEMMA NextLocated == TypeInv /\ LocatedInv /\ [Next]_vars => LocatedInv'
<1> SUFFICES ASSUME TypeInv, LocatedInv, [Next]_vars PROVE LocatedInv'
  OBVIOUS
<1>1. ASSUME locations \subseteq locations', crossed \subseteq crossed', refused \subseteq refused',
             \A r \in Rebalances : pc'[r] \in {"delete", "forget"} =>
               /\ pc[r] \in {"delete", "forget"}
               /\ move'[r].chunk = move[r].chunk /\ move'[r].to = move[r].to
      PROVE  LocatedInv'
  BY <1>1 DEF LocatedInv, ChunksStayLocated
<1>2. CASE UNCHANGED vars
  BY <1>1, <1>2 DEF vars, catalogVars, planVars
<1>3. ASSUME NEW d \in Agents, AgentStep(d), UNCHANGED <<pc, planVars, crossed, refused>> PROVE LocatedInv'
  BY <1>1, <1>3, AgentReports DEF TypeInv, planVars
<1>4. ASSUME NEW r \in Rebalances, (RebalanceBegin(r) /\ UNCHANGED refused) \/ Step(r), NoteCrossing(r)
      PROVE  LocatedInv'
  <2>1. /\ pc \in [Rebalances -> Phases] /\ move \in [Rebalances -> Moves]
        /\ crossed \subseteq crossed' /\ refused \subseteq refused'
    BY <1>4 DEF TypeInv, PlanTypeOK, NoteCrossing, Step, MoveInsert, MoveForget, Refusal
  <2>2. \A phase : GoTo(r, phase) => pc'[r] = phase
    BY <2>1 DEF GoTo
  <2>3. \A q \in Rebalances : q # r => pc'[q] = pc[q] /\ move'[q] = move[q]
    BY <1>4, OthersKeepMoves
  <2>4. CASE RebalanceBegin(r) \/ RebalanceCount(r) \/ RebalanceDevice(r) \/ RebalanceChunk(r)
    <3>1. pc'[r] \in {"done", "count", "devices", "chunks", "retrieve"} /\ locations' = locations
      BY <2>2, <2>4 DEF RebalanceBegin, RebalanceCount, RebalanceDevice, RebalanceChunk, catalogVars
    <3>2. QED
      BY <1>1, <2>1, <2>3, <3>1
  <2>5. CASE \/ RebalanceCountFails(r) \/ RebalanceNextDevice(r) \/ RebalanceEnd(r)
             \/ MoveRetrieve(r) \/ MoveData(r) \/ MoveTimeout(r) \/ MoveStore(r)
    <3>1. pc'[r] \in {"devices", "done", "data", "store", "chunks", "insert"} /\ locations' = locations
      BY <2>2, <2>5 DEF RebalanceCountFails, RebalanceNextDevice, RebalanceEnd,
        MoveRetrieve, MoveData, MoveTimeout, MoveStore, catalogVars
    <3>2. QED
      BY <1>1, <2>1, <2>3, <3>1
  <2>6. CASE MoveInsert(r)
    <3>1. /\ \/ locations' = locations \cup {<<move[r].chunk, move[r].to>>}
             \/ locations' = locations /\ <<"insert", move[r].chunk>> \in refused'
          /\ move' = move
      BY <2>6 DEF MoveInsert, InsertLocation, Refusal, planVars, catalogVars
    <3>2. QED
      BY <2>1, <2>3, <3>1 DEF LocatedInv, ChunksStayLocated
  <2>7. CASE MoveDelete(r)
    <3>1. pc[r] = "delete" /\ pc'[r] = "forget" /\ move' = move /\ locations' = locations
      BY <2>2, <2>7 DEF MoveDelete, planVars, catalogVars
    <3>2. QED
      BY <1>1, <2>1, <2>3, <3>1
  <2>8. CASE MoveForget(r)
    <3>1. /\ pc[r] = "forget" /\ pc'[r] = "chunks"
          /\ locations \ {<<move[r].chunk, move[r].from>>} \subseteq locations'
      BY <2>2, <2>8 DEF MoveForget, DeleteLocation, Refusal, catalogVars
    <3>2. move[r].to \in Devices /\ move[r].to # move[r].from
      <4>1. PlanOf(r) /\ move[r].to \in Devices
        BY <2>1 DEF TypeInv, Moves
      <4>2. load[r][move[r].to] < load[r][move[r].from] /\ load[r] \in [DOMAIN load[r] -> Nat]
            /\ move[r].from \in DOMAIN load[r]
        BY <3>1, <4>1 DEF PlanOf, Moving
      <4>3. QED
        BY <4>1, <4>2
    <3>3. ASSUME NEW q \in Rebalances, pc'[q] \in {"delete", "forget"}, move'[q].chunk \notin crossed',
                 <<"insert", move'[q].chunk>> \notin refused'
          PROVE  <<move'[q].chunk, move'[q].to>> \in locations'
      <4>1. q # r /\ pc[q] \in {"delete", "forget"} /\ move'[q] = move[q]
        BY <2>3, <3>1, <3>3
      <4>2. <<move[q].chunk, move[q].to>> \in locations
        BY <2>1, <3>3, <4>1 DEF LocatedInv
      <4>3. ~ Crosses(r, q)
        BY <1>4, <3>3, <4>1 DEF NoteCrossing
      <4>4. ~ (move[q].chunk = move[r].chunk /\ move[q].to = move[r].from)
        BY <3>1, <4>1, <4>3 DEF Crosses
      <4>5. QED
        BY <3>1, <4>1, <4>2, <4>4
    <3>4. ASSUME NEW c \in Uploaded \ crossed', <<"insert", c>> \notin refused'
          PROVE  \E d \in Devices : <<c, d>> \in locations'
      <4>1. PICK d \in Devices : <<c, d>> \in locations
        BY <2>1, <3>4 DEF LocatedInv, ChunksStayLocated
      <4>2. CASE c = move[r].chunk
        <5>1. <<c, move[r].to>> \in locations
          BY <2>1, <3>1, <3>4, <4>2 DEF LocatedInv
        <5>2. QED
          BY <3>1, <3>2, <4>2, <5>1
      <4>3. CASE c # move[r].chunk
        BY <3>1, <4>1, <4>3
      <4>4. QED
        BY <4>2, <4>3
    <3>5. QED
      BY <3>3, <3>4 DEF LocatedInv, ChunksStayLocated
  <2>9. QED
    BY <1>4, <2>4, <2>5, <2>6, <2>7, <2>8 DEF Step, PlanStep, MoveStep
<1>5. QED
  BY <1>2, <1>3, <1>4 DEF Next

\* However many rebalances run, a chunk of a file loses its last location only if
\* one of them deleted the location that another had inserted before it deleted
\* its own, or if the database refused an insert of the chunk.
THEOREM ChunksKeepALocation == Spec => []ChunksStayLocated
<1>1. LocatedInv => ChunksStayLocated
  BY DEF LocatedInv
<1>2. QED
  BY <1>1, InitType, NextType, InitLocated, NextLocated, PTL DEF Spec

-----------------------------------------------------------------------------
(* As long as no other has begun, its loads are those of the catalog.      *)

Sending == {"insert", "delete", "forget"}

Working == {"devices", "chunks"} \cup Moving

\* The chunks the loops may still come to.
Ahead(r) ==
  {c \in Chunks : \/ \E d \in unvisited[r] : <<c, d>> \in snapshot[r]
                  \/ pc[r] \in {"chunks"} \cup Moving /\ c \in unseen[r]}

\* A location that is there, or that will be, and that no load counts yet.
Arriving(r) == IF pc[r] \in Sending THEN {<<move[r].chunk, move[r].to>>} ELSE {}

\* What the rebalance read speaks of the chunks of files only.
ReadsFiles(r) == snapshot[r] \subseteq Uploaded \X Devices

\* The inner loop has chunks that the device at hand had, and only them.
ChunksAtHand(r) ==
  pc[r] \in {"chunks"} \cup Moving =>
    /\ move[r].from \notin unvisited[r]
    /\ \A c \in unseen[r] : <<c, move[r].from>> \in snapshot[r]

\* The chunk on its way comes from the device at hand, and is not met again.
ChunkOnItsWay(r) ==
  pc[r] \in Moving => /\ move[r].chunk \notin Ahead(r)
                      /\ <<move[r].chunk, move[r].from>> \in snapshot[r]

\* The catalog has what the rebalance read of the chunks it has not moved, and
\* of the one it is moving but for the device it goes to.
ReadIsCurrent(r) ==
  /\ pc[r] \in Working =>
       \A c \in Ahead(r) : \A d \in Devices : <<c, d>> \in locations <=> <<c, d>> \in snapshot[r]
  /\ pc[r] \in Moving =>
       \A d \in Devices : pc[r] \notin Sending \/ d # move[r].to =>
         (<<move[r].chunk, d>> \in locations <=> <<move[r].chunk, d>> \in snapshot[r])
  /\ pc[r] \in {"delete", "forget"} => <<move[r].chunk, move[r].to>> \in locations

\* What an agent has still to report of a file's chunk is a location already, or
\* is about to be one, and nothing will take it away.
ReportsAreKnown(r) ==
  \A d \in Agents, c \in Uploaded : Storing(d, c) =>
    /\ pc[r] \in Working => c \notin Ahead(r)
    /\ pc[r] \in Moving /\ c = move[r].chunk => pc[r] \in Sending /\ d = move[r].to
    /\ <<c, d>> \in locations \/ (pc[r] = "insert" /\ c = move[r].chunk /\ d = move[r].to)

LoadsCount(r) ==
  \A d \in DOMAIN load[r] : load[r][d] = Cardinality(On(d, locations \ Arriving(r)) \cap Uploaded)

Counted(r) ==
  /\ ReadsFiles(r)
  /\ ChunksAtHand(r)
  /\ ChunkOnItsWay(r)
  /\ ReadIsCurrent(r)
  /\ ReportsAreKnown(r)
  /\ LoadsCount(r)

LoadsInv ==
  \A r \in Rebalances : Only(r) /\ refused = {} =>
    /\ pc[r] \in {"idle", "count"} =>
         /\ DOMAIN load[r] = {} /\ snapshot[r] = {} /\ locations \subseteq Uploaded \X Devices
         /\ \A d \in Agents, c \in Chunks : ~ Storing(d, c)
    /\ pc[r] \notin {"idle", "count"} /\ Unreplicated(r) => Counted(r)

LEMMA InitLoads == Init => LoadsInv
  BY HoldersAssumption DEF Init, LoadsInv, Placements, Storing, Handling, Rebalances

\* What a chunk is that did not arrive whole is not a chunk of a file.
FragmentsAreNew == EmptyChunk \notin Uploaded /\ \A c \in Uploaded : TornOf[c] \notin Uploaded

\* A command a rebalance sends is a STORE of what it says, or none.
LEMMA InjectStores ==
  ASSUME TypeInv, NEW r \in Rebalances, NEW d, NEW type,
         NEW b, Inject(r, d, type, b), UNCHANGED loopVars
  PROVE  \A e \in Agents, c \in Chunks : Storing(e, c)' =>
           Storing(e, c) \/ (type = "STORE" /\ e = d /\ c = b)
<1> DEFINE command == [type |-> type, chunk |-> b, by |-> r]
<1>1. command.type = type /\ command.chunk = b
  OBVIOUS
<1>2. inbox' = inbox \/ (d \in Agents /\ inbox' = [inbox EXCEPT ![d] = @ \cup {command}])
  BY DEF Inject
<1> HIDE DEF command
<1>3. SUFFICES ASSUME NEW e \in Agents, NEW c \in Chunks, Storing(e, c)'
               PROVE  Storing(e, c) \/ (type = "STORE" /\ e = d /\ c = b)
  OBVIOUS
<1>4. inbox \in [Agents -> SUBSET Commands] /\ task' = task /\ apc' = apc
  BY DEF TypeInv, AgentTypeOK, loopVars
<1>5. \A m \in inbox'[e] : m \in inbox[e] \/ (e = d /\ m = command)
  BY <1>2, <1>4
<1>6. QED
  BY <1>1, <1>3, <1>4, <1>5 DEF Storing, Handling

LEMMA UploadedAreChunks == Uploaded \subseteq Chunks
  BY DEF Uploaded

\* The loops come to chunks of files only.
LEMMA AheadIsOfFiles ==
  ASSUME NEW r, ReadsFiles(r), ChunksAtHand(r)
  PROVE  Ahead(r) \subseteq Uploaded
  BY DEF ReadsFiles, ChunksAtHand, Ahead

\* A step that moves no location, within the planning or within a move.
LEMMA CountedFrame ==
  ASSUME NEW r \in Rebalances, Counted(r), pc[r] \in Working, pc'[r] \in Working \cup {"done"},
         locations' = locations, snapshot'[r] = snapshot[r], load'[r] = load[r],
         \A d \in Agents, c \in Uploaded : Storing(d, c)' => Storing(d, c),
         \A c \in Ahead(r)' : c \in Ahead(r), ChunksAtHand(r)',
         pc'[r] \in Moving => /\ pc[r] \in Moving /\ move'[r].chunk = move[r].chunk
                              /\ move'[r].from = move[r].from /\ move'[r].to = move[r].to,
         pc'[r] \in Sending <=> pc[r] \in Sending, pc'[r] = "insert" <=> pc[r] = "insert"
  PROVE  Counted(r)'
<1>1. ChunkOnItsWay(r)'
  BY DEF Counted, ChunkOnItsWay
<1>2. pc'[r] \in {"delete", "forget"} => pc[r] \in {"delete", "forget"}
  BY DEF Sending
<1>3. Sending \subseteq Moving
  BY DEF Sending, Moving
<1>4. ReadIsCurrent(r)'
  <2>1. pc'[r] \in Working => \A c \in Ahead(r)' : \A d \in Devices : <<c, d>> \in locations <=> <<c, d>> \in snapshot[r]
    BY DEF Counted, ReadIsCurrent
  <2>2. pc'[r] \in Moving => \A d \in Devices : pc'[r] \notin Sending \/ d # move'[r].to =>
          (<<move'[r].chunk, d>> \in locations <=> <<move'[r].chunk, d>> \in snapshot[r])
    BY DEF Counted, ReadIsCurrent
  <2>3. pc'[r] \in {"delete", "forget"} => <<move'[r].chunk, move'[r].to>> \in locations
    BY <1>2, <1>3 DEF Counted, ReadIsCurrent, Sending
  <2>4. QED
    BY <2>1, <2>2, <2>3 DEF ReadIsCurrent
<1>5. ReportsAreKnown(r)'
  <2>1. SUFFICES ASSUME NEW d \in Agents, NEW c \in Uploaded, Storing(d, c)'
                 PROVE  /\ pc'[r] \in Working => c \notin Ahead(r)'
                        /\ pc'[r] \in Moving /\ c = move'[r].chunk => pc'[r] \in Sending /\ d = move'[r].to
                        /\ <<c, d>> \in locations' \/ (pc'[r] = "insert" /\ c = move'[r].chunk /\ d = move'[r].to)
    BY DEF ReportsAreKnown
  <2>2. /\ c \notin Ahead(r)
        /\ pc[r] \in Moving /\ c = move[r].chunk => pc[r] \in Sending /\ d = move[r].to
        /\ <<c, d>> \in locations \/ (pc[r] = "insert" /\ c = move[r].chunk /\ d = move[r].to)
    BY <2>1 DEF Counted, ReportsAreKnown
  <2>3. "insert" \in Moving
    BY DEF Moving
  <2>4. QED
    BY <2>2, <2>3
<1>6. LoadsCount(r)'
  <2>1. Arriving(r)' = Arriving(r)
    BY <1>3 DEF Arriving
  <2>2. QED
    BY <2>1 DEF Counted, LoadsCount, On
<1>7. QED
  BY <1>1, <1>4, <1>5, <1>6 DEF Counted, ReadsFiles

\* An agent's report is of a location that is there or arriving.
LEMMA AgentKeepsCounts ==
  ASSUME TypeInv, NEW r \in Rebalances, Counted(r), NEW d \in Agents, AgentStep(d), UNCHANGED <<pc, planVars>>
  PROVE  Counted(r)'
<1> DEFINE c == task[d].chunk
<1>1. UNCHANGED <<pc, load, snapshot, unvisited, unseen, move>>
  BY DEF planVars
<1>2. /\ \/ locations' = locations
         \/ Storing(d, c) /\ locations' = locations \cup {<<c, d>>}
      /\ \A e \in Agents, b \in Chunks : Storing(e, b)' => Storing(e, b)
  BY AgentReports DEF TypeInv
<1>3. Storing(d, c) => c \in Chunks
  BY DEF Storing, Handling, TypeInv, HasTask, AgentTypeOK, Commands
<1> HIDE DEF c
<1>4. \/ locations' = locations
      \/ /\ locations' = locations \cup {<<c, d>>}
         /\ c \notin Uploaded \/ (pc[r] = "insert" /\ c = move[r].chunk /\ d = move[r].to)
  BY <1>2, <1>3 DEF Counted, ReportsAreKnown
<1>5. "insert" \in Moving /\ "insert" \in Sending /\ "insert" \notin {"delete", "forget"}
  BY DEF Moving, Sending
<1>6. Ahead(r)' = Ahead(r)
  BY <1>1 DEF Ahead
<1>7. ChunksAtHand(r)' /\ ChunkOnItsWay(r)'
  BY <1>1, <1>6 DEF Counted, ChunksAtHand, ChunkOnItsWay
<1>12. /\ \A b \in Uploaded, e \in Devices : <<b, e>> \in locations' =>
             <<b, e>> \in locations \/ (pc[r] = "insert" /\ b = move[r].chunk /\ e = move[r].to)
       /\ locations \subseteq locations'
  BY <1>4
<1>13. Ahead(r) \subseteq Uploaded \/ pc[r] \notin Working
  BY AheadIsOfFiles DEF Counted
<1>14. pc[r] \in Moving => move[r].chunk \in Uploaded
  BY DEF Counted, ReadsFiles, ChunkOnItsWay
<1>8. ReadIsCurrent(r)'
  <2>1. pc[r] \in Working =>
          \A b \in Ahead(r) : \A e \in Devices : <<b, e>> \in locations' <=> <<b, e>> \in snapshot[r]
    BY <1>5, <1>12, <1>13 DEF Counted, ReadIsCurrent, ChunkOnItsWay
  <2>2. pc[r] \in Moving =>
          \A e \in Devices : pc[r] \notin Sending \/ e # move[r].to =>
            (<<move[r].chunk, e>> \in locations' <=> <<move[r].chunk, e>> \in snapshot[r])
    BY <1>5, <1>12, <1>14 DEF Counted, ReadIsCurrent
  <2>3. pc[r] \in {"delete", "forget"} => <<move[r].chunk, move[r].to>> \in locations'
    BY <1>12 DEF Counted, ReadIsCurrent
  <2>4. QED
    BY <1>1, <1>6, <2>1, <2>2, <2>3 DEF ReadIsCurrent
<1>9. ReportsAreKnown(r)'
  BY <1>1, <1>2, <1>6, <1>12, UploadedAreChunks DEF Counted, ReportsAreKnown
<1>10. LoadsCount(r)'
  <2>1. Arriving(r)' = Arriving(r)
    BY <1>1 DEF Arriving
  <2>2. \A e \in Devices : On(e, locations' \ Arriving(r)) \cap Uploaded = On(e, locations \ Arriving(r)) \cap Uploaded
    BY <1>4, <1>5 DEF Arriving, On
  <2>3. DOMAIN load[r] \subseteq Devices
    BY DEF TypeInv, PlanOf
  <2>4. QED
    BY <1>1, <2>1, <2>2, <2>3 DEF Counted, LoadsCount
<1>11. QED
  BY <1>1, <1>7, <1>8, <1>9, <1>10 DEF Counted, ReadsFiles

\* The planning, and the steps of a move that change no location.
LEMMA PlanningKeepsCounts ==
  ASSUME TypeInv, NEW r \in Rebalances, Counted(r), Unreplicated(r), UNCHANGED loopVars,
         \/ RebalanceDevice(r) \/ RebalanceChunk(r) \/ RebalanceNextDevice(r) \/ RebalanceEnd(r)
         \/ MoveRetrieve(r) \/ MoveData(r) \/ MoveTimeout(r) \/ MoveDelete(r)
  PROVE  Counted(r)'
<1>1. /\ pc \in [Rebalances -> Phases] /\ DOMAIN load = Rebalances
      /\ unvisited \in [Rebalances -> SUBSET Devices] /\ unseen \in [Rebalances -> SUBSET Chunks]
      /\ move \in [Rebalances -> Moves] /\ PlanOf(r)
  BY DEF TypeInv, PlanTypeOK
<1>2. \A phase : GoTo(r, phase) => pc'[r] = phase
  BY <1>1 DEF GoTo
<1>3. ASSUME UNCHANGED relayVars PROVE \A d \in Agents, c \in Uploaded : Storing(d, c)' => Storing(d, c)
  BY <1>3 DEF Storing, Handling, relayVars, loopVars
<1>4. CASE RebalanceDevice(r)
  <2>1. /\ pc[r] = "devices" /\ UNCHANGED <<relayVars, load, snapshot>> /\ locations' = locations
    BY <1>4 DEF RebalanceDevice, catalogVars
  <2>2. PICK d \in unvisited[r] :
          /\ unvisited' = [unvisited EXCEPT ![r] = @ \ {d}]
          /\ \/ /\ move' = [move EXCEPT ![r].from = d, ![r].count = load[r][d], ![r].moved = 0]
                /\ unseen' = [unseen EXCEPT ![r] = On(d, snapshot[r])]
                /\ GoTo(r, "chunks")
             \/ UNCHANGED <<move, unseen, pc>>
    BY <1>4 DEF RebalanceDevice
  <2>3. unvisited'[r] = unvisited[r] \ {d}
    BY <1>1, <2>2
  <2>4. pc'[r] = "devices" \/ (pc'[r] = "chunks" /\ unseen'[r] = On(d, snapshot[r]) /\ move'[r].from = d)
    <3>1. CASE UNCHANGED <<move, unseen, pc>>
      BY <2>1, <3>1
    <3>2. CASE /\ move' = [move EXCEPT ![r].from = d, ![r].count = load[r][d], ![r].moved = 0]
               /\ unseen' = [unseen EXCEPT ![r] = On(d, snapshot[r])]
               /\ GoTo(r, "chunks")
      <4>1. move'[r].from = d
        BY <1>1, <3>2 DEF Moves
      <4>2. QED
        BY <1>1, <1>2, <3>2, <4>1
    <3>3. QED
      BY <2>2, <3>1, <3>2
  <2>5. \A c \in Ahead(r)' : c \in Ahead(r)
    BY <2>1, <2>2, <2>3, <2>4 DEF Ahead, On, Moving
  <2>6. ChunksAtHand(r)'
    BY <2>1, <2>3, <2>4 DEF ChunksAtHand, On, Moving
  <2>7. QED
    BY <1>3, <2>1, <2>4, <2>5, <2>6, CountedFrame DEF Working, Moving, Sending
<1>5. CASE RebalanceChunk(r)
  <2>1. /\ pc[r] = "chunks"
        /\ UNCHANGED <<relayVars, load, snapshot, unvisited>> /\ locations' = locations
    BY <1>5 DEF RebalanceChunk, catalogVars
  <2>2. PICK c \in unseen[r], d \in LeastLoaded(r) :
          /\ unseen' = [unseen EXCEPT ![r] = @ \ {c}]
          /\ \/ move' = [move EXCEPT ![r].chunk = c, ![r].to = d] /\ GoTo(r, "retrieve")
             \/ UNCHANGED <<move, pc>>
    BY <1>5 DEF RebalanceChunk
  <2>3. unseen'[r] = unseen[r] \ {c} /\ c \in Chunks
    BY <1>1, <2>2
  <2>4. /\ move'[r].from = move[r].from
        /\ pc'[r] = "chunks" \/ (pc'[r] = "retrieve" /\ move'[r].chunk = c)
    <3>1. CASE UNCHANGED <<move, pc>>
      BY <2>1, <3>1
    <3>2. CASE move' = [move EXCEPT ![r].chunk = c, ![r].to = d] /\ GoTo(r, "retrieve")
      <4>1. move'[r].from = move[r].from /\ move'[r].chunk = c
        BY <1>1, <3>2 DEF Moves
      <4>2. QED
        BY <1>2, <3>2, <4>1
    <3>3. QED
      BY <2>2, <3>1, <3>2
  <2>5. Ahead(r)' = {b \in Chunks : \/ \E e \in unvisited[r] : <<b, e>> \in snapshot[r]
                                    \/ b \in unseen[r] \ {c}}
    BY <2>1, <2>3, <2>4 DEF Ahead, Moving
  <2>6. \A b \in Ahead(r)' : b \in Ahead(r)
    BY <2>1, <2>5 DEF Ahead
  <2>7. c \in Ahead(r)
    BY <2>1, <2>2, <2>3 DEF Ahead
  <2>8. /\ move[r].from \notin unvisited[r] /\ move[r].from \in Devices
        /\ \A b \in unseen[r] : <<b, move[r].from>> \in snapshot[r]
    BY <1>1, <2>1 DEF Counted, ChunksAtHand, Moves
  <2>9. ChunksAtHand(r)'
    BY <2>1, <2>3, <2>4, <2>8 DEF ChunksAtHand
  <2>10. CASE pc'[r] = "chunks"
    BY <1>3, <2>1, <2>6, <2>9, <2>10, CountedFrame DEF Working, Moving, Sending
  <2>11. CASE pc'[r] = "retrieve" /\ move'[r].chunk = c
    <3>1. pc'[r] \notin Sending /\ pc'[r] \in Moving /\ pc[r] \notin Sending /\ pc[r] \in Working /\ pc[r] # "insert"
      BY <2>1, <2>11 DEF Sending, Moving, Working
    <3>2. c \notin Ahead(r)'
      <4>1. SUFFICES ASSUME NEW e \in unvisited[r], <<c, e>> \in snapshot[r] PROVE FALSE
        BY <2>5
      <4>2. e \in Devices /\ <<c, move[r].from>> \in snapshot[r] /\ e # move[r].from
        BY <1>1, <2>2, <2>8
      <4>3. QED
        BY <2>3, <2>8, <4>1, <4>2 DEF Unreplicated
    <3>3. ChunkOnItsWay(r)'
      BY <2>1, <2>2, <2>4, <2>8, <2>11, <3>2 DEF ChunkOnItsWay
    <3>4. ReadIsCurrent(r)'
      <4>1. \A b \in Ahead(r) : \A e \in Devices : <<b, e>> \in locations <=> <<b, e>> \in snapshot[r]
        BY <3>1 DEF Counted, ReadIsCurrent
      <4>2. pc'[r] \notin {"delete", "forget"}
        BY <2>11
      <4>3. QED
        BY <2>1, <2>6, <2>7, <2>11, <3>1, <4>1, <4>2 DEF ReadIsCurrent
    <3>5. ReportsAreKnown(r)'
      <4>1. \A e \in Agents, b \in Uploaded : Storing(e, b) => b \notin Ahead(r) /\ <<b, e>> \in locations
        BY <3>1 DEF Counted, ReportsAreKnown
      <4>2. QED
        BY <1>3, <2>1, <2>6, <2>7, <2>11, <4>1 DEF ReportsAreKnown
    <3>6. LoadsCount(r)'
      <4>1. Arriving(r) = {} /\ Arriving(r)' = {}
        BY <3>1 DEF Arriving
      <4>2. QED
        BY <2>1, <4>1 DEF Counted, LoadsCount, On
    <3>7. QED
      BY <2>1, <2>9, <3>3, <3>4, <3>5, <3>6 DEF Counted, ReadsFiles
  <2>12. QED
    BY <2>4, <2>10, <2>11
<1>6. CASE RebalanceNextDevice(r) \/ RebalanceEnd(r)
  <2>1. /\ pc[r] \in {"devices", "chunks"} /\ pc'[r] \in {"devices", "done"}
        /\ UNCHANGED <<relayVars, load, snapshot, unvisited, unseen, move>> /\ locations' = locations
    BY <1>2, <1>6 DEF RebalanceNextDevice, RebalanceEnd, catalogVars, planVars
  <2>2. \A c \in Ahead(r)' : c \in Ahead(r)
    BY <2>1 DEF Ahead, Moving
  <2>3. ChunksAtHand(r)'
    BY <2>1 DEF ChunksAtHand, Moving
  <2>4. QED
    BY <1>3, <2>1, <2>2, <2>3, CountedFrame DEF Working, Moving, Sending
<1>7. CASE MoveRetrieve(r) \/ MoveTimeout(r) \/ MoveDelete(r)
  <2>1. /\ \/ pc[r] = "retrieve" /\ pc'[r] = "data"
           \/ pc[r] = "data" /\ pc'[r] = "chunks"
           \/ pc[r] = "delete" /\ pc'[r] = "forget"
        /\ UNCHANGED <<load, snapshot, unvisited, unseen, move>> /\ locations' = locations
    BY <1>2, <1>7 DEF MoveRetrieve, MoveTimeout, MoveDelete, catalogVars, planVars
  <2>2. \/ \E type \in {"RETRIEVE", "DELETE"} : Inject(r, move[r].from, type, move[r].chunk)
        \/ UNCHANGED relayVars
    BY <1>7 DEF MoveRetrieve, MoveTimeout, MoveDelete
  <2>3. \A d \in Agents, c \in Uploaded : Storing(d, c)' => Storing(d, c)
    BY <1>3, <2>2, InjectStores, UploadedAreChunks
  <2>4. \A c \in Ahead(r)' : c \in Ahead(r)
    BY <2>1 DEF Ahead, Moving
  <2>5. ChunksAtHand(r)'
    BY <2>1 DEF Counted, ChunksAtHand, Moving
  <2>6. QED
    BY <2>1, <2>3, <2>4, <2>5, CountedFrame DEF Working, Moving, Sending
<1>8. CASE MoveData(r)
  <2>1. /\ pc[r] = "data" /\ pc'[r] = "store"
        /\ UNCHANGED <<inbox, load, snapshot, unvisited, unseen>> /\ locations' = locations
    BY <1>2, <1>8 DEF MoveData, catalogVars
  <2>2. \E data : move' = [move EXCEPT ![r].data = data]
    BY <1>8 DEF MoveData
  <2>3. /\ move'[r].from = move[r].from /\ move'[r].to = move[r].to /\ move'[r].chunk = move[r].chunk
    BY <1>1, <2>2 DEF Moves
  <2>4. \A d \in Agents, c \in Uploaded : Storing(d, c)' => Storing(d, c)
    BY <2>1 DEF Storing, Handling, loopVars
  <2>5. \A c \in Ahead(r)' : c \in Ahead(r)
    BY <2>1 DEF Ahead, Moving
  <2>6. ChunksAtHand(r)'
    BY <2>1, <2>3 DEF Counted, ChunksAtHand, Moving
  <2>7. QED
    BY <2>1, <2>3, <2>4, <2>5, <2>6, CountedFrame DEF Working, Moving, Sending
<1>9. QED
  BY <1>4, <1>5, <1>6, <1>7, <1>8

\* The loads begin as what the catalog has.
LEMMA CountingCounts ==
  ASSUME TypeInv, NEW r \in Rebalances, RebalanceCount(r), UNCHANGED loopVars,
         locations \subseteq Uploaded \X Devices,
         \A d \in Agents, c \in Chunks : ~ Storing(d, c)
  PROVE  Counted(r)'
<1>1. /\ pc[r] = "count"
      /\ snapshot' = [snapshot EXCEPT ![r] = locations]
      /\ load' = [load EXCEPT ![r] = [d \in unvisited[r] |-> Cardinality(On(d, locations))]]
      /\ GoTo(r, "devices")
      /\ UNCHANGED <<relayVars, unvisited, unseen, move>> /\ locations' = locations
  BY DEF RebalanceCount, catalogVars
<1>2. /\ snapshot'[r] = locations
      /\ load'[r] = [d \in unvisited[r] |-> Cardinality(On(d, locations))]
      /\ pc'[r] = "devices"
  BY <1>1 DEF TypeInv, PlanTypeOK, GoTo
<1>3. ChunksAtHand(r)' /\ ChunkOnItsWay(r)'
  BY <1>2 DEF ChunksAtHand, ChunkOnItsWay, Moving
<1>4. ReadIsCurrent(r)'
  BY <1>1, <1>2 DEF ReadIsCurrent, Moving, Sending
<1>5. ReportsAreKnown(r)'
  <2>1. \A d \in Agents, c \in Chunks : ~ Storing(d, c)'
    BY <1>1 DEF Storing, Handling, relayVars, loopVars
  <2>2. QED
    BY <2>1, UploadedAreChunks DEF ReportsAreKnown
<1>6. LoadsCount(r)'
  <2>1. Arriving(r)' = {} /\ locations' \ {} = locations
    BY <1>1, <1>2 DEF Arriving, Sending
  <2>2. \A d : On(d, locations' \ Arriving(r)') \cap Uploaded = On(d, locations)
    BY <1>1, <2>1 DEF On
  <2>3. QED
    BY <1>1, <1>2, <2>2 DEF LoadsCount
<1>7. QED
  BY <1>2, <1>3, <1>4, <1>5, <1>6 DEF Counted, ReadsFiles

\* The steps of a move that send or write where the chunk goes.
LEMMA SendingKeepsCounts ==
  ASSUME FragmentsAreNew, refused' = {}, TypeInv, NEW r \in Rebalances, Counted(r), Unreplicated(r), UNCHANGED loopVars,
         MoveStore(r) \/ MoveInsert(r) \/ MoveForget(r)
  PROVE  Counted(r)'
<1> DEFINE c == move[r].chunk
           from == move[r].from
           to == move[r].to
<1>1. /\ pc \in [Rebalances -> Phases] /\ DOMAIN load = Rebalances /\ move \in [Rebalances -> Moves]
      /\ PlanOf(r) /\ locations \subseteq Chunks \X Devices
  BY DEF TypeInv, PlanTypeOK, CatalogTypeOK
<1>2. \A phase : GoTo(r, phase) => pc'[r] = phase
  BY <1>1 DEF GoTo
<1>3. c \in Chunks /\ from \in Devices /\ to \in Devices
  BY <1>1 DEF Moves
<1>4. pc[r] \in Moving
  BY DEF MoveStore, MoveInsert, MoveForget, Moving
<1>5. /\ load[r] \in [DOMAIN load[r] -> Nat] /\ from \in DOMAIN load[r] /\ to \in DOMAIN load[r]
      /\ load[r][to] < load[r][from] /\ DOMAIN load[r] \subseteq Devices
  BY <1>1, <1>4 DEF PlanOf
<1>6. from # to
  BY <1>5
<1>7. /\ c \notin Ahead(r) /\ <<c, from>> \in snapshot[r] /\ <<c, to>> \notin snapshot[r]
      /\ from \notin unvisited[r] /\ \A b \in unseen[r] : <<b, from>> \in snapshot[r]
  BY <1>3, <1>4, <1>6 DEF Counted, ChunksAtHand, ChunkOnItsWay, Unreplicated
<1>8. /\ \A b \in Ahead(r) : \A d \in Devices : <<b, d>> \in locations <=> <<b, d>> \in snapshot[r]
      /\ \A d \in Devices : pc[r] \notin Sending \/ d # to =>
           (<<c, d>> \in locations <=> <<c, d>> \in snapshot[r])
  BY <1>4 DEF Counted, ReadIsCurrent, Working
<1>15. c \in Uploaded /\ ReadsFiles(r)
  BY <1>7 DEF Counted, ReadsFiles
<1>9. \A d \in Agents, b \in Uploaded : Storing(d, b) =>
        /\ b \notin Ahead(r)
        /\ b = c => pc[r] \in Sending /\ d = to
        /\ <<b, d>> \in locations \/ (pc[r] = "insert" /\ b = c /\ d = to)
  BY <1>4 DEF Counted, ReportsAreKnown, Working
<1>10. \A d \in DOMAIN load[r] : load[r][d] = Cardinality(On(d, locations \ Arriving(r)) \cap Uploaded)
  BY DEF Counted, LoadsCount
<1>11. CASE MoveStore(r)
  <2>1. /\ pc[r] = "store" /\ pc'[r] = "insert"
        /\ UNCHANGED <<load, snapshot, unvisited, unseen, move>> /\ locations' = locations
    BY <1>2, <1>11 DEF MoveStore, planVars, catalogVars
  <2>2. \A d \in Agents, b \in Uploaded : Storing(d, b)' => Storing(d, b) \/ (d = to /\ b = c)
    <3>1. \A d \in Agents, b \in Chunks : Storing(d, b)' => Storing(d, b) \/ (d = to /\ b = Sent(r))
      BY <1>11, InjectStores DEF MoveStore
    <3>2. Sent(r) = c \/ Sent(r) \notin Uploaded
      BY <1>1, <1>15 DEF Sent, FragmentsAreNew, Moves
    <3>3. QED
      BY <3>1, <3>2, UploadedAreChunks
  <2>3. pc[r] \notin Sending /\ pc'[r] \in Sending /\ pc'[r] \in Moving /\ pc'[r] \notin {"delete", "forget"}
    BY <2>1 DEF Sending, Moving
  <2>4. Ahead(r)' = Ahead(r)
    BY <2>1 DEF Ahead, Moving
  <2>5. ChunksAtHand(r)' /\ ChunkOnItsWay(r)'
    BY <1>7, <2>1, <2>4 DEF ChunksAtHand, ChunkOnItsWay
  <2>6. ReadIsCurrent(r)'
    BY <1>8, <2>1, <2>3, <2>4 DEF ReadIsCurrent
  <2>7. ReportsAreKnown(r)'
    BY <1>7, <1>9, <2>1, <2>2, <2>3, <2>4 DEF ReportsAreKnown
  <2>8. LoadsCount(r)'
    <3>1. <<c, to>> \notin locations
      BY <1>3, <1>7, <1>8, <2>3
    <3>2. Arriving(r) = {} /\ Arriving(r)' = {<<c, to>>}
      BY <2>1, <2>3 DEF Arriving
    <3>3. locations \ Arriving(r) = locations' \ Arriving(r)'
      BY <2>1, <3>1, <3>2
    <3>4. QED
      BY <1>10, <2>1, <3>3 DEF LoadsCount
  <2>9. QED
    BY <1>15, <2>1, <2>5, <2>6, <2>7, <2>8 DEF Counted, ReadsFiles
<1>12. CASE MoveInsert(r)
  <2>1. /\ pc[r] = "insert" /\ pc'[r] = "delete" /\ UNCHANGED relayVars
        /\ UNCHANGED <<load, snapshot, unvisited, unseen, move>>
        /\ locations' = locations \cup {<<c, to>>}
    BY <1>2, <1>12 DEF MoveInsert, InsertLocation, Refusal, planVars
  <2>2. \A d \in Agents, b \in Uploaded : Storing(d, b)' => Storing(d, b)
    BY <2>1 DEF Storing, Handling, relayVars, loopVars
  <2>3. pc[r] \in Sending /\ pc'[r] \in Sending /\ pc'[r] \in Moving /\ pc[r] \in Working
    BY <2>1 DEF Sending, Moving, Working
  <2>4. Ahead(r)' = Ahead(r)
    BY <2>1 DEF Ahead, Moving
  <2>5. ChunksAtHand(r)' /\ ChunkOnItsWay(r)'
    BY <1>7, <2>1, <2>4 DEF ChunksAtHand, ChunkOnItsWay
  <2>6. ReadIsCurrent(r)'
    BY <1>7, <1>8, <2>1, <2>3, <2>4 DEF ReadIsCurrent
  <2>7. ReportsAreKnown(r)'
    BY <1>9, <2>1, <2>2, <2>3, <2>4 DEF ReportsAreKnown
  <2>8. LoadsCount(r)'
    <3>1. Arriving(r) = {<<c, to>>} /\ Arriving(r)' = {<<c, to>>}
      BY <2>1, <2>3 DEF Arriving
    <3>2. locations \ Arriving(r) = locations' \ Arriving(r)'
      BY <2>1, <3>1
    <3>3. QED
      BY <1>10, <2>1, <3>2 DEF LoadsCount
  <2>9. QED
    BY <1>15, <2>1, <2>5, <2>6, <2>7, <2>8 DEF Counted, ReadsFiles
<1>13. CASE MoveForget(r)
  <2>1. /\ pc[r] = "forget" /\ pc'[r] = "chunks" /\ UNCHANGED <<relayVars, snapshot, unvisited, unseen>>
        /\ locations' = locations \ {<<c, from>>}
        /\ load' = [load EXCEPT ![r][from] = @ - 1, ![r][to] = @ + 1]
        /\ move' = [move EXCEPT ![r].moved = @ + 1]
    BY <1>2, <1>13 DEF MoveForget, DeleteLocation, Refusal
  <2>2. \A d \in Agents, b \in Uploaded : Storing(d, b)' => Storing(d, b)
    BY <2>1 DEF Storing, Handling, relayVars, loopVars
  <2>3. pc[r] \in Sending /\ pc'[r] \notin Moving /\ pc'[r] \notin Sending /\ pc[r] # "insert"
    BY <2>1 DEF Sending, Moving
  <2>4. Ahead(r)' = Ahead(r)
    BY <2>1 DEF Ahead, Moving
  <2>5. move'[r].from = from
    BY <1>1, <2>1 DEF Moves
  <2>6. ChunksAtHand(r)' /\ ChunkOnItsWay(r)'
    BY <1>7, <2>1, <2>3, <2>5 DEF ChunksAtHand, ChunkOnItsWay
  <2>7. ReadIsCurrent(r)'
    BY <1>7, <1>8, <2>1, <2>3, <2>4 DEF ReadIsCurrent
  <2>8. ReportsAreKnown(r)'
    <3>1. \A d \in Agents, b \in Uploaded : Storing(d, b) => b \notin Ahead(r) /\ <<b, d>> \in locations'
      BY <1>6, <1>9, <2>1, <2>3
    <3>2. QED
      BY <2>2, <2>3, <2>4, <3>1 DEF ReportsAreKnown
  <2>9. LoadsCount(r)'
    <3> DEFINE old == locations \ {<<c, to>>}
               Here(d, places) == On(d, places) \cap Uploaded
    <3>1. Arriving(r) = {<<c, to>>} /\ Arriving(r)' = {}
      BY <2>1, <2>3 DEF Arriving
    <3>2. <<c, from>> \in locations /\ <<c, to>> \in locations
      BY <1>3, <1>6, <1>7, <1>8, <2>1 DEF Counted, ReadIsCurrent
    <3>3. /\ Here(from, locations') = Here(from, old) \ {c} /\ c \in Here(from, old)
          /\ Here(to, locations') = Here(to, old) \cup {c} /\ c \notin Here(to, old)
          /\ \A d \in Devices \ {from, to} : Here(d, locations') = Here(d, old)
      BY <1>3, <1>6, <1>15, <2>1, <3>2 DEF On
    <3>4. \A d \in Devices : IsFiniteSet(Here(d, old)) /\ Cardinality(Here(d, old)) \in Nat
      <4>1. \A d \in Devices : Here(d, old) \subseteq Chunks
        BY DEF On
      <4>2. QED
        BY <4>1, HoldersAssumption, FS_Subset, FS_CardinalityType
    <3> HIDE DEF old, c, from, to, Here
    <3>5. /\ Cardinality(Here(from, locations')) = Cardinality(Here(from, old)) - 1
          /\ Cardinality(Here(to, locations')) = Cardinality(Here(to, old)) + 1
      <4> DEFINE A == Here(from, old)
                 B == Here(to, old)
      <4>1. IsFiniteSet(A) /\ IsFiniteSet(B) /\ c \in A /\ c \notin B
        BY <1>3, <3>3, <3>4
      <4> HIDE DEF A, B
      <4>2. Cardinality(A \ {c}) = Cardinality(A) - 1 /\ Cardinality(B \cup {c}) = Cardinality(B) + 1
        BY <4>1, FS_RemoveElement, FS_AddElement
      <4>3. QED
        BY <3>3, <4>2 DEF A, B
    <3>6. \A d \in DOMAIN load[r] : load[r][d] = Cardinality(Here(d, old))
      BY <1>10, <3>1 DEF old, Here
    <3>7. /\ DOMAIN load'[r] = DOMAIN load[r]
          /\ load'[r][from] = load[r][from] - 1 /\ load'[r][to] = load[r][to] + 1
          /\ \A d \in DOMAIN load[r] \ {from, to} : load'[r][d] = load[r][d]
      BY <1>1, <1>5, <1>6, <2>1
    <3>8. \A d \in DOMAIN load[r] : load'[r][d] = Cardinality(Here(d, locations'))
      BY <1>5, <3>3, <3>5, <3>6, <3>7
    <3>9. locations' \ {} = locations'
      OBVIOUS
    <3>10. QED
      BY <3>1, <3>7, <3>8, <3>9 DEF LoadsCount, Here
  <2>10. QED
    BY <1>15, <2>1, <2>6, <2>7, <2>8, <2>9 DEF Counted, ReadsFiles
<1>14. QED
  BY <1>11, <1>12, <1>13

LEMMA NextLoads == FragmentsAreNew /\ TypeInv /\ LoadsInv /\ [Next]_vars => LoadsInv'
<1> SUFFICES ASSUME FragmentsAreNew, TypeInv, LoadsInv, [Next]_vars PROVE LoadsInv'
  OBVIOUS
<1> USE DEF LoadsInv
<1>1. CASE UNCHANGED vars
  <2>1. /\ UNCHANGED <<pc, refused, load, snapshot, unvisited, unseen, move>> /\ locations' = locations
        /\ UNCHANGED <<relayVars, loopVars>>
    BY <1>1 DEF vars, planVars, catalogVars
  <2>2. \A d \in Agents, c \in Chunks : Storing(d, c)' <=> Storing(d, c)
    BY <2>1 DEF Storing, Handling, relayVars, loopVars
  <2>3. \A r \in Rebalances : /\ Ahead(r)' = Ahead(r) /\ Arriving(r)' = Arriving(r)
                              /\ (Unreplicated(r)' <=> Unreplicated(r)) /\ (Only(r)' => Only(r))
    BY <2>1 DEF Ahead, Arriving, Unreplicated, Only
  <2>4. \A r \in Rebalances : ChunksAtHand(r) /\ ChunkOnItsWay(r) => ChunksAtHand(r)' /\ ChunkOnItsWay(r)'
    BY <2>1, <2>3 DEF ChunksAtHand, ChunkOnItsWay
  <2>9. \A r \in Rebalances : ReadsFiles(r) => ReadsFiles(r)'
    BY <2>1 DEF ReadsFiles
  <2>5. \A r \in Rebalances : ReadIsCurrent(r) => ReadIsCurrent(r)'
    BY <2>1, <2>3 DEF ReadIsCurrent
  <2>6. \A r \in Rebalances : ReportsAreKnown(r) => ReportsAreKnown(r)'
    BY <2>1, <2>2, <2>3, UploadedAreChunks DEF ReportsAreKnown
  <2>7. \A r \in Rebalances : LoadsCount(r) => LoadsCount(r)'
    <3>1. \A r \in Rebalances : \A d : On(d, locations' \ Arriving(r)') = On(d, locations \ Arriving(r))
      BY <2>1, <2>3
    <3>2. QED
      BY <2>1, <3>1 DEF LoadsCount
  <2>8. QED
    BY <2>1, <2>2, <2>3, <2>4, <2>5, <2>6, <2>7, <2>9 DEF Counted
<1>2. ASSUME NEW d \in Agents, AgentStep(d), UNCHANGED <<pc, planVars, refused>> PROVE LoadsInv'
  <2>1. \A e \in Agents, c \in Chunks : Storing(e, c)' => Storing(e, c)
    BY <1>2, AgentReports DEF TypeInv
  <2>2. \A r \in Rebalances : Counted(r) => Counted(r)'
    BY <1>2, AgentKeepsCounts
  <2>3. pc' = pc /\ load' = load /\ \A r \in Rebalances : (Unreplicated(r)' => Unreplicated(r)) /\ (Only(r)' => Only(r))
    BY <1>2 DEF planVars, Unreplicated, Only
  <2>5. ASSUME \A e \in Agents, c \in Chunks : ~ Storing(e, c) PROVE locations' = locations
    <3>1. Storing(d, task[d].chunk) => task[d].chunk \in Chunks
      BY DEF Storing, Handling, TypeInv, HasTask, AgentTypeOK, Commands
    <3>2. QED
      BY <1>2, <2>5, <3>1, AgentReports DEF TypeInv
  <2>4. QED
    BY <1>2, <2>1, <2>2, <2>3, <2>5 DEF planVars
<1>3. ASSUME NEW r \in Rebalances, (RebalanceBegin(r) /\ UNCHANGED refused) \/ Step(r), UNCHANGED loopVars
      PROVE  LoadsInv'
  <2>1. pc \in [Rebalances -> Phases] /\ PlanOf(r)
    BY DEF TypeInv, PlanTypeOK
  <2>2. \A phase : GoTo(r, phase) => pc'[r] = phase
    BY <2>1 DEF GoTo
  <2>9. pc'[r] # "idle"
    BY <1>3, <2>2 DEF Step, PlanStep, MoveStep, RebalanceBegin, RebalanceCount, RebalanceCountFails, RebalanceDevice, RebalanceChunk, RebalanceNextDevice,
      RebalanceEnd, MoveRetrieve, MoveData, MoveTimeout, MoveStore, MoveInsert, MoveDelete, MoveForget
  <2>10. \A q \in Rebalances : Only(q)' => q = r
    BY <2>9 DEF Only
  <2>11. Only(r)' => Only(r)
    BY <1>3, OneRebalanceSteps DEF Only
  <2>13. refused \subseteq refused'
    BY <1>3 DEF Step, MoveInsert, MoveForget, Refusal
  <2>12. SUFFICES ASSUME Only(r), Only(r)', refused = {}, refused' = {}
                  PROVE  /\ pc'[r] \in {"idle", "count"} =>
                              /\ DOMAIN load'[r] = {} /\ snapshot'[r] = {}
                              /\ locations' \subseteq Uploaded \X Devices
                              /\ \A d \in Agents, c \in Chunks : ~ Storing(d, c)'
                         /\ pc'[r] \notin {"idle", "count"} /\ Unreplicated(r)' => Counted(r)'
    BY <2>10, <2>11, <2>13
  <2>3. CASE RebalanceBegin(r) \/ RebalanceCountFails(r)
    <3>1. /\ pc[r] \in {"idle", "count"} /\ pc'[r] \in {"count", "done"}
          /\ UNCHANGED <<relayVars, load, snapshot, move>> /\ locations' = locations
      BY <2>2, <2>3 DEF RebalanceBegin, RebalanceCountFails, planVars, catalogVars
    <3>2. /\ DOMAIN load[r] = {} /\ snapshot[r] = {} /\ locations \subseteq Uploaded \X Devices
          /\ \A d \in Agents, c \in Chunks : ~ Storing(d, c)
      BY <2>12, <3>1
    <3>3. /\ DOMAIN load'[r] = {} /\ snapshot'[r] = {} /\ load' = load
          /\ \A d \in Agents, c \in Chunks : ~ Storing(d, c)'
      BY <1>3, <3>1, <3>2 DEF Storing, Handling, relayVars, loopVars
    <3>4. pc'[r] = "done" => Counted(r)'
      BY <3>1, <3>3, UploadedAreChunks DEF Counted, ReadsFiles, ChunksAtHand, ChunkOnItsWay, ReadIsCurrent, ReportsAreKnown,
        LoadsCount, Working, Moving
    <3>5. QED
      BY <3>1, <3>2, <3>3, <3>4
  <2>4. CASE RebalanceCount(r)
    <3>1. Counted(r)' /\ pc'[r] = "devices"
      BY <1>3, <2>2, <2>4, <2>12, CountingCounts DEF RebalanceCount
    <3>2. QED
      BY <3>1
  <2>5. ASSUME pc[r] \notin {"idle", "count"}, pc'[r] \notin {"idle", "count"}, snapshot' = snapshot,
               Counted(r) /\ Unreplicated(r) => Counted(r)'
        PROVE  Counted(r)' \/ ~ Unreplicated(r)'
    <3>1. Unreplicated(r)' => Unreplicated(r)
      BY <2>5 DEF Unreplicated
    <3>2. QED
      BY <2>1, <2>5, <2>12, <3>1
  <2>6. CASE \/ RebalanceDevice(r) \/ RebalanceChunk(r) \/ RebalanceNextDevice(r) \/ RebalanceEnd(r)
             \/ MoveRetrieve(r) \/ MoveData(r) \/ MoveTimeout(r) \/ MoveDelete(r)
    <3>1. pc[r] \notin {"idle", "count"} /\ pc'[r] \notin {"idle", "count"} /\ snapshot' = snapshot
      BY <2>2, <2>6 DEF RebalanceDevice, RebalanceChunk, RebalanceNextDevice, RebalanceEnd,
        MoveRetrieve, MoveData, MoveTimeout, MoveDelete, planVars
    <3>2. QED
      BY <1>3, <2>5, <2>6, <3>1, PlanningKeepsCounts
  <2>7. CASE MoveStore(r) \/ MoveInsert(r) \/ MoveForget(r)
    <3>1. pc[r] \notin {"idle", "count"} /\ pc'[r] \notin {"idle", "count"} /\ snapshot' = snapshot
      BY <2>2, <2>7 DEF MoveStore, MoveInsert, MoveForget, planVars
    <3>2. QED
      BY <1>3, <2>5, <2>7, <2>12, <3>1, SendingKeepsCounts
  <2>14. \/ RebalanceBegin(r) \/ RebalanceCountFails(r) \/ RebalanceCount(r)
         \/ RebalanceDevice(r) \/ RebalanceChunk(r) \/ RebalanceNextDevice(r) \/ RebalanceEnd(r)
         \/ MoveRetrieve(r) \/ MoveData(r) \/ MoveTimeout(r) \/ MoveDelete(r)
         \/ MoveStore(r) \/ MoveInsert(r) \/ MoveForget(r)
    BY <1>3 DEF Step, PlanStep, MoveStep
  <2>8. QED
    BY <2>3, <2>4, <2>6, <2>7, <2>14
<1>4. QED
  BY <1>1, <1>2, <1>3 DEF Next

\* Between two moves the loads of a rebalance are those the catalog has of the
\* files' chunks, as long as no other has begun, no statement was refused, and if
\* what it read had no replicas; a fragment must not be a chunk of a file itself,
\* for its report would be one of that file.
THEOREM LoadsAreCounted ==
  ASSUME FragmentsAreNew
  PROVE  Spec => []LoadsMatchCatalog
<1>1. LoadsInv => LoadsMatchCatalog
  <2>1. SUFFICES ASSUME LoadsInv, NEW r \in Rebalances, pc[r] \in {"devices", "chunks", "done"}, Only(r), Unreplicated(r),
                        refused = {}, NEW d \in DOMAIN load[r]
                 PROVE  load[r][d] = Cardinality(On(d, locations) \cap Uploaded)
    BY DEF LoadsMatchCatalog
  <2>2. LoadsCount(r) /\ Arriving(r) = {} /\ locations \ {} = locations
    BY <2>1 DEF LoadsInv, Counted, Arriving, Sending
  <2>3. QED
    BY <2>2 DEF LoadsCount
<1>2. TypeInv /\ LoadsInv /\ [Next]_vars => LoadsInv'
  BY NextLoads
<1>3. QED
  BY <1>1, <1>2, InitType, NextType, InitLoads, PTL DEF Spec

=============================================================================
