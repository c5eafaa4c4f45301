------------------------- MODULE FileServiceProofs -------------------------
(***************************************************************************)
(* Theorems about FileService, for every set of files, chunks, devices and *)
(* requests: its types, that what an upload was answered 200 for was saved *)
(* (although an acknowledgement names no device and may answer an earlier  *)
(* try), that a committed file has all of its rows, that a deleted file    *)
(* stays deleted, and that a download which looks complete is exact.       *)
(***************************************************************************)
EXTENDS FileService, AgentProofs

-----------------------------------------------------------------------------
(* What the types rest on.                                                 *)

\* An upload is within its file, at its end once it is to be answered 200, and has
\* devices while it waits for one of them.
UploadAt ==
  \A u \in Uploads :
    /\ sequence[u] <= Len(Content[u])
    /\ pc[u] \in {"device", "ack", "record"} => sequence[u] < Len(Content[u])
    /\ pc[u] \in {"ack", "record"} => Len(devices[u]) # 0
    /\ pc[u] \in {"answer", "ok"} => sequence[u] = Len(Content[u])

\* A download that asks for a chunk has a row.
DownloadAt == \A w \in Downloads : pc[w] \in {"request", "data"} => rows[w] # {}

\* The types of what the requests keep.
RequestTypeOK ==
  /\ online \subseteq Devices
  /\ pc \in [Handlers -> Phases]
  /\ devices \in [Uploads -> Seq(Devices)]
  /\ sequence \in [Uploads -> Nat]
  /\ tries \in [Uploads -> Nat]
  /\ rows \in [Downloads -> SUBSET [chunk : Chunks, sequence : Nat]]
  /\ candidates \in [Downloads -> SUBSET Devices]
  /\ body \in [Downloads -> Seq(Pieces)]
  /\ targets \in [Deletes -> SUBSET (Chunks \X Devices)]
  /\ ids \in [Deletes -> SUBSET Chunks]
  /\ refused \subseteq Handlers
  /\ faults \in 0..MaxFaults

TypeInv ==
  /\ CatalogTypeOK
  /\ AgentTypeOK
  /\ RequestTypeOK
  /\ HasTask
  /\ UploadAt
  /\ DownloadAt

LEMMA TypeParts == TypeInv => TypeOK
  BY DEF TypeInv, TypeOK, RequestTypeOK

-----------------------------------------------------------------------------
(* Facts about data.                                                       *)

\* The constants, as the steps use them.
LEMMA ConstantFacts ==
  /\ Uploads \subseteq Handlers /\ Downloads \subseteq Handlers /\ Deletes \subseteq Handlers
  /\ Uploads = Files
  /\ Agents \subseteq Devices
  /\ \A w \in Downloads : w \notin Uploads /\ w \notin Deletes /\ FileOf[w] \in Files
  /\ \A x \in Deletes : x \notin Uploads /\ x \notin Downloads /\ FileOf[x] \in Files
  /\ \A u \in Uploads : Content[u] \in Seq(Chunks) /\ u \notin Downloads /\ u \notin Deletes
  /\ MaxFaults \in Nat
  BY RequestsAssumption, AgentsAssumption, ContentAssumption DEF Uploads

\* A download that has rows has a first one.
LEMMA FirstRowIsRow ==
  ASSUME NEW w \in Downloads, rows[w] \subseteq [chunk : Chunks, sequence : Nat], rows[w] # {}
  PROVE  FirstRow(w) \in rows[w] /\ \A q \in rows[w] : FirstRow(w).sequence <= q.sequence
<1> DEFINE S == {r.sequence : r \in rows[w]}
<1>1. S \subseteq Nat /\ S # {}
  OBVIOUS
<1>2. PICK n \in S : \A m \in S : n <= m
  BY <1>1, LeastNatural
<1>3. PICK r \in rows[w] : r.sequence = n
  BY <1>2
<1>4. \A q \in rows[w] : r.sequence <= q.sequence
  BY <1>2, <1>3
<1>5. QED
  BY <1>3, <1>4 DEF FirstRow

\* SELECT gives an upload a sequence of devices, which is not empty.
LEMMA OrdersAreSequences ==
  ASSUME NEW S \in SUBSET Devices, S # {}, NEW order \in SetToSeqs(S)
  PROVE  order \in Seq(Devices) /\ Len(order) # 0
<1>1. IsFiniteSet(S)
  BY FS_Subset, RequestsAssumption
<1>2. Cardinality(S) \in Nat /\ Cardinality(S) # 0
  BY <1>1, FS_CardinalityType, FS_EmptySet
<1>3. order \in [1..Cardinality(S) -> S]
  BY DEF SetToSeqs
<1>4. QED
  BY <1>2, <1>3

\* The chunk an upload is at, and the device whose turn it is.
LEMMA UploadTurn ==
  ASSUME NEW u \in Uploads, TypeInv
  PROVE  /\ sequence[u] < Len(Content[u]) => NextChunk(u) \in Chunks
         /\ Len(devices[u]) # 0 => CurrentDevice(u) \in Devices
<1> USE ConstantFacts DEF TypeInv, RequestTypeOK
<1>1. sequence[u] < Len(Content[u]) => NextChunk(u) \in Chunks
  BY DEF NextChunk
<1>2. ASSUME Len(devices[u]) # 0 PROVE CurrentDevice(u) \in Devices
  <2> DEFINE n == Len(devices[u])
             k == sequence[u] + tries[u]
  <2>1. n \in Nat /\ n > 0 /\ k \in Nat
    BY <1>2
  <2>2. k % n \in 0..(n - 1)
    BY <2>1
  <2>3. (k % n) + 1 \in 1..n
    BY <2>1, <2>2
  <2>4. QED
    BY <2>3 DEF CurrentDevice
<1>3. QED
  BY <1>1, <1>2

-----------------------------------------------------------------------------
(* The types, step by step.                                                *)

LEMMA InitType == Init => TypeInv
<1> SUFFICES ASSUME Init PROVE TypeInv
  OBVIOUS
<1> USE ConstantFacts DEF Init
<1>1. CatalogTypeOK
  BY DEF CatalogInit, CatalogTypeOK
<1>2. AgentTypeOK /\ HasTask
  BY DEF AgentInit, AgentTypeOK, HasTask
<1>3. RequestTypeOK
  BY DEF RequestTypeOK, Phases
<1>4. UploadAt /\ DownloadAt
  BY DEF UploadAt, DownloadAt
<1>5. QED
  BY <1>1, <1>2, <1>3, <1>4 DEF TypeInv

\* The statements of the handlers keep the tables' types.
LEMMA FileStatementsType ==
  ASSUME CatalogTypeOK, NEW f \in Files,
         \/ InsertFile(f) \/ SetSize(f) \/ DeleteFileRow(f)
         \/ DeleteChunksOf(f) \/ DeleteLocationsOf(f)
         \/ \E q \in SUBSET Chunks : InsertDeletion(f, q)
  PROVE  CatalogTypeOK'
<1> USE DEF CatalogTypeOK
<1>1. CASE InsertFile(f) \/ SetSize(f) \/ DeleteFileRow(f)
  BY <1>1 DEF InsertFile, SetSize, DeleteFileRow
<1>2. CASE DeleteChunksOf(f)
  BY <1>2 DEF DeleteChunksOf
<1>3. CASE DeleteLocationsOf(f)
  BY <1>3 DEF DeleteLocationsOf
<1>4. CASE \E q \in SUBSET Chunks : InsertDeletion(f, q)
  BY <1>4 DEF InsertDeletion
<1>5. QED
  BY <1>1, <1>2, <1>3, <1>4

\* So do the relay's operations, the disks and the agents' loops being left alone.
LEMMA InjectType ==
  ASSUME AgentTypeOK, HasTask, NEW h \in Handlers, NEW d \in Agents, NEW c \in Chunks,
         NEW type \in {"STORE", "RETRIEVE", "DELETE"}, Inject(h, d, type, c),
         UNCHANGED <<diskVars, loopVars>>
  PROVE  AgentTypeOK' /\ HasTask'
  BY DEF AgentTypeOK, HasTask, Inject, Commands, diskVars, loopVars

LEMMA TakeAnswerType ==
  ASSUME AgentTypeOK, HasTask, NEW a, TakeAnswer(a), UNCHANGED <<diskVars, loopVars>>
  PROVE  AgentTypeOK' /\ HasTask'
  BY DEF AgentTypeOK, HasTask, TakeAnswer, diskVars, loopVars

\* Whatever a request does, at most one statement of it is refused.
FaultsMove(h) == UNCHANGED faultVars \/ Refusal(h)

LEMMA FaultsTurn ==
  ASSUME TypeInv, NEW h \in Handlers, FaultsMove(h)
  PROVE  /\ refused' \in {refused, refused \cup {h}}
         /\ refused' \subseteq Handlers /\ faults' \in 0..MaxFaults
<1>1. MaxFaults \in Nat /\ faults \in 0..MaxFaults /\ refused \subseteq Handlers
  BY ConstantFacts DEF TypeInv, RequestTypeOK
<1>2. CASE UNCHANGED faultVars
  BY <1>1, <1>2 DEF faultVars
<1>3. CASE Refusal(h)
  BY <1>1, <1>3 DEF Refusal
<1>4. QED
  BY <1>2, <1>3 DEF FaultsMove

LEMMA StepsTurnFaults ==
  ASSUME NEW h, Begin(h) \/ Step(h)
  PROVE  FaultsMove(h)
<1> USE DEF FaultsMove
<1>1. CASE Begin(h)
  BY <1>1 DEF Begin, BeginFails
<1>2. CASE UploadStep(h)
  BY <1>2 DEF UploadStep, UploadWrites, UploadChunk, UploadRecord, UploadCommit, Exec
<1>3. CASE DownloadStep(h)
  BY <1>3 DEF DownloadStep, DownloadRowsFail, DownloadLocate
<1>4. CASE DeleteStep(h)
  BY <1>4 DEF DeleteStep, DeleteTargets, DeleteCollect, DeleteWrites, DeleteStatement, DeleteLast, Exec
<1>5. QED
  BY <1>1, <1>2, <1>3, <1>4 DEF Step

\* The writes of an upload, of which the database may refuse any.
LEMMA UploadChunkIs ==
  ASSUME NEW u, UploadChunk(u)
  PROVE  /\ GoTo(u, "device") /\ pc[u] = "chunk" /\ sequence[u] < Len(Content[u])
         /\ InsertChunk(NextChunk(u), u, sequence[u]) \/ (UNCHANGED catalogVars /\ u \in refused')
         /\ tries' = [tries EXCEPT ![u] = 0]
         /\ UNCHANGED <<relayVars, diskVars, devices, sequence>>
  BY DEF UploadChunk, Exec, Refusal

LEMMA UploadRecordIs ==
  ASSUME NEW u, UploadRecord(u)
  PROVE  /\ GoTo(u, "chunk") /\ pc[u] = "record"
         /\ InsertLocation(NextChunk(u), CurrentDevice(u)) \/ UNCHANGED catalogVars
         /\ sequence' = [sequence EXCEPT ![u] = @ + 1]
         /\ UNCHANGED <<relayVars, diskVars, devices, tries>>
  BY DEF UploadRecord, Exec

LEMMA UploadCommitIs ==
  ASSUME NEW u, UploadCommit(u)
  PROVE  /\ GoTo(u, "answer") /\ pc[u] = "chunk" /\ sequence[u] = Len(Content[u])
         /\ SetSize(u) \/ (UNCHANGED catalogVars /\ u \in refused')
         /\ UNCHANGED <<relayVars, diskVars, devices, sequence, tries>>
  BY DEF UploadCommit, Exec, Refusal, uploadVars

\* An upload's steps.
LEMMA UploadType ==
  ASSUME TypeInv, NEW u \in Uploads, UploadFrame, FaultsMove(u),
         UploadRefused(u) \/ UploadBegin(u) \/ UploadWrites(u) \/ UploadActs(u)
  PROVE  TypeInv'
<1> USE ConstantFacts
<1>1. /\ CatalogTypeOK /\ AgentTypeOK /\ HasTask /\ RequestTypeOK /\ UploadAt /\ DownloadAt
      /\ u \in Handlers /\ sequence[u] \in Nat /\ tries[u] \in Nat /\ Len(Content[u]) \in Nat
      /\ devices[u] \in Seq(Devices)
  BY DEF TypeInv, RequestTypeOK
<1>2. /\ UNCHANGED <<loopVars, online, rows, candidates, body, targets, ids>>
      /\ refused' \subseteq Handlers /\ faults' \in 0..MaxFaults
  BY FaultsTurn DEF UploadFrame, downloadVars, deleteVars
<1>3. ASSUME NEW s \in Phases, GoTo(u, s),
             devices' \in [Uploads -> Seq(Devices)],
             sequence' \in [Uploads -> Nat], tries' \in [Uploads -> Nat]
      PROVE  RequestTypeOK'
  BY <1>1, <1>2, <1>3 DEF RequestTypeOK, GoTo
<1>4. ASSUME NEW s \in Phases, GoTo(u, s),
             \A v \in Uploads : v # u => sequence'[v] = sequence[v] /\ devices'[v] = devices[v],
             sequence'[u] <= Len(Content[u]),
             s \in {"device", "ack", "record"} => sequence'[u] < Len(Content[u]),
             s \in {"ack", "record"} => Len(devices'[u]) # 0,
             s \in {"answer", "ok"} => sequence'[u] = Len(Content[u])
      PROVE  UploadAt'
  <2>1. pc'[u] = s /\ \A v \in Uploads : v # u => pc'[v] = pc[v]
    BY <1>1, <1>4 DEF GoTo, RequestTypeOK
  <2>2. ASSUME NEW v \in Uploads, v # u
        PROVE  /\ sequence'[v] <= Len(Content[v])
               /\ pc'[v] \in {"device", "ack", "record"} => sequence'[v] < Len(Content[v])
               /\ pc'[v] \in {"ack", "record"} => Len(devices'[v]) # 0
               /\ pc'[v] \in {"answer", "ok"} => sequence'[v] = Len(Content[v])
    BY <1>1, <1>4, <2>1, <2>2 DEF UploadAt
  <2>3. QED
    BY <1>4, <2>1, <2>2 DEF UploadAt
<1>5. ASSUME NEW s \in Phases, GoTo(u, s) PROVE DownloadAt'
  BY <1>1, <1>2, <1>5 DEF DownloadAt, GoTo, RequestTypeOK
<1>6. /\ sequence[u] <= Len(Content[u])
      /\ pc[u] \in {"device", "ack", "record"} => sequence[u] < Len(Content[u]) /\ NextChunk(u) \in Chunks
      /\ pc[u] \in {"ack", "record"} => Len(devices[u]) # 0
      /\ Len(devices[u]) # 0 => CurrentDevice(u) \in Devices
      /\ pc[u] = "answer" => sequence[u] = Len(Content[u])
  BY <1>1, UploadTurn DEF UploadAt
<1>7. /\ devices \in [Uploads -> Seq(Devices)] /\ sequence \in [Uploads -> Nat]
      /\ tries \in [Uploads -> Nat]
  BY <1>1 DEF RequestTypeOK
<1>8. {"unavailable", "chunk", "device", "ack", "record", "answer", "ok"} \subseteq Phases
  BY DEF Phases
<1> HIDE ConstantFacts
<1>9. CASE UploadRefused(u)
  <2>1. GoTo(u, "unavailable") /\ UNCHANGED <<catalogVars, relayVars, diskVars, devices, sequence, tries>>
    BY <1>9 DEF UploadRefused, uploadVars
  <2>2. CatalogTypeOK' /\ AgentTypeOK' /\ HasTask'
    BY <1>1, <1>2, <2>1, CatalogFrame, AgentFrame
  <2>3. RequestTypeOK' /\ UploadAt' /\ DownloadAt'
    BY <1>3, <1>4, <1>5, <1>6, <1>7, <1>8, <2>1
  <2>4. QED
    BY <2>2, <2>3 DEF TypeInv
<1>10. CASE UploadBegin(u)
  <2>1. /\ GoTo(u, "chunk") /\ InsertFile(u)
        /\ UNCHANGED <<relayVars, diskVars, sequence, tries>>
    BY <1>10 DEF UploadBegin
  <2>2. PICK order \in SetToSeqs(online) : devices' = [devices EXCEPT ![u] = order]
    BY <1>10 DEF UploadBegin
  <2>3. order \in Seq(Devices)
    BY <1>1, <1>10, OrdersAreSequences DEF UploadBegin, RequestTypeOK
  <2>4. CatalogTypeOK' /\ AgentTypeOK' /\ HasTask'
    BY <1>1, <1>2, <2>1, FileStatementsType, AgentFrame, ConstantFacts
  <2>5. devices' \in [Uploads -> Seq(Devices)] /\ \A v \in Uploads : v # u => devices'[v] = devices[v]
    BY <1>7, <2>2, <2>3
  <2>6. RequestTypeOK' /\ UploadAt' /\ DownloadAt'
    BY <1>3, <1>4, <1>5, <1>6, <1>7, <1>8, <2>1, <2>5
  <2>7. QED
    BY <2>4, <2>6 DEF TypeInv

<1>11. CASE UploadChunk(u)
  <2>1. /\ GoTo(u, "device") /\ sequence[u] < Len(Content[u])
        /\ InsertChunk(NextChunk(u), u, sequence[u]) \/ UNCHANGED catalogVars
        /\ tries' = [tries EXCEPT ![u] = 0]
        /\ UNCHANGED <<relayVars, diskVars, devices, sequence>>
    BY <1>11, UploadChunkIs
  <2>2. NextChunk(u) \in Chunks /\ u \in Files
    BY <2>1, UploadTurn, ConstantFacts
  <2>3. CatalogTypeOK' /\ AgentTypeOK' /\ HasTask'
    BY <1>1, <1>2, <2>1, <2>2, ChunkStatementsType, CatalogFrame, AgentFrame
  <2>4. RequestTypeOK' /\ UploadAt' /\ DownloadAt'
    BY <1>3, <1>4, <1>5, <1>6, <1>7, <1>8, <2>1
  <2>5. QED
    BY <2>3, <2>4 DEF TypeInv
<1>12. CASE UploadStore(u)
  <2>1. /\ GoTo(u, "ack") /\ pc[u] = "device" /\ tries[u] < Len(devices[u])
        /\ CurrentDevice(u) \in Agents /\ Inject(u, CurrentDevice(u), "STORE", NextChunk(u))
        /\ UNCHANGED <<catalogVars, diskVars, devices, sequence, tries>>
    BY <1>12 DEF UploadStore, uploadVars
  <2>2. CatalogTypeOK' /\ AgentTypeOK' /\ HasTask'
    BY <1>1, <1>2, <1>6, <2>1, CatalogFrame, InjectType
  <2>3. Len(devices[u]) # 0
    BY <1>1, <2>1
  <2>4. RequestTypeOK' /\ UploadAt' /\ DownloadAt'
    BY <1>3, <1>4, <1>5, <1>6, <1>7, <1>8, <2>1, <2>3
  <2>5. QED
    BY <2>2, <2>4 DEF TypeInv
<1>13. CASE UploadToDrive(u)
  <2>1. /\ GoTo(u, "record") /\ pc[u] = "device" /\ tries[u] < Len(devices[u])
        /\ stored' = [stored EXCEPT ![CurrentDevice(u)][NextChunk(u)] = "whole"]
        /\ saved' = saved \cup {<<NextChunk(u), CurrentDevice(u)>>}
        /\ UNCHANGED <<catalogVars, relayVars, devices, sequence, tries>>
    BY <1>13 DEF UploadToDrive, uploadVars
  <2>2. Len(devices[u]) # 0
    BY <1>1, <2>1
  <2>3. CatalogTypeOK' /\ AgentTypeOK' /\ HasTask'
    BY <1>1, <1>2, <1>6, <2>1, <2>2, CatalogFrame, DiskType
  <2>4. RequestTypeOK' /\ UploadAt' /\ DownloadAt'
    BY <1>3, <1>4, <1>5, <1>6, <1>7, <1>8, <2>1, <2>2
  <2>5. QED
    BY <2>3, <2>4 DEF TypeInv
<1>14. CASE UploadDeviceFails(u) \/ UploadAckTimeout(u)
  <2>1. /\ GoTo(u, "device") /\ pc[u] \in {"device", "ack"}
        /\ tries' = [tries EXCEPT ![u] = @ + 1]
        /\ UNCHANGED <<catalogVars, relayVars, diskVars, devices, sequence>>
    BY <1>14 DEF UploadDeviceFails, UploadAckTimeout, TryNextDevice
  <2>2. CatalogTypeOK' /\ AgentTypeOK' /\ HasTask'
    BY <1>1, <1>2, <2>1, CatalogFrame, AgentFrame
  <2>3. tries' \in [Uploads -> Nat]
    BY <1>7, <2>1
  <2>4. RequestTypeOK' /\ UploadAt' /\ DownloadAt'
    BY <1>3, <1>4, <1>5, <1>6, <1>7, <1>8, <2>1, <2>3
  <2>5. QED
    BY <2>2, <2>4 DEF TypeInv
<1>15. CASE UploadAck(u) \/ UploadWoken(u)
  <2>1. /\ GoTo(u, "record") /\ pc[u] = "ack"
        /\ UNCHANGED <<catalogVars, diskVars, devices, sequence, tries>>
        /\ (\E a \in answers : TakeAnswer(a)) \/ UNCHANGED relayVars
    BY <1>15 DEF UploadAck, UploadWoken, uploadVars
  <2>2. AgentTypeOK' /\ HasTask'
    BY <1>1, <1>2, <2>1, TakeAnswerType, AgentFrame
  <2>3. CatalogTypeOK'
    BY <1>1, <2>1, CatalogFrame
  <2>4. RequestTypeOK' /\ UploadAt' /\ DownloadAt'
    BY <1>3, <1>4, <1>5, <1>6, <1>7, <1>8, <2>1
  <2>5. QED
    BY <2>2, <2>3, <2>4 DEF TypeInv
<1>16. CASE UploadRecord(u)
  <2>1. /\ GoTo(u, "chunk") /\ pc[u] = "record"
        /\ InsertLocation(NextChunk(u), CurrentDevice(u)) \/ UNCHANGED catalogVars
        /\ sequence' = [sequence EXCEPT ![u] = @ + 1]
        /\ UNCHANGED <<relayVars, diskVars, devices, tries>>
    BY <1>16, UploadRecordIs
  <2>2. CatalogTypeOK' /\ AgentTypeOK' /\ HasTask'
    BY <1>1, <1>2, <1>6, <2>1, ChunkStatementsType, CatalogFrame, AgentFrame
  <2>3. /\ sequence' \in [Uploads -> Nat] /\ sequence'[u] <= Len(Content[u])
        /\ \A v \in Uploads : v # u => sequence'[v] = sequence[v]
    BY <1>1, <1>6, <1>7, <2>1
  <2>4. RequestTypeOK' /\ UploadAt' /\ DownloadAt'
    BY <1>3, <1>4, <1>5, <1>7, <1>8, <2>1, <2>3
  <2>5. QED
    BY <2>2, <2>4 DEF TypeInv
<1>17. CASE UploadUnavailable(u)
  <2>1. /\ GoTo(u, "unavailable")
        /\ UNCHANGED <<catalogVars, relayVars, diskVars, devices, sequence, tries>>
    BY <1>17 DEF UploadUnavailable, uploadVars
  <2>2. CatalogTypeOK' /\ AgentTypeOK' /\ HasTask'
    BY <1>1, <1>2, <2>1, CatalogFrame, AgentFrame
  <2>3. RequestTypeOK' /\ UploadAt' /\ DownloadAt'
    BY <1>3, <1>4, <1>5, <1>6, <1>7, <1>8, <2>1
  <2>4. QED
    BY <2>2, <2>3 DEF TypeInv
<1>18. CASE UploadCommit(u)
  <2>1. /\ GoTo(u, "answer") /\ sequence[u] = Len(Content[u])
        /\ SetSize(u) \/ UNCHANGED catalogVars
        /\ UNCHANGED <<relayVars, diskVars, devices, sequence, tries>>
    BY <1>18, UploadCommitIs
  <2>2. CatalogTypeOK' /\ AgentTypeOK' /\ HasTask'
    BY <1>1, <1>2, <2>1, FileStatementsType, CatalogFrame, AgentFrame, ConstantFacts
  <2>3. RequestTypeOK' /\ UploadAt' /\ DownloadAt'
    BY <1>3, <1>4, <1>5, <1>6, <1>7, <1>8, <2>1
  <2>4. QED
    BY <2>2, <2>3 DEF TypeInv
<1>19. CASE UploadAnswer(u)
  <2>1. /\ GoTo(u, "ok") /\ pc[u] = "answer"
        /\ UNCHANGED <<catalogVars, relayVars, diskVars, devices, sequence, tries>>
    BY <1>19 DEF UploadAnswer, uploadVars
  <2>2. CatalogTypeOK' /\ AgentTypeOK' /\ HasTask'
    BY <1>1, <1>2, <2>1, CatalogFrame, AgentFrame
  <2>3. RequestTypeOK' /\ UploadAt' /\ DownloadAt'
    BY <1>3, <1>4, <1>5, <1>6, <1>7, <1>8, <2>1
  <2>4. QED
    BY <2>2, <2>3 DEF TypeInv
<1>20. QED
  BY <1>9, <1>10, <1>11, <1>12, <1>13, <1>14, <1>15, <1>16, <1>17, <1>18, <1>19
     DEF UploadWrites, UploadActs

\* A download's steps.
LEMMA DownloadType ==
  ASSUME TypeInv, NEW w \in Downloads, DownloadFrame, FaultsMove(w),
         DownloadRefused(w) \/ DownloadBegin(w) \/ DownloadStep(w)
  PROVE  TypeInv'
<1>1. /\ CatalogTypeOK /\ AgentTypeOK /\ HasTask /\ RequestTypeOK /\ UploadAt /\ DownloadAt
      /\ w \in Handlers /\ w \notin Uploads /\ rows[w] \subseteq [chunk : Chunks, sequence : Nat]
  BY ConstantFacts DEF TypeInv, RequestTypeOK
<1>2. /\ UNCHANGED <<catalogVars, diskVars, loopVars, online, devices, sequence, tries, targets, ids>>
      /\ refused' \subseteq Handlers /\ faults' \in 0..MaxFaults
  BY <1>1, FaultsTurn DEF DownloadFrame, uploadVars, deleteVars
<1>3. CatalogTypeOK'
  BY <1>1, <1>2, CatalogFrame
<1>4. UploadAt'
  <2>1. \A u \in Uploads : pc'[u] = pc[u]
    <3>1. pc' = pc \/ \E s \in Phases : GoTo(w, s)
      BY DEF DownloadRefused, DownloadBegin, DownloadStep, DownloadActs, DownloadRows, DownloadRowsFail,
             DownloadLocate, DownloadRequest, DownloadDeviceFails, DownloadFromDrive, DownloadData,
             DownloadWoken, DownloadTimeout, DownloadExhausted, DownloadEnd, WriteChunk, Phases
    <3>2. QED
      BY <1>1, <3>1, ConstantFacts DEF GoTo, RequestTypeOK
  <2>2. QED
    BY <1>1, <1>2, <2>1 DEF UploadAt
<1>5. ASSUME NEW s \in Phases, GoTo(w, s),
             rows' \in [Downloads -> SUBSET [chunk : Chunks, sequence : Nat]],
             \A v \in Downloads : v # w => rows'[v] = rows[v],
             candidates' \in [Downloads -> SUBSET Devices], body' \in [Downloads -> Seq(Pieces)],
             s \in {"request", "data"} => rows'[w] # {}
      PROVE  RequestTypeOK' /\ DownloadAt'
  <2>1. RequestTypeOK'
    BY <1>1, <1>2, <1>5 DEF RequestTypeOK, GoTo
  <2>2. pc'[w] = s /\ \A v \in Downloads : v # w => pc'[v] = pc[v]
    BY <1>1, <1>5, ConstantFacts DEF RequestTypeOK, GoTo
  <2>3. QED
    BY <1>1, <1>5, <2>1, <2>2 DEF DownloadAt
<1>6. /\ rows \in [Downloads -> SUBSET [chunk : Chunks, sequence : Nat]]
      /\ candidates \in [Downloads -> SUBSET Devices] /\ body \in [Downloads -> Seq(Pieces)]
      /\ pc[w] \in {"request", "data"} => rows[w] # {}
  BY <1>1 DEF RequestTypeOK, DownloadAt
<1>7. {"notfound", "rows", "locate", "request", "data", "unavailable", "failed", "broken", "ok"}
        \subseteq Phases
  BY DEF Phases
<1>8. rows[w] # {} => FirstRow(w) \in rows[w] /\ FirstRow(w).chunk \in Chunks
  BY <1>1, FirstRowIsRow
<1>10. ASSUME NEW data \in {"whole", "part", "none"}, WriteChunk(w, data), rows[w] # {},
              UNCHANGED candidates
       PROVE  RequestTypeOK' /\ DownloadAt'
  <2>1. [chunk |-> FirstRow(w).chunk, data |-> data] \in Pieces
    BY <1>8, <1>10 DEF Pieces
  <2>2. body' \in [Downloads -> Seq(Pieces)]
    BY <1>6, <1>10, <2>1 DEF WriteChunk
  <2>3. /\ rows' \in [Downloads -> SUBSET [chunk : Chunks, sequence : Nat]]
        /\ \A v \in Downloads : v # w => rows'[v] = rows[v]
    BY <1>6, <1>10 DEF WriteChunk
  <2>4. QED
    BY <1>5, <1>6, <1>7, <1>10, <2>2, <2>3 DEF WriteChunk
<1>11. CASE DownloadRefused(w) \/ DownloadBegin(w) \/ DownloadEnd(w) \/ DownloadRowsFail(w)
  <2>1. /\ \E s \in {"notfound", "rows", "ok", "failed"} : GoTo(w, s)
        /\ UNCHANGED <<relayVars, rows, candidates, body>>
    BY <1>11 DEF DownloadRefused, DownloadBegin, DownloadEnd, DownloadRowsFail, downloadVars
  <2>2. RequestTypeOK' /\ DownloadAt'
    BY <1>5, <1>6, <1>7, <2>1
  <2>3. AgentTypeOK' /\ HasTask'
    BY <2>1, <1>1, <1>2, AgentFrame
  <2>4. QED
    BY <1>3, <1>4, <2>2, <2>3 DEF TypeInv
<1>12. CASE DownloadTimeout(w) \/ DownloadExhausted(w)
  <2>1. /\ \E s \in {"request", "unavailable", "broken"} : GoTo(w, s)
        /\ pc[w] \in {"data", "request"}
        /\ UNCHANGED <<relayVars, rows, candidates, body>>
    BY <1>12 DEF DownloadTimeout, DownloadExhausted, downloadVars
  <2>2. RequestTypeOK' /\ DownloadAt'
    BY <1>5, <1>6, <1>7, <2>1
  <2>3. AgentTypeOK' /\ HasTask'
    BY <2>1, <1>1, <1>2, AgentFrame
  <2>4. QED
    BY <1>3, <1>4, <2>2, <2>3 DEF TypeInv
<1>13. CASE DownloadRows(w)
  <2>1. /\ GoTo(w, "locate") /\ UNCHANGED <<relayVars, candidates, body>>
        /\ rows' = [rows EXCEPT ![w] =
             {[chunk |-> c, sequence |-> chunks[c].sequence] : c \in ChunksOf(FileOf[w])}]
    BY <1>13 DEF DownloadRows
  <2>2. \A c \in ChunksOf(FileOf[w]) : c \in Chunks /\ chunks[c].sequence \in Nat
    BY <1>1 DEF ChunksOf, CatalogTypeOK, Rows
  <2>3. {[chunk |-> c, sequence |-> chunks[c].sequence] : c \in ChunksOf(FileOf[w])}
          \subseteq [chunk : Chunks, sequence : Nat]
    BY <2>2
  <2>4. /\ rows' \in [Downloads -> SUBSET [chunk : Chunks, sequence : Nat]]
        /\ \A v \in Downloads : v # w => rows'[v] = rows[v]
    BY <1>6, <2>1, <2>3
  <2>5. RequestTypeOK' /\ DownloadAt'
    BY <1>5, <1>6, <1>7, <2>1, <2>4
  <2>6. AgentTypeOK' /\ HasTask'
    BY <2>1, <1>1, <1>2, AgentFrame
  <2>7. QED
    BY <1>3, <1>4, <2>5, <2>6 DEF TypeInv
<1>14. CASE DownloadLocate(w)
  <2>1. /\ GoTo(w, "request") /\ rows[w] # {} /\ UNCHANGED <<relayVars, rows, body>>
        /\ \E D \in SUBSET online : candidates' = [candidates EXCEPT ![w] = D]
    BY <1>14 DEF DownloadLocate
  <2>2. candidates' \in [Downloads -> SUBSET Devices]
    BY <1>1, <1>6, <2>1 DEF RequestTypeOK
  <2>3. RequestTypeOK' /\ DownloadAt'
    BY <1>5, <1>6, <1>7, <2>1, <2>2
  <2>4. AgentTypeOK' /\ HasTask'
    BY <2>1, <1>1, <1>2, AgentFrame
  <2>5. QED
    BY <1>3, <1>4, <2>3, <2>4 DEF TypeInv
<1>15. CASE DownloadRequest(w)
  <2>1. PICK d \in candidates[w] \cap Agents :
          /\ Inject(w, d, "RETRIEVE", FirstRow(w).chunk)
          /\ candidates' = [candidates EXCEPT ![w] = @ \ {d}]
    BY <1>15 DEF DownloadRequest
  <2>2. GoTo(w, "data") /\ pc[w] = "request" /\ UNCHANGED <<rows, body>>
    BY <1>15 DEF DownloadRequest
  <2>3. candidates' \in [Downloads -> SUBSET Devices]
    BY <1>6, <2>1
  <2>4. RequestTypeOK' /\ DownloadAt'
    BY <1>5, <1>6, <1>7, <2>2, <2>3
  <2>5. AgentTypeOK' /\ HasTask'
    BY <1>1, <1>2, <1>6, <1>8, <2>1, <2>2, InjectType
  <2>6. QED
    BY <1>3, <1>4, <2>4, <2>5 DEF TypeInv
<1>16. CASE DownloadDeviceFails(w)
  <2>1. /\ UNCHANGED <<relayVars, pc, rows, body>>
        /\ \E d \in candidates[w] : candidates' = [candidates EXCEPT ![w] = @ \ {d}]
    BY <1>16 DEF DownloadDeviceFails
  <2>2. candidates' \in [Downloads -> SUBSET Devices]
    BY <1>6, <2>1
  <2>3. RequestTypeOK' /\ DownloadAt'
    BY <1>1, <1>2, <2>1, <2>2 DEF RequestTypeOK, DownloadAt
  <2>4. AgentTypeOK' /\ HasTask'
    BY <2>1, <1>1, <1>2, AgentFrame
  <2>5. QED
    BY <1>3, <1>4, <2>3, <2>4 DEF TypeInv
<1>17. CASE DownloadFromDrive(w)
  <2>1. PICK d \in candidates[w] \ Agents : WriteChunk(w, stored[d][FirstRow(w).chunk])
    BY <1>17 DEF DownloadFromDrive
  <2>2. pc[w] = "request" /\ UNCHANGED <<relayVars, candidates>>
    BY <1>17 DEF DownloadFromDrive
  <2>3. stored[d][FirstRow(w).chunk] \in {"none", "part", "whole"}
    BY <1>1, <1>6, <1>8, <2>2 DEF AgentTypeOK
  <2>4. RequestTypeOK' /\ DownloadAt'
    BY <1>6, <1>10, <2>1, <2>2, <2>3
  <2>5. AgentTypeOK' /\ HasTask'
    BY <2>2, <1>1, <1>2, AgentFrame
  <2>6. QED
    BY <1>3, <1>4, <2>4, <2>5 DEF TypeInv
<1>18. CASE DownloadData(w)
  <2>1. PICK a \in answers : TakeAnswer(a) /\ WriteChunk(w, a.data)
    BY <1>18 DEF DownloadData
  <2>2. pc[w] = "data" /\ UNCHANGED candidates
    BY <1>18 DEF DownloadData
  <2>3. a.data \in {"whole", "part", "none"}
    BY <1>1 DEF AgentTypeOK, Answers
  <2>4. RequestTypeOK' /\ DownloadAt'
    BY <1>6, <1>10, <2>1, <2>2, <2>3
  <2>5. AgentTypeOK' /\ HasTask'
    BY <2>1, <1>1, <1>2, TakeAnswerType
  <2>6. QED
    BY <1>3, <1>4, <2>4, <2>5 DEF TypeInv
<1>19. CASE DownloadWoken(w)
  <2>1. WriteChunk(w, "none") /\ pc[w] = "data" /\ UNCHANGED <<relayVars, candidates>>
    BY <1>19 DEF DownloadWoken
  <2>2. RequestTypeOK' /\ DownloadAt'
    BY <1>6, <1>10, <2>1
  <2>3. AgentTypeOK' /\ HasTask'
    BY <2>1, <1>1, <1>2, AgentFrame
  <2>4. QED
    BY <1>3, <1>4, <2>2, <2>3 DEF TypeInv
<1>20. QED
  BY <1>11, <1>12, <1>13, <1>14, <1>15, <1>16, <1>17, <1>18, <1>19 DEF DownloadStep, DownloadActs

\* A delete's steps.
LEMMA DeleteType ==
  ASSUME TypeInv, NEW x \in Deletes, DeleteFrame, FaultsMove(x),
         DeleteRefused(x) \/ DeleteBegin(x) \/ DeleteStep(x)
  PROVE  TypeInv'
<1>1. /\ CatalogTypeOK /\ AgentTypeOK /\ HasTask /\ RequestTypeOK /\ UploadAt /\ DownloadAt
      /\ x \in Handlers /\ x \notin Uploads /\ x \notin Downloads /\ FileOf[x] \in Files
      /\ Agents \subseteq Devices
  BY ConstantFacts DEF TypeInv
<1>2. /\ UNCHANGED <<loopVars, online, devices, sequence, tries, rows, candidates, body>>
      /\ refused' \subseteq Handlers /\ faults' \in 0..MaxFaults
  BY <1>1, FaultsTurn DEF DeleteFrame, uploadVars, downloadVars
<1>3. ASSUME pc' = pc \/ \E s \in Phases : GoTo(x, s),
             targets' \in [Deletes -> SUBSET (Chunks \X Devices)], ids' \in [Deletes -> SUBSET Chunks]
      PROVE  RequestTypeOK' /\ UploadAt' /\ DownloadAt'
  <2>1. RequestTypeOK'
    <3>1. pc' \in [Handlers -> Phases]
      BY <1>1, <1>3 DEF RequestTypeOK, GoTo
    <3>2. QED
      BY <1>1, <1>2, <1>3, <3>1 DEF RequestTypeOK
  <2>2. \A h \in Uploads \cup Downloads : pc'[h] = pc[h]
    BY <1>1, <1>3, ConstantFacts DEF RequestTypeOK, GoTo
  <2>3. QED
    BY <1>1, <1>2, <2>1, <2>2 DEF UploadAt, DownloadAt
<1>4. targets \in [Deletes -> SUBSET (Chunks \X Devices)] /\ ids \in [Deletes -> SUBSET Chunks]
  BY <1>1 DEF RequestTypeOK
<1>5. {"notfound", "targets", "notify", "deletion", "locations", "chunks", "file", "answer", "failed", "ok"}
        \subseteq Phases
  BY DEF Phases
<1>6. CASE DeleteRefused(x) \/ DeleteBegin(x) \/ DeleteAnswer(x)
  <2>1. /\ \E s \in {"notfound", "targets", "ok"} : GoTo(x, s)
        /\ UNCHANGED <<catalogVars, relayVars, diskVars, targets, ids>>
    BY <1>6 DEF DeleteRefused, DeleteBegin, DeleteAnswer, deleteVars
  <2>2. RequestTypeOK' /\ UploadAt' /\ DownloadAt'
    BY <1>3, <1>4, <1>5, <2>1
  <2>3. CatalogTypeOK' /\ AgentTypeOK' /\ HasTask'
    BY <1>1, <1>2, <2>1, CatalogFrame, AgentFrame
  <2>4. QED
    BY <2>2, <2>3 DEF TypeInv
<1>7. CASE DeleteTargets(x)
  <2>1. /\ GoTo(x, "notify") /\ UNCHANGED <<catalogVars, relayVars, diskVars, ids>>
        /\ \E T \in SUBSET locations : targets' = [targets EXCEPT ![x] = T]
    BY <1>7 DEF DeleteTargets
  <2>2. targets' \in [Deletes -> SUBSET (Chunks \X Devices)]
    BY <1>1, <1>4, <2>1 DEF CatalogTypeOK
  <2>3. RequestTypeOK' /\ UploadAt' /\ DownloadAt'
    BY <1>3, <1>4, <1>5, <2>1, <2>2
  <2>4. CatalogTypeOK' /\ AgentTypeOK' /\ HasTask'
    BY <1>1, <1>2, <2>1, CatalogFrame, AgentFrame
  <2>5. QED
    BY <2>3, <2>4 DEF TypeInv
<1>8. CASE DeleteNotify(x)
  <2>1. PICK l \in targets[x] :
          /\ targets' = [targets EXCEPT ![x] = @ \ {l}]
          /\ \/ UNCHANGED <<relayVars, stored>>
             \/ l[2] \in Agents /\ Inject(x, l[2], "DELETE", l[1]) /\ UNCHANGED stored
             \/ stored' = [stored EXCEPT ![l[2]][l[1]] = "none"] /\ UNCHANGED relayVars
    BY <1>8 DEF DeleteNotify
  <2>2. UNCHANGED <<catalogVars, saved, pc, ids>>
    BY <1>8 DEF DeleteNotify
  <2>3. l[1] \in Chunks /\ l[2] \in Devices
    BY <1>4, <2>1
  <2>4. targets' \in [Deletes -> SUBSET (Chunks \X Devices)]
    BY <1>4, <2>1
  <2>5. RequestTypeOK' /\ UploadAt' /\ DownloadAt'
    BY <1>3, <1>4, <2>2, <2>4
  <2>6. AgentTypeOK' /\ HasTask'
    <3>1. CASE UNCHANGED <<relayVars, stored>>
      BY <1>1, <1>2, <2>2, <3>1, AgentFrame DEF diskVars
    <3>2. CASE l[2] \in Agents /\ Inject(x, l[2], "DELETE", l[1]) /\ UNCHANGED stored
      BY <1>1, <1>2, <2>2, <2>3, <3>2, InjectType DEF diskVars
    <3>3. CASE stored' = [stored EXCEPT ![l[2]][l[1]] = "none"] /\ UNCHANGED relayVars
      BY <1>1, <1>2, <2>2, <2>3, <3>3, DiskType
    <3>4. QED
      BY <2>1, <3>1, <3>2, <3>3
  <2>7. QED
    BY <1>1, <2>2, <2>5, <2>6, CatalogFrame DEF TypeInv
<1>9. CASE DeleteCollect(x)
  <2>1. /\ GoTo(x, "deletion") /\ UNCHANGED <<catalogVars, relayVars, diskVars, targets>>
        /\ \E Q \in SUBSET Chunks : ids' = [ids EXCEPT ![x] = Q]
    BY <1>9 DEF DeleteCollect, ChunksOf
  <2>2. ids' \in [Deletes -> SUBSET Chunks]
    BY <1>4, <2>1
  <2>3. RequestTypeOK' /\ UploadAt' /\ DownloadAt'
    BY <1>3, <1>4, <1>5, <2>1, <2>2
  <2>4. CatalogTypeOK' /\ AgentTypeOK' /\ HasTask'
    BY <1>1, <1>2, <2>1, CatalogFrame, AgentFrame
  <2>5. QED
    BY <2>3, <2>4 DEF TypeInv
<1>10. CASE DeleteWrites(x) \/ DeleteLast(x)
  <2>1. /\ \E s \in Phases : GoTo(x, s)
        /\ UNCHANGED <<relayVars, diskVars, targets, ids>>
        /\ \/ InsertDeletion(FileOf[x], ids[x]) \/ DeleteLocationsOf(FileOf[x])
           \/ DeleteChunksOf(FileOf[x]) \/ DeleteFileRow(FileOf[x]) \/ UNCHANGED catalogVars
    BY <1>5, <1>10 DEF DeleteWrites, DeleteStatement, DeleteLast, Exec, deleteVars
  <2>2. ids[x] \in SUBSET Chunks
    BY <1>4
  <2>3. CatalogTypeOK'
    BY <1>1, <2>1, <2>2, FileStatementsType, CatalogFrame
  <2>4. RequestTypeOK' /\ UploadAt' /\ DownloadAt'
    BY <1>3, <1>4, <2>1
  <2>5. AgentTypeOK' /\ HasTask'
    BY <1>1, <1>2, <2>1, AgentFrame
  <2>6. QED
    BY <2>3, <2>4, <2>5 DEF TypeInv
<1>11. QED
  BY <1>6, <1>7, <1>8, <1>9, <1>10 DEF DeleteStep

\* A request whose first statement fails ends at once.
LEMMA BeginFailsIs ==
  ASSUME TypeInv, NEW h \in Handlers, BeginFails(h)
  PROVE  /\ pc[h] = "idle" /\ refused' = refused \cup {h}
         /\ pc' = [pc EXCEPT ![h] = pc'[h]] /\ pc'[h] \in {"unavailable", "failed", "notfound"}
         /\ h \in Downloads \cup Deletes => pc'[h] = "notfound"
         /\ h \in Uploads => pc'[h] # "notfound"
         /\ UNCHANGED <<catalogVars, relayVars, diskVars, loopVars, online, requestVars>>
<1>1. PICK phase \in IF h \in Uploads THEN {"unavailable", "failed"} ELSE {"notfound"} : GoTo(h, phase)
  BY DEF BeginFails
<1>2. pc' = [pc EXCEPT ![h] = phase] /\ pc \in [Handlers -> Phases]
  BY <1>1 DEF GoTo, TypeInv, RequestTypeOK
<1>3. pc'[h] = phase
  BY <1>2
<1>4. h \in Downloads \cup Deletes => h \notin Uploads
  BY ConstantFacts
<1>5. QED
  BY <1>1, <1>2, <1>3, <1>4 DEF BeginFails, Refusal

LEMMA BeginFailsType ==
  ASSUME TypeInv, NEW h \in Handlers, BeginFails(h)
  PROVE  TypeInv'
<1>1. /\ UNCHANGED <<catalogVars, relayVars, diskVars, loopVars, online, devices, sequence, tries,
                     rows, candidates, body, targets, ids>>
      /\ pc' = [pc EXCEPT ![h] = pc'[h]] /\ pc'[h] \in {"unavailable", "failed", "notfound"}
  BY BeginFailsIs DEF requestVars, uploadVars, downloadVars, deleteVars
<1>2. refused' \subseteq Handlers /\ faults' \in 0..MaxFaults
  BY FaultsTurn DEF BeginFails, FaultsMove
<1>3. /\ CatalogTypeOK /\ AgentTypeOK /\ HasTask /\ RequestTypeOK /\ UploadAt /\ DownloadAt
      /\ pc \in [Handlers -> Phases] /\ pc'[h] \in Phases
  BY <1>1 DEF TypeInv, RequestTypeOK, Phases
<1>4. pc' \in [Handlers -> Phases] /\ \A k \in Handlers : pc'[k] = pc[k] \/ pc'[k] = pc'[h]
  BY <1>1, <1>3
<1>5. RequestTypeOK'
  BY <1>1, <1>2, <1>3, <1>4 DEF RequestTypeOK
<1>6. UploadAt' /\ DownloadAt'
  BY <1>1, <1>3, <1>4, ConstantFacts DEF UploadAt, DownloadAt
<1>7. QED
  BY <1>1, <1>3, <1>5, <1>6, CatalogFrame, AgentFrame DEF TypeInv

\* All steps.
LEMMA NextType == TypeInv /\ [Next]_vars => TypeInv'
<1> SUFFICES ASSUME TypeInv, [Next]_vars PROVE TypeInv'
  OBVIOUS
<1>1. /\ CatalogTypeOK /\ AgentTypeOK /\ HasTask /\ RequestTypeOK /\ UploadAt /\ DownloadAt
  BY DEF TypeInv
<1>2. ASSUME NEW h \in Handlers, Begin(h) \/ Step(h) PROVE TypeInv'
  <2>1. FaultsMove(h)
    BY <1>2, StepsTurnFaults
  <2>2. CASE BeginFails(h)
    BY <2>2, BeginFailsType
  <2>3. CASE Received(h) \/ Step(h)
    BY <2>1, <2>3, UploadType, DownloadType, DeleteType DEF Received, Step, UploadStep
  <2>4. QED
    BY <1>2, <2>2, <2>3 DEF Begin
<1>3. ASSUME UNCHANGED <<pc, requestVars, refused>>, online' \subseteq Devices, faults' \in 0..MaxFaults
      PROVE  RequestTypeOK' /\ UploadAt' /\ DownloadAt'
  <2>1. UNCHANGED <<pc, devices, sequence, tries, rows, candidates, body, targets, ids, refused>>
    BY <1>3 DEF requestVars, uploadVars, downloadVars, deleteVars
  <2>2. RequestTypeOK'
    BY <1>1, <1>3, <2>1 DEF RequestTypeOK
  <2>3. QED
    BY <1>1, <2>1, <2>2 DEF UploadAt, DownloadAt
<1>4. online \subseteq Devices /\ faults \in 0..MaxFaults /\ MaxFaults \in Nat
  BY <1>1, ConstantFacts DEF RequestTypeOK
<1>5. ASSUME NEW d \in Agents, AgentActs(d) \/ AgentFails(d) PROVE TypeInv'
  <2>1. CatalogTypeOK' /\ AgentTypeOK' /\ HasTask'
    BY <1>1, <1>5, AgentType DEF AgentActs, AgentFails
  <2>2. UNCHANGED <<pc, requestVars, online, refused>> /\ faults' \in 0..MaxFaults
    BY <1>4, <1>5 DEF AgentActs, AgentFails, faultVars
  <2>3. QED
    BY <1>3, <1>4, <2>1, <2>2 DEF TypeInv
<1>6. ASSUME NEW d \in Devices, ComeOnline(d) PROVE TypeInv'
  <2>1. /\ online' = online \cup {d}
        /\ UNCHANGED <<catalogVars, relayVars, diskVars, loopVars, pc, requestVars, refused, faults>>
    BY <1>6 DEF ComeOnline, faultVars
  <2>2. QED
    BY <1>1, <1>3, <1>4, <2>1, CatalogFrame, AgentFrame DEF TypeInv
<1>7. CASE ServerRestart
  <2>1. /\ pc' = [h \in Handlers |-> IF pc[h] \in Final \cup {"idle"} THEN pc[h] ELSE "lost"]
        /\ inbox' = [d \in Agents |-> {}] /\ answers' = {} /\ sentOn' = {}
        /\ faults < MaxFaults /\ faults' = faults + 1
        /\ UNCHANGED <<catalogVars, diskVars, loopVars, online, devices, sequence, tries, rows, candidates,
                       body, targets, ids, refused>>
    BY <1>7 DEF ServerRestart, requestVars, uploadVars, downloadVars, deleteVars
  <2>2. RequestTypeOK'
    <3>1. pc' \in [Handlers -> Phases]
      BY <1>1, <2>1 DEF RequestTypeOK, Phases
    <3>2. QED
      BY <1>1, <1>4, <2>1, <3>1 DEF RequestTypeOK
  <2>3. \A h \in Handlers : pc'[h] = pc[h] \/ pc'[h] = "lost"
    BY <2>1
  <2>4. UploadAt' /\ DownloadAt'
    BY <1>1, <2>1, <2>3, ConstantFacts DEF UploadAt, DownloadAt
  <2>5. AgentTypeOK' /\ HasTask'
    BY <1>1, <2>1 DEF AgentTypeOK, HasTask, diskVars, loopVars
  <2>6. QED
    BY <1>1, <2>1, <2>2, <2>4, <2>5, CatalogFrame DEF TypeInv
<1>8. CASE UNCHANGED vars
  BY <1>1, <1>3, <1>4, <1>8, CatalogFrame, AgentFrame DEF TypeInv, vars, faultVars
<1>9. QED
  BY <1>2, <1>5, <1>6, <1>7, <1>8 DEF Next, Quiet

\* Every variable keeps its type: in particular every piece a download writes
\* and every command an agent carries out is of a chunk, whichever rows the
\* download found, and no device is asked that is not one of the user's.
THEOREM TypeCorrect == Spec => []TypeOK
<1>1. QED
  BY InitType, NextType, TypeParts, PTL DEF Spec

-----------------------------------------------------------------------------
(***************************************************************************)
(* An acknowledgement names its chunk and neither the device nor the try   *)
(* it answers, and its clean-up may wake a waiter with no acknowledgement  *)
(* at all.  So the argument follows the chunk: wherever an agent, the      *)
(* relay or an upload holds that a chunk is stored, some device had saved  *)
(* it before.                                                              *)
(***************************************************************************)
EverSaved(c) == \E d \in Devices : <<c, d>> \in saved

\* The agents that are about to report or to acknowledge a chunk.
AgentsSaved == \A d \in Agents : apc[d] \in {"saved", "reported"} => EverSaved(task[d].chunk)

\* The acknowledgements, taken or not.
AcksSaved ==
  \A c \in Chunks : <<"ack", c>> \in sentOn \/ (\E a \in answers : a.key = <<"ack", c>>) => EverSaved(c)

\* The uploads: the chunks they have counted and the one they are recording.
UploadsSaved ==
  \A u \in Uploads :
    /\ pc[u] = "record" => EverSaved(NextChunk(u))
    /\ \A i \in 1..sequence[u] : EverSaved(Content[u][i])

SavedInv == AgentsSaved /\ AcksSaved /\ UploadsSaved

LEMMA InitSaved == Init => SavedInv
  BY ConstantFacts DEF Init, AgentInit, SavedInv, AgentsSaved, AcksSaved, UploadsSaved

\* Only an upload's own steps change its pc, except that it may be lost, or
\* end at its first statement.
LEMMA OthersKeepUploads ==
  ASSUME TypeInv, [Next]_vars, NEW u \in Uploads,
         ~ ((UploadRefused(u) \/ UploadBegin(u) \/ UploadStep(u)) /\ UploadFrame)
  PROVE  /\ pc'[u] \in {pc[u], "lost"} \/ (pc[u] = "idle" /\ pc'[u] \in {"unavailable", "failed"})
         /\ UNCHANGED <<sequence[u], devices[u], tries[u]>>
<1>1. /\ pc \in [Handlers -> Phases] /\ sequence \in [Uploads -> Nat] /\ devices \in [Uploads -> Seq(Devices)]
      /\ tries \in [Uploads -> Nat]
  BY DEF TypeInv, RequestTypeOK
<1>2. ASSUME NEW v \in Uploads, (UploadRefused(v) \/ UploadBegin(v) \/ UploadStep(v)) /\ UploadFrame
      PROVE  pc'[u] = pc[u] /\ UNCHANGED <<sequence[u], devices[u], tries[u]>>
  <2>1. v # u
    BY <1>2
  <2>2. /\ \E s \in Phases : GoTo(v, s)
        /\ sequence' = sequence \/ sequence' = [sequence EXCEPT ![v] = @ + 1]
        /\ tries' = tries \/ \E n : tries' = [tries EXCEPT ![v] = n]
        /\ devices' = devices \/ \E o \in SetToSeqs(online) : devices' = [devices EXCEPT ![v] = o]
    BY <1>2 DEF UploadRefused, UploadBegin, UploadStep, UploadWrites, UploadActs, UploadChunk, UploadStore,
       UploadToDrive, UploadDeviceFails, UploadAck, UploadWoken, UploadAckTimeout, UploadRecord,
       UploadUnavailable, UploadCommit, UploadAnswer, TryNextDevice, uploadVars, Phases
  <2>3. QED
    BY <1>1, <2>1, <2>2, ConstantFacts DEF GoTo
<1>3. ASSUME NEW w \in Downloads, (DownloadRefused(w) \/ DownloadBegin(w) \/ DownloadStep(w)) /\ DownloadFrame
      PROVE  pc'[u] = pc[u] /\ UNCHANGED <<sequence[u], devices[u], tries[u]>>
  <2>1. pc' = pc \/ \E s \in Phases : GoTo(w, s)
    BY <1>3 DEF DownloadRefused, DownloadBegin, DownloadStep, DownloadActs, DownloadRows, DownloadRowsFail,
       DownloadLocate, DownloadRequest, DownloadDeviceFails, DownloadFromDrive, DownloadData, DownloadWoken,
       DownloadTimeout, DownloadExhausted, DownloadEnd, WriteChunk, Phases
  <2>2. w # u /\ u \in Handlers
    BY ConstantFacts
  <2>3. QED
    BY <1>1, <1>3, <2>1, <2>2 DEF GoTo, DownloadFrame, uploadVars
<1>4. ASSUME NEW x \in Deletes, (DeleteRefused(x) \/ DeleteBegin(x) \/ DeleteStep(x)) /\ DeleteFrame
      PROVE  pc'[u] = pc[u] /\ UNCHANGED <<sequence[u], devices[u], tries[u]>>
  <2>1. pc' = pc \/ \E s \in Phases : GoTo(x, s)
    BY <1>4 DEF DeleteRefused, DeleteBegin, DeleteStep, DeleteTargets, DeleteNotify, DeleteCollect,
       DeleteWrites, DeleteStatement, DeleteLast, DeleteAnswer, Phases
  <2>2. x # u /\ u \in Handlers
    BY ConstantFacts
  <2>3. QED
    BY <1>1, <1>4, <2>1, <2>2 DEF GoTo, DeleteFrame, uploadVars
<1>5. CASE ServerRestart
  BY <1>1, <1>5, ConstantFacts DEF ServerRestart, requestVars, uploadVars
<1>6. CASE (\E d \in Agents : AgentActs(d) \/ AgentFails(d)) \/ (\E d \in Devices : ComeOnline(d))
           \/ Quiet \/ UNCHANGED vars
  BY <1>6 DEF AgentActs, AgentFails, ComeOnline, Quiet, vars, requestVars, uploadVars
<1>7. ASSUME NEW h \in Handlers, BeginFails(h)
      PROVE  /\ pc'[u] = pc[u] \/ (pc[u] = "idle" /\ pc'[u] \in {"unavailable", "failed"})
             /\ UNCHANGED <<sequence[u], devices[u], tries[u]>>
  <2>1. /\ pc[h] = "idle" /\ pc' = [pc EXCEPT ![h] = pc'[h]] /\ UNCHANGED <<sequence, devices, tries>>
        /\ h \in Uploads => pc'[h] \in {"unavailable", "failed"}
    BY <1>7, BeginFailsIs DEF requestVars, uploadVars
  <2>2. QED
    BY <1>1, <2>1, ConstantFacts
<1>8. QED
  BY <1>2, <1>3, <1>4, <1>5, <1>6, <1>7 DEF Next, Begin, Received, Step

\* RelaySend adds its message, or nothing.
LEMMA SendAnswerAdds ==
  ASSUME NEW d, NEW key, NEW data, SendAnswer(d, key, data)
  PROVE  sentOn' = sentOn \cup {key} /\ \A a \in answers' : a \in answers \/ a.key = key
<1> DEFINE m == [key |-> key, data |-> data, from |-> d, by |-> task[d].by]
<1>1. sentOn' = sentOn \cup {key} /\ answers' \in {answers, answers \cup {m}}
  BY DEF SendAnswer
<1>2. m.key = key
  OBVIOUS
<1>3. QED
  BY <1>1, <1>2

\* Nothing that was saved is forgotten, and what is sent as an acknowledgement
\* is what an agent is about to acknowledge.
LEMMA SavedSteps ==
  ASSUME TypeInv, [Next]_vars
  PROVE  /\ saved \subseteq saved'
         /\ \A d \in Agents :
              \/ apc'[d] \notin {"saved", "reported"}
              \/ apc[d] \in {"saved", "reported"} /\ task'[d] = task[d]
              \/ task'[d] = task[d] /\ <<task[d].chunk, d>> \in saved'
         /\ \A c \in Chunks :
              \/ <<"ack", c>> \in sentOn' => <<"ack", c>> \in sentOn
              \/ \E d \in Agents : apc[d] = "reported" /\ task[d].chunk = c
         /\ \A a \in answers' :
              \/ a \in answers
              \/ \E d \in Agents : a.key = <<"ack", task[d].chunk>> /\ apc[d] = "reported"
              \/ a.key[1] = "chunk"
<1> DEFINE Goal ==
         /\ saved \subseteq saved'
         /\ \A d \in Agents :
              \/ apc'[d] \notin {"saved", "reported"}
              \/ apc[d] \in {"saved", "reported"} /\ task'[d] = task[d]
              \/ task'[d] = task[d] /\ <<task[d].chunk, d>> \in saved'
         /\ \A c \in Chunks :
              \/ <<"ack", c>> \in sentOn' => <<"ack", c>> \in sentOn
              \/ \E d \in Agents : apc[d] = "reported" /\ task[d].chunk = c
         /\ \A a \in answers' :
              \/ a \in answers
              \/ \E d \in Agents : a.key = <<"ack", task[d].chunk>> /\ apc[d] = "reported"
              \/ a.key[1] = "chunk"
<1>1. /\ apc \in [Agents -> {"polling", "handling", "saved", "reported"}]
      /\ task \in [Agents -> Commands \cup {NoTask}]
  BY DEF TypeInv, AgentTypeOK
<1>2. ASSUME UNCHANGED loopVars, saved \subseteq saved', sentOn' \subseteq sentOn, answers' \subseteq answers
      PROVE  Goal
  BY <1>2 DEF loopVars
<1>3. ASSUME NEW u \in Uploads, (UploadRefused(u) \/ UploadBegin(u) \/ UploadStep(u)) /\ UploadFrame
      PROVE  Goal
  <2>1. saved \subseteq saved' /\ sentOn' \subseteq sentOn /\ answers' \subseteq answers
    BY <1>3 DEF UploadRefused, UploadBegin, UploadStep, UploadWrites, UploadActs, UploadChunk, UploadStore,
       UploadToDrive, UploadDeviceFails, UploadAck, UploadWoken, UploadAckTimeout, UploadRecord,
       UploadUnavailable, UploadCommit, UploadAnswer, Inject, TakeAnswer, relayVars, diskVars
  <2>2. QED
    BY <1>2, <1>3, <2>1 DEF UploadFrame
<1>4. ASSUME NEW w \in Downloads, (DownloadRefused(w) \/ DownloadBegin(w) \/ DownloadStep(w)) /\ DownloadFrame
      PROVE  Goal
  <2>1. sentOn' \subseteq sentOn /\ answers' \subseteq answers
    BY <1>4 DEF DownloadRefused, DownloadBegin, DownloadStep, DownloadActs, DownloadRows, DownloadRowsFail,
       DownloadLocate, DownloadRequest, DownloadDeviceFails, DownloadFromDrive, DownloadData, DownloadWoken,
       DownloadTimeout, DownloadExhausted, DownloadEnd, Inject, TakeAnswer, relayVars
  <2>2. QED
    BY <1>2, <1>4, <2>1 DEF DownloadFrame, diskVars
<1>5. ASSUME NEW x \in Deletes, (DeleteRefused(x) \/ DeleteBegin(x) \/ DeleteStep(x)) /\ DeleteFrame
      PROVE  Goal
  <2>1. saved \subseteq saved' /\ sentOn' \subseteq sentOn /\ answers' \subseteq answers
    BY <1>5 DEF DeleteRefused, DeleteBegin, DeleteStep, DeleteTargets, DeleteNotify, DeleteCollect,
       DeleteWrites, DeleteStatement, DeleteLast, DeleteAnswer, Inject, relayVars, diskVars
  <2>2. QED
    BY <1>2, <1>5, <2>1 DEF DeleteFrame
<1>6. CASE \/ ServerRestart \/ (\E d \in Devices : ComeOnline(d)) \/ Quiet \/ UNCHANGED vars
           \/ \E h \in Handlers : BeginFails(h)
  BY <1>2, <1>6 DEF ServerRestart, ComeOnline, Quiet, BeginFails, vars, diskVars, loopVars, relayVars
<1>7. ASSUME NEW d \in Agents, AgentStep(d) \/ AgentRestart(d) PROVE Goal
  <2>1. ASSUME NEW s \in {"polling", "handling"}, apc' = [apc EXCEPT ![d] = s],
               \E m : task' = [task EXCEPT ![d] = m]
        PROVE  \A e \in Agents : \/ apc'[e] \notin {"saved", "reported"}
                                 \/ apc[e] \in {"saved", "reported"} /\ task'[e] = task[e]
    BY <1>1, <2>1
  <2>2. CASE Poll(d) \/ SaveChunkFails(d) \/ HandleDelete(d) \/ AgentRestart(d)
    <3>1. /\ \E s \in {"polling", "handling"} : apc' = [apc EXCEPT ![d] = s]
          /\ \E m : task' = [task EXCEPT ![d] = m]
          /\ UNCHANGED <<answers, sentOn, saved>>
      BY <2>2 DEF Poll, SaveChunkFails, HandleDelete, AgentRestart, relayVars, diskVars
    <3>2. QED
      BY <2>1, <3>1
  <2>3. CASE SaveChunk(d)
    <3>1. /\ apc' = [apc EXCEPT ![d] = "saved"] /\ saved' = saved \cup {<<task[d].chunk, d>>}
          /\ UNCHANGED <<answers, sentOn, task>>
      BY <2>3 DEF SaveChunk, relayVars
    <3>2. QED
      BY <1>1, <3>1
  <2>4. CASE ReportChunkLocation(d)
    <3>1. /\ apc[d] = "saved" /\ apc' = [apc EXCEPT ![d] = "reported"]
          /\ UNCHANGED <<answers, sentOn, saved, task>>
      BY <2>4 DEF ReportChunkLocation, relayVars, diskVars
    <3>2. QED
      BY <1>1, <3>1
  <2>5. CASE SendAck(d)
    <3>1. /\ apc[d] = "reported" /\ apc' = [apc EXCEPT ![d] = "polling"]
          /\ \E m : task' = [task EXCEPT ![d] = m]
          /\ saved' = saved /\ sentOn' = sentOn \cup {<<"ack", task[d].chunk>>}
          /\ \A a \in answers' : a \in answers \/ a.key = <<"ack", task[d].chunk>>
      BY <2>5, SendAnswerAdds DEF SendAck, diskVars
    <3>2. \A c \in Chunks : <<"ack", c>> \in sentOn' => <<"ack", c>> \in sentOn \/ c = task[d].chunk
      BY <3>1
    <3>3. QED
      BY <2>1, <3>1, <3>2
  <2>6. CASE HandleRetrieve(d)
    <3>1. /\ apc' = [apc EXCEPT ![d] = "polling"]
          /\ \E m : task' = [task EXCEPT ![d] = m]
          /\ saved' = saved /\ sentOn' \subseteq sentOn \cup {<<"chunk", task[d].chunk>>}
          /\ \A a \in answers' : a \in answers \/ a.key = <<"chunk", task[d].chunk>>
      BY <2>6, SendAnswerAdds DEF HandleRetrieve, relayVars, diskVars
    <3>2. \A a \in answers' : a \in answers \/ a.key[1] = "chunk"
      BY <3>1
    <3>3. \A c \in Chunks : <<"ack", c>> \in sentOn' => <<"ack", c>> \in sentOn
      <4>1. \A c \in Chunks : <<"ack", c>> # <<"chunk", task[d].chunk>>
        OBVIOUS
      <4>2. QED
        BY <3>1, <4>1
    <3>4. QED
      BY <2>1, <3>1, <3>2, <3>3
  <2>7. CASE SyncDeletion(d)
    BY <1>2, <2>7 DEF SyncDeletion, relayVars
  <2>8. QED
    BY <1>7, <2>2, <2>3, <2>4, <2>5, <2>6, <2>7 DEF AgentStep
<1>8. QED
  BY <1>3, <1>4, <1>5, <1>6, <1>7 DEF Next, Begin, Received, Step, AgentActs, AgentFails

LEMMA NextSaved == TypeInv /\ SavedInv /\ [Next]_vars => SavedInv'
<1> SUFFICES ASSUME TypeInv, SavedInv, [Next]_vars PROVE SavedInv'
  OBVIOUS
<1> DEFINE SavedNow(c) == \E d \in Devices : <<c, d>> \in saved'
<1>1. AgentsSaved /\ AcksSaved /\ UploadsSaved
  BY DEF SavedInv
<1>2. \A c : EverSaved(c) => SavedNow(c)
  BY SavedSteps DEF EverSaved
<1>3. AgentsSaved'
  <2>1. SUFFICES ASSUME NEW d \in Agents, apc'[d] \in {"saved", "reported"} PROVE SavedNow(task'[d].chunk)
    BY DEF AgentsSaved, EverSaved
  <2>2. d \in Devices
    BY ConstantFacts
  <2>3. CASE apc[d] \in {"saved", "reported"} /\ task'[d] = task[d]
    BY <1>1, <1>2, <2>3 DEF AgentsSaved, EverSaved
  <2>4. CASE task'[d] = task[d] /\ <<task[d].chunk, d>> \in saved'
    BY <2>2, <2>4 DEF EverSaved
  <2>5. QED
    BY <2>1, <2>3, <2>4, SavedSteps
<1>4. AcksSaved'
  <2>1. SUFFICES ASSUME NEW c \in Chunks,
                        <<"ack", c>> \in sentOn' \/ \E a \in answers' : a.key = <<"ack", c>>
                 PROVE  SavedNow(c)
    BY DEF AcksSaved, EverSaved
  <2>2. SUFFICES EverSaved(c)
    BY <1>2
  <2>3. \A d \in Agents : apc[d] = "reported" /\ task[d].chunk = c => EverSaved(c)
    BY <1>1 DEF AgentsSaved
  <2>4. CASE <<"ack", c>> \in sentOn'
    BY <1>1, <2>3, <2>4, SavedSteps DEF AcksSaved
  <2>5. ASSUME NEW a \in answers', a.key = <<"ack", c>> PROVE EverSaved(c)
    <3>1. a.key[1] # "chunk"
      BY <2>5
    <3>2. CASE a \in answers
      BY <1>1, <2>5, <3>2 DEF AcksSaved
    <3>3. ASSUME NEW d \in Agents, a.key = <<"ack", task[d].chunk>>, apc[d] = "reported"
          PROVE  EverSaved(c)
      <4>1. task[d].chunk = c
        BY <2>5, <3>3
      <4>2. QED
        BY <2>3, <3>3, <4>1
    <3>4. QED
      BY <3>1, <3>2, <3>3, SavedSteps
  <2>6. QED
    BY <2>1, <2>4, <2>5
<1>5. UploadsSaved'
  <2>1. SUFFICES ASSUME NEW u \in Uploads
                 PROVE  /\ pc'[u] = "record" => SavedNow(Content[u][sequence'[u] + 1])
                        /\ \A i \in 1..sequence'[u] : SavedNow(Content[u][i])
    BY DEF UploadsSaved, EverSaved, NextChunk
  <2>2. /\ pc \in [Handlers -> Phases] /\ sequence \in [Uploads -> Nat] /\ u \in Handlers
        /\ UploadAt
    BY ConstantFacts DEF TypeInv, RequestTypeOK
  <2>3. /\ pc[u] = "record" => SavedNow(NextChunk(u))
        /\ \A i \in 1..sequence[u] : SavedNow(Content[u][i])
    BY <1>1, <1>2 DEF UploadsSaved
  <2>4. ASSUME sequence'[u] = sequence[u], pc'[u] # "record" \/ pc[u] = "record" \/ SavedNow(NextChunk(u))
        PROVE  /\ pc'[u] = "record" => SavedNow(Content[u][sequence'[u] + 1])
               /\ \A i \in 1..sequence'[u] : SavedNow(Content[u][i])
    BY <2>3, <2>4 DEF NextChunk
  <2>5. CASE ~ ((UploadRefused(u) \/ UploadBegin(u) \/ UploadStep(u)) /\ UploadFrame)
    BY <2>4, <2>5, OthersKeepUploads
  <2>6. CASE UploadRefused(u) \/ UploadBegin(u) \/ UploadChunk(u) \/ UploadStore(u) \/ UploadDeviceFails(u)
             \/ UploadAckTimeout(u) \/ UploadUnavailable(u) \/ UploadCommit(u) \/ UploadAnswer(u)
    <3>1. sequence' = sequence /\ \E s \in Phases \ {"record"} : GoTo(u, s)
      BY <2>6 DEF UploadRefused, UploadBegin, UploadChunk, UploadStore, UploadDeviceFails, UploadAckTimeout,
         UploadUnavailable, UploadCommit, UploadAnswer, TryNextDevice, uploadVars, Phases
    <3>2. QED
      BY <2>2, <2>4, <3>1 DEF GoTo
  <2>7. CASE UploadToDrive(u)
    <3>1. sequence' = sequence /\ <<NextChunk(u), CurrentDevice(u)>> \in saved' /\ tries[u] < Len(devices[u])
      BY <2>7 DEF UploadToDrive, uploadVars
    <3>2. CurrentDevice(u) \in Devices
      <4>1. devices[u] \in Seq(Devices) /\ tries[u] \in Nat
        BY DEF TypeInv, RequestTypeOK
      <4>2. Len(devices[u]) # 0
        BY <3>1, <4>1
      <4>3. QED
        BY <4>2, UploadTurn
    <3>3. SavedNow(NextChunk(u))
      BY <3>1, <3>2 DEF EverSaved, NextChunk
    <3>4. QED
      BY <2>4, <3>1, <3>3
  <2>8. CASE UploadAck(u) \/ UploadWoken(u)
    <3>1. /\ sequence' = sequence /\ pc[u] = "ack"
          /\ \/ <<"ack", NextChunk(u)>> \in sentOn
             \/ \E a \in answers : a.key = <<"ack", NextChunk(u)>>
      BY <2>8 DEF UploadAck, UploadWoken, uploadVars
    <3>2. NextChunk(u) \in Chunks
      BY <2>2, <3>1, UploadTurn DEF UploadAt
    <3>3. SavedNow(NextChunk(u))
      BY <1>1, <1>2, <3>1, <3>2 DEF AcksSaved, NextChunk, EverSaved
    <3>4. QED
      BY <2>4, <3>1, <3>3
  <2>9. CASE UploadRecord(u)
    <3>1. pc[u] = "record" /\ GoTo(u, "chunk") /\ sequence' = [sequence EXCEPT ![u] = @ + 1]
      BY <2>9 DEF UploadRecord
    <3>2. pc'[u] = "chunk" /\ sequence'[u] = sequence[u] + 1 /\ sequence[u] \in Nat
      BY <2>2, <3>1 DEF GoTo
    <3>3. SavedNow(Content[u][sequence[u] + 1])
      BY <1>1, <1>2, <3>1 DEF UploadsSaved, NextChunk, EverSaved
    <3>4. \A i \in 1..sequence'[u] : i \in 1..sequence[u] \/ i = sequence[u] + 1
      BY <3>2
    <3>5. QED
      BY <2>3, <3>2, <3>3, <3>4
  <2>10. QED
    BY <2>5, <2>6, <2>7, <2>8, <2>9 DEF UploadStep, UploadWrites, UploadActs
<1>6. QED
  BY <1>3, <1>4, <1>5 DEF SavedInv

\* An upload that was answered 200 had every chunk saved on some device.
THEOREM AnsweredWasSaved == Spec => []CommittedWasSaved
<1>1. TypeInv /\ SavedInv => CommittedWasSaved
  BY ConstantFacts DEF TypeInv, UploadAt, SavedInv, UploadsSaved, EverSaved, CommittedWasSaved
<1>2. QED
  BY <1>1, InitType, NextType, InitSaved, NextSaved, PTL DEF Spec

-----------------------------------------------------------------------------
(***************************************************************************)
(* A deleted file cannot come back because only an upload that begins      *)
(* makes a row, and a delete begins when there is one: the commit of an    *)
(* upload that is overtaken by the delete updates no row.                  *)
(***************************************************************************)
NoRowYet == \A u \in Uploads : pc[u] = "idle" => files[u] = "absent"

DeletesOfBegun == \A x \in Deletes : pc[x] \notin {"idle", "notfound"} => pc[FileOf[x]] # "idle"

\* A delete that is to be answered 200 has no row, whoever stops it from there.
GoneAtAnswer == \A x \in Deletes : pc[x] \in {"answer", "ok"} => files[FileOf[x]] = "absent"

DeletedInv == NoRowYet /\ DeletesOfBegun /\ GoneAtAnswer

LEMMA InitDeleted == Init => DeletedInv
  BY ConstantFacts DEF Init, CatalogInit, DeletedInv, NoRowYet, DeletesOfBegun, GoneAtAnswer

\* A step of a request: it leaves idle, makes a row only as an upload that
\* begins, begins a delete only of a row, and ends one only without a row.
LEMMA DeletedSteps ==
  ASSUME TypeInv, [Next]_vars
  PROVE  /\ \A h \in Handlers : pc[h] # "idle" => pc'[h] # "idle"
         /\ \A f \in Files : files'[f] # "absent" /\ files[f] = "absent" => pc[f] = "idle" /\ pc'[f] # "idle"
         /\ \A x \in Deletes :
              /\ pc'[x] \notin {"idle", "notfound"} =>
                   pc[x] \notin {"idle", "notfound"} \/ files[FileOf[x]] # "absent"
              /\ pc'[x] \in {"answer", "ok"} => pc[x] \in {"answer", "ok"} \/ files'[FileOf[x]] = "absent"
<1> DEFINE Goal ==
         /\ \A h \in Handlers : pc[h] # "idle" => pc'[h] # "idle"
         /\ \A f \in Files : files'[f] # "absent" /\ files[f] = "absent" => pc[f] = "idle" /\ pc'[f] # "idle"
         /\ \A x \in Deletes :
              /\ pc'[x] \notin {"idle", "notfound"} =>
                   pc[x] \notin {"idle", "notfound"} \/ files[FileOf[x]] # "absent"
              /\ pc'[x] \in {"answer", "ok"} => pc[x] \in {"answer", "ok"} \/ files'[FileOf[x]] = "absent"
<1>1. pc \in [Handlers -> Phases] /\ files \in [Files -> {"absent", "open", "committed"}]
  BY DEF TypeInv, RequestTypeOK, CatalogTypeOK
<1>2. ASSUME NEW u \in Uploads, (UploadRefused(u) \/ UploadBegin(u) \/ UploadStep(u)) /\ UploadFrame
      PROVE  Goal
  <2>1. \E s \in Phases \ {"idle"} : GoTo(u, s)
    BY <1>2 DEF UploadRefused, UploadBegin, UploadStep, UploadWrites, UploadActs, UploadChunk, UploadStore,
       UploadToDrive, UploadDeviceFails, UploadAck, UploadWoken, UploadAckTimeout, UploadRecord,
       UploadUnavailable, UploadCommit, UploadAnswer, TryNextDevice, Phases
  <2>2. \/ files' = files
        \/ pc[u] = "idle" /\ files' = [files EXCEPT ![u] = "open"]
        \/ files' = [files EXCEPT ![u] = IF @ = "absent" THEN @ ELSE "committed"]
    BY <1>2 DEF UploadRefused, UploadBegin, UploadStep, UploadWrites, UploadActs, UploadChunk, UploadStore,
       UploadToDrive, UploadDeviceFails, UploadAck, UploadWoken, UploadAckTimeout, UploadRecord,
       UploadUnavailable, UploadCommit, UploadAnswer, Exec, catalogVars, InsertFile, SetSize, InsertChunk,
       InsertLocation
  <2>3. /\ u \in Files /\ u \in Handlers /\ u \notin Deletes
        /\ Files \subseteq Handlers /\ Deletes \subseteq Handlers
    BY ConstantFacts
  <2>4. pc'[u] # "idle" /\ \A h \in Handlers : h # u => pc'[h] = pc[h]
    BY <1>1, <2>1, <2>3 DEF GoTo
  <2>5. \A f \in Files : files'[f] # "absent" /\ files[f] = "absent" => f = u /\ pc[u] = "idle"
    BY <1>1, <2>2, <2>3
  <2>6. QED
    BY <2>3, <2>4, <2>5
<1>3. ASSUME NEW w \in Downloads, (DownloadRefused(w) \/ DownloadBegin(w) \/ DownloadStep(w)) /\ DownloadFrame
      PROVE  Goal
  <2>1. pc' = pc \/ \E s \in Phases \ {"idle"} : GoTo(w, s)
    BY <1>3 DEF DownloadRefused, DownloadBegin, DownloadStep, DownloadActs, DownloadRows, DownloadRowsFail,
       DownloadLocate, DownloadRequest, DownloadDeviceFails, DownloadFromDrive, DownloadData, DownloadWoken,
       DownloadTimeout, DownloadExhausted, DownloadEnd, WriteChunk, Phases
  <2>2. w \in Handlers /\ w \notin Deletes /\ Deletes \subseteq Handlers
    BY ConstantFacts
  <2>3. files' = files
    BY <1>3 DEF DownloadFrame, catalogVars
  <2>4. \A h \in Handlers : (h # w => pc'[h] = pc[h]) /\ (pc[h] # "idle" => pc'[h] # "idle")
    BY <1>1, <2>1, <2>2 DEF GoTo
  <2>5. QED
    BY <2>2, <2>3, <2>4
<1>4. ASSUME NEW x \in Deletes, (DeleteRefused(x) \/ DeleteBegin(x) \/ DeleteStep(x)) /\ DeleteFrame
      PROVE  Goal
  <2>1. x \in Handlers /\ Deletes \subseteq Handlers /\ FileOf[x] \in Files
    BY ConstantFacts
  <2>2. ASSUME NEW s \in Phases \ {"idle"}, pc' = pc \/ GoTo(x, s), files' = files,
               pc' = pc \/ s = "notfound" \/ files[FileOf[x]] # "absent" \/ pc[x] \notin {"idle", "notfound"},
               s \notin {"answer", "ok"} \/ pc[x] = "answer"
        PROVE  Goal
    <3>1. \A h \in Handlers : (h # x => pc'[h] = pc[h]) /\ (pc[h] # "idle" => pc'[h] # "idle")
      BY <1>1, <2>1, <2>2 DEF GoTo
    <3>2. pc' = pc \/ pc'[x] = s
      BY <1>1, <2>1, <2>2 DEF GoTo
    <3>3. QED
      BY <2>1, <2>2, <3>1, <3>2
  <2>3. {"notfound", "targets", "notify", "deletion", "locations", "chunks", "file", "answer", "failed", "ok"}
          \subseteq Phases \ {"idle"}
    BY DEF Phases
  <2>4. CASE DeleteRefused(x)
    <3>1. GoTo(x, "notfound") /\ files' = files
      BY <2>4 DEF DeleteRefused, catalogVars
    <3>2. QED
      BY <2>2, <2>3, <3>1
  <2>5. CASE DeleteBegin(x)
    <3>1. GoTo(x, "targets") /\ files' = files /\ files[FileOf[x]] # "absent"
      BY <2>5 DEF DeleteBegin, catalogVars
    <3>2. QED
      BY <2>2, <2>3, <3>1
  <2>6. CASE DeleteTargets(x) \/ DeleteNotify(x) \/ DeleteCollect(x) \/ DeleteAnswer(x)
    <3>1. /\ pc' = pc \/ GoTo(x, "notify") \/ GoTo(x, "deletion") \/ (pc[x] = "answer" /\ GoTo(x, "ok"))
          /\ files' = files /\ pc[x] \notin {"idle", "notfound"}
      BY <2>6 DEF DeleteTargets, DeleteNotify, DeleteCollect, DeleteAnswer, catalogVars
    <3>2. QED
      BY <2>2, <2>3, <3>1
  <2>7. CASE DeleteWrites(x) \/ DeleteLast(x)
    <3>1. CASE pc[x] \in {"deletion", "locations", "chunks", "file"} /\ files' = files
               /\ \E s \in {"locations", "chunks", "file", "failed"} : GoTo(x, s)
      BY <2>2, <2>3, <3>1
    <3>2. CASE pc[x] = "file" /\ GoTo(x, "answer") /\ files' = [files EXCEPT ![FileOf[x]] = "absent"]
      <4>1. /\ files'[FileOf[x]] = "absent"
            /\ \A f \in Files : files'[f] = files[f] \/ files'[f] = "absent"
        BY <1>1, <2>1, <3>2
      <4>2. pc'[x] = "answer" /\ \A h \in Handlers : h # x => pc'[h] = pc[h]
        BY <1>1, <2>1, <3>2 DEF GoTo
      <4>3. QED
        BY <2>1, <3>2, <4>1, <4>2
    <3>3. QED
      BY <2>7, <3>1, <3>2 DEF DeleteWrites, DeleteStatement, DeleteLast, Exec, catalogVars, InsertDeletion,
         DeleteLocationsOf, DeleteChunksOf, DeleteFileRow
  <2>8. QED
    BY <1>4, <2>4, <2>5, <2>6, <2>7 DEF DeleteStep
<1>5. CASE ServerRestart
  <2>1. /\ pc' = [h \in Handlers |-> IF pc[h] \in Final \cup {"idle"} THEN pc[h] ELSE "lost"]
        /\ files' = files
    BY <1>5 DEF ServerRestart, catalogVars
  <2>2. \A h \in Handlers : pc'[h] = pc[h] \/ (pc[h] \notin Final \cup {"idle"} /\ pc'[h] = "lost")
    BY <2>1, Zenon
  <2>3. Deletes \subseteq Handlers /\ "notfound" \in Final
    BY ConstantFacts DEF Final
  <2>4. QED
    BY <2>1, <2>2, <2>3
<1>6. CASE (\E d \in Devices : ComeOnline(d)) \/ Quiet \/ UNCHANGED vars
           \/ \E d \in Agents : (AgentStep(d) \/ AgentRestart(d)) /\ UNCHANGED pc
  <2>1. pc' = pc /\ files' = files
    BY <1>6 DEF ComeOnline, Quiet, vars, catalogVars, AgentStep, AgentRestart, Poll, SaveChunk, SaveChunkFails,
       ReportChunkLocation, InsertLocation, SendAck, HandleRetrieve, HandleDelete, SyncDeletion
  <2>2. QED
    BY <2>1
<1>7. ASSUME NEW h \in Handlers, BeginFails(h) PROVE Goal
  <2>1. /\ pc[h] = "idle" /\ pc' = [pc EXCEPT ![h] = pc'[h]] /\ files' = files
        /\ pc'[h] \in {"unavailable", "failed", "notfound"}
        /\ h \in Deletes => pc'[h] = "notfound"
    BY <1>7, BeginFailsIs DEF catalogVars
  <2>2. \A k \in Handlers : k # h => pc'[k] = pc[k]
    BY <1>1, <2>1
  <2>3. QED
    BY <2>1, <2>2, ConstantFacts
<1>8. QED
  BY <1>2, <1>3, <1>4, <1>5, <1>6, <1>7 DEF Next, Begin, Received, Step, AgentActs, AgentFails

LEMMA NextDeleted == TypeInv /\ DeletedInv /\ [Next]_vars => DeletedInv'
<1> SUFFICES ASSUME TypeInv, DeletedInv, [Next]_vars PROVE DeletedInv'
  OBVIOUS
<1>1. NoRowYet /\ DeletesOfBegun /\ GoneAtAnswer
  BY DEF DeletedInv
<1>2. /\ Uploads = Files /\ Files \subseteq Handlers /\ Deletes \subseteq Handlers
      /\ \A x \in Deletes : FileOf[x] \in Files
  BY ConstantFacts
<1>3. NoRowYet'
  BY <1>1, <1>2, DeletedSteps DEF NoRowYet
<1>4. DeletesOfBegun'
  <2>1. \A x \in Deletes : pc'[x] \notin {"idle", "notfound"} => pc[FileOf[x]] # "idle"
    BY <1>1, <1>2, DeletedSteps DEF NoRowYet, DeletesOfBegun
  <2>2. QED
    BY <1>2, <2>1, DeletedSteps DEF DeletesOfBegun
<1>5. GoneAtAnswer'
  <2>1. SUFFICES ASSUME NEW x \in Deletes, pc'[x] \in {"answer", "ok"} PROVE files'[FileOf[x]] = "absent"
    BY DEF GoneAtAnswer
  <2>2. CASE pc[x] \in {"answer", "ok"}
    <3>1. files[FileOf[x]] = "absent" /\ pc[FileOf[x]] # "idle" /\ FileOf[x] \in Files
      BY <1>1, <1>2, <2>2 DEF DeletesOfBegun, GoneAtAnswer
    <3>2. QED
      BY <3>1, DeletedSteps
  <2>3. QED
    BY <2>1, <2>2, DeletedSteps
<1>6. QED
  BY <1>3, <1>4, <1>5 DEF DeletedInv

\* A file whose delete was answered 200 is never seen again.
THEOREM DeletedForGood == Spec => []DeletedStaysDeleted
<1>1. DeletedInv => DeletedStaysDeleted
  BY DEF DeletedInv, GoneAtAnswer, DeletedStaysDeleted
<1>2. QED
  BY <1>1, InitType, NextType, InitDeleted, NextDeleted, PTL DEF Spec

-----------------------------------------------------------------------------
(***************************************************************************)
(* The rows of a file that repeats no chunk, its own or another file's,    *)
(* say where its contents belong until a delete of it begins, whatever     *)
(* the other files share and whatever statements of others the database    *)
(* refused.  A refused statement of the upload itself leaves a file that   *)
(* was answered 200 without rows, and the run fs_repeat shows what happens *)
(* to a file that is not private.                                          *)
(***************************************************************************)
Private ==
  {f \in Files : \A g \in Files : \A i \in 1..Len(Content[f]), j \in 1..Len(Content[g]) :
     Content[f][i] = Content[g][j] => f = g /\ i = j}

\* The row of a file's chunk number i, if it has one.
HasRow(f, i) == chunks[Content[f][i]] = [file |-> f, sequence |-> i - 1]

RowsInPlace ==
  \A f \in Private : \A i \in 1..Len(Content[f]) : chunks[Content[f][i]] = NoRow \/ HasRow(f, i)

\* The chunks an upload has counted have rows, and so has the one it offers, if
\* no statement of it was refused.
RowsOfUploads ==
  \A u \in Private : Undeleted(u) /\ u \notin refused =>
    /\ \A i \in 1..sequence[u] : HasRow(u, i)
    /\ pc[u] \in {"device", "ack", "record"} => HasRow(u, sequence[u] + 1)

CommittedAtEnd == \A f \in Files : files[f] = "committed" => sequence[f] = Len(Content[f])

PrivateIsComplete == \A f \in Private : Complete(f)

RowsInv == RowsInPlace /\ RowsOfUploads /\ CommittedAtEnd

LEMMA InitRows == Init => RowsInv
<1> SUFFICES ASSUME Init PROVE RowsInv
  OBVIOUS
<1>1. /\ Uploads = Files /\ \A f \in Files : Content[f] \in Seq(Chunks) /\ f \in Handlers
      /\ Private \subseteq Files
  BY ConstantFacts DEF Private
<1>2. \A f \in Files : \A i \in 1..Len(Content[f]) : chunks[Content[f][i]] = NoRow
  <2>1. chunks = [c \in Chunks |-> NoRow]
    BY DEF Init, CatalogInit
  <2>2. \A f \in Files : \A i \in 1..Len(Content[f]) : Content[f][i] \in Chunks
    BY <1>1
  <2>3. QED
    BY <2>1, <2>2
<1>3. \A f \in Files : sequence[f] = 0 /\ pc[f] = "idle" /\ files[f] = "absent"
  BY <1>1 DEF Init, CatalogInit, Uploads
<1>4. RowsInPlace
  BY <1>1, <1>2 DEF RowsInPlace
<1>5. RowsOfUploads
  BY <1>1, <1>3 DEF RowsOfUploads
<1>6. CommittedAtEnd
  BY <1>3 DEF CommittedAtEnd
<1>7. QED
  BY <1>4, <1>5, <1>6 DEF RowsInv

\* Only an upload's next chunk gets a row, only a delete that has begun takes
\* one away, and only a commit commits.
LEMMA RowsSteps ==
  ASSUME TypeInv, [Next]_vars
  PROVE  /\ \/ chunks' = chunks
            \/ \E u \in Uploads : UploadChunk(u)
            \/ \E x \in Deletes : pc[x] # "idle" /\ DeleteChunksOf(FileOf[x])
         /\ \A f \in Files : files'[f] = "committed" => files[f] = "committed" \/ UploadCommit(f)
<1>1. files \in [Files -> {"absent", "open", "committed"}]
  BY DEF TypeInv, CatalogTypeOK
<1>2. ASSUME NEW u \in Uploads, UploadRefused(u) \/ UploadBegin(u) \/ UploadStep(u)
      PROVE  /\ chunks' = chunks \/ UploadChunk(u)
             /\ \A f \in Files : files'[f] = "committed" => files[f] = "committed" \/ UploadCommit(f)
  <2>1. CASE UploadBegin(u)
    BY <1>1, <2>1 DEF UploadBegin, InsertFile
  <2>2. CASE UploadCommit(u)
    BY <1>1, <2>2 DEF UploadCommit, Exec, SetSize, catalogVars
  <2>3. CASE UploadChunk(u) \/ UploadRecord(u)
    BY <2>3 DEF UploadChunk, UploadRecord, Exec, InsertChunk, InsertLocation, catalogVars
  <2>4. CASE UploadRefused(u) \/ UploadActs(u)
    BY <2>4 DEF UploadRefused, UploadActs, UploadStore, UploadToDrive, UploadDeviceFails, UploadAck,
       UploadWoken, UploadAckTimeout, UploadUnavailable, UploadAnswer, catalogVars
  <2>5. QED
    BY <1>2, <2>1, <2>2, <2>3, <2>4 DEF UploadStep, UploadWrites
<1>3. ASSUME NEW x \in Deletes, DeleteRefused(x) \/ DeleteBegin(x) \/ DeleteStep(x)
      PROVE  /\ chunks' = chunks \/ (pc[x] # "idle" /\ DeleteChunksOf(FileOf[x]))
             /\ \A f \in Files : files'[f] = "committed" => files[f] = "committed"
  <2>1. CASE \/ DeleteRefused(x) \/ DeleteBegin(x) \/ DeleteTargets(x) \/ DeleteNotify(x)
             \/ DeleteCollect(x) \/ DeleteAnswer(x)
    BY <2>1 DEF DeleteRefused, DeleteBegin, DeleteTargets, DeleteNotify, DeleteCollect, DeleteAnswer, catalogVars
  <2>2. CASE DeleteWrites(x) \/ DeleteLast(x)
    BY <1>1, <2>2 DEF DeleteWrites, DeleteStatement, DeleteLast, Exec, InsertDeletion, DeleteLocationsOf,
       DeleteChunksOf, DeleteFileRow, catalogVars
  <2>3. QED
    BY <1>3, <2>1, <2>2 DEF DeleteStep
<1>4. CASE (\E w \in Downloads : DownloadFrame) \/ ServerRestart \/ (\E d \in Devices : ComeOnline(d))
           \/ Quiet \/ UNCHANGED vars \/ (\E d \in Agents : AgentStep(d) \/ AgentRestart(d))
           \/ \E h \in Handlers : BeginFails(h)
  BY <1>4 DEF DownloadFrame, ServerRestart, ComeOnline, BeginFails, Quiet, vars, catalogVars, AgentStep, AgentRestart, Poll,
     SaveChunk, SaveChunkFails, ReportChunkLocation, InsertLocation, SendAck, HandleRetrieve, HandleDelete,
     SyncDeletion
<1>5. QED
  BY <1>2, <1>3, <1>4 DEF Next, Begin, Received, Step, AgentActs, AgentFails

\* A refused statement stays refused.
LEMMA RefusedGrows == ASSUME TypeInv, [Next]_vars PROVE refused \subseteq refused'
<1>1. ASSUME NEW h \in Handlers, Begin(h) \/ Step(h) PROVE refused \subseteq refused'
  BY <1>1, StepsTurnFaults, FaultsTurn
<1>2. CASE \/ \E d \in Agents : AgentActs(d) \/ AgentFails(d)
           \/ ServerRestart \/ Quiet \/ UNCHANGED vars \/ \E d \in Devices : ComeOnline(d)
  BY <1>2 DEF AgentActs, AgentFails, ServerRestart, Quiet, ComeOnline, vars, faultVars
<1>3. QED
  BY <1>1, <1>2 DEF Next

\* A delete that has begun never becomes one that has not.
LEMMA UndeletedBefore ==
  ASSUME TypeInv, [Next]_vars, NEW f, Undeleted(f)'
  PROVE  Undeleted(f)
  BY DeletedSteps, ConstantFacts DEF Undeleted

LEMMA NextRows ==
  ASSUME TypeInv, RowsInv, [Next]_vars
  PROVE  RowsInv'
<1> DEFINE RowNow(f, i) == chunks'[Content[f][i]] = [file |-> f, sequence |-> i - 1]
<1>1. RowsInPlace /\ RowsOfUploads /\ CommittedAtEnd
  BY DEF RowsInv
<1>2. /\ Uploads = Files /\ \A f \in Files : Content[f] \in Seq(Chunks)
      /\ Private \subseteq Files
      /\ sequence \in [Uploads -> Nat] /\ pc \in [Handlers -> Phases] /\ Uploads \subseteq Handlers
      /\ UploadAt
      /\ chunks \in [Chunks -> Rows \cup {NoRow}]
  BY ConstantFacts DEF TypeInv, RequestTypeOK, CatalogTypeOK, Private
<1>3. ASSUME NEW f \in Private, NEW i \in 1..Len(Content[f])
      PROVE  /\ Undeleted(f)' /\ HasRow(f, i) => RowNow(f, i)
             /\ chunks'[Content[f][i]] = NoRow \/ RowNow(f, i)
  <2>1. CASE chunks' = chunks
    BY <1>1, <2>1 DEF RowsInPlace, HasRow
  <2>2. ASSUME NEW u \in Uploads, UploadChunk(u)
        PROVE  /\ HasRow(f, i) => RowNow(f, i)
               /\ chunks'[Content[f][i]] = NoRow \/ RowNow(f, i)
    <3>0. chunks' = chunks \/ InsertChunk(NextChunk(u), u, sequence[u])
      BY <2>2, UploadChunkIs DEF catalogVars
    <3>1. SUFFICES ASSUME sequence[u] < Len(Content[u]),
                          chunks' = [chunks EXCEPT ![NextChunk(u)] =
                            IF @ = NoRow THEN [file |-> u, sequence |-> sequence[u]] ELSE @]
                   PROVE  /\ HasRow(f, i) => RowNow(f, i)
                          /\ chunks'[Content[f][i]] = NoRow \/ RowNow(f, i)
      BY <1>1, <2>2, <3>0, UploadChunkIs DEF InsertChunk, RowsInPlace, HasRow
    <3>2. Content[f][i] \in Chunks /\ i \in Nat /\ sequence[u] \in Nat
      BY <1>2
    <3>3. CASE Content[f][i] = NextChunk(u)
      <4>1. sequence[u] + 1 \in 1..Len(Content[u])
        BY <1>2, <3>1
      <4>2. f = u /\ i = sequence[u] + 1
        BY <1>2, <3>3, <4>1 DEF NextChunk, Private
      <4>3. i - 1 = sequence[u]
        BY <3>2, <4>2
      <4>4. chunks'[Content[f][i]] = IF chunks[Content[f][i]] = NoRow
                                       THEN [file |-> f, sequence |-> i - 1] ELSE chunks[Content[f][i]]
        BY <1>2, <3>1, <3>2, <3>3, <4>2, <4>3
      <4>5. QED
        BY <1>1, <4>4 DEF RowsInPlace, HasRow
    <3>4. CASE Content[f][i] # NextChunk(u)
      <4>1. chunks'[Content[f][i]] = chunks[Content[f][i]]
        BY <1>2, <3>1, <3>2, <3>4
      <4>2. QED
        BY <1>1, <4>1 DEF RowsInPlace, HasRow
    <3>5. QED
      BY <3>3, <3>4
  <2>3. ASSUME NEW x \in Deletes, pc[x] # "idle", DeleteChunksOf(FileOf[x])
        PROVE  /\ Undeleted(f)' /\ HasRow(f, i) => RowNow(f, i)
               /\ chunks'[Content[f][i]] = NoRow \/ RowNow(f, i)
    <3>1. Content[f][i] \in Chunks
      BY <1>2
    <3>2. chunks'[Content[f][i]] = IF Content[f][i] \in ChunksOf(FileOf[x]) THEN NoRow ELSE chunks[Content[f][i]]
      BY <2>3, <3>1 DEF DeleteChunksOf
    <3>3. Undeleted(f)' => FileOf[x] # f
      BY <2>3, UndeletedBefore DEF Undeleted
    <3>4. HasRow(f, i) /\ FileOf[x] # f => Content[f][i] \notin ChunksOf(FileOf[x])
      BY DEF HasRow, ChunksOf
    <3>5. QED
      BY <1>1, <3>2, <3>3, <3>4 DEF RowsInPlace, HasRow
  <2>4. QED
    BY <2>1, <2>2, <2>3, RowsSteps
<1>4. RowsInPlace'
  BY <1>3 DEF RowsInPlace, HasRow
<1>5. ASSUME NEW u \in Private
      PROVE  Undeleted(u)' /\ u \notin refused' =>
               /\ \A i \in 1..sequence'[u] : RowNow(u, i)
               /\ pc'[u] \in {"device", "ack", "record"} => RowNow(u, sequence'[u] + 1)
  <2>1. /\ sequence[u] \in Nat /\ sequence[u] <= Len(Content[u]) /\ Len(Content[u]) \in Nat
        /\ pc[u] \in {"device", "ack", "record"} => sequence[u] < Len(Content[u])
    BY <1>2 DEF UploadAt
  <2> DEFINE Kept == Undeleted(u)' /\ u \notin refused'
  <2>2. Kept => \A i \in 1..sequence[u] : RowNow(u, i)
    <3>0. SUFFICES ASSUME Kept PROVE \A i \in 1..sequence[u] : RowNow(u, i)
      OBVIOUS
    <3>1. \A i \in 1..sequence[u] : i \in 1..Len(Content[u]) /\ HasRow(u, i)
      BY <1>1, <2>1, <3>0, UndeletedBefore, RefusedGrows DEF RowsOfUploads
    <3>2. QED
      BY <1>2, <1>3, <3>0, <3>1
  <2>3. Kept /\ pc[u] \in {"device", "ack", "record"} => RowNow(u, sequence[u] + 1)
    <3>1. SUFFICES ASSUME Kept, pc[u] \in {"device", "ack", "record"} PROVE RowNow(u, sequence[u] + 1)
      OBVIOUS
    <3>2. sequence[u] + 1 \in 1..Len(Content[u])
      BY <2>1, <3>1
    <3>3. HasRow(u, sequence[u] + 1)
      BY <1>1, <3>1, UndeletedBefore, RefusedGrows DEF RowsOfUploads
    <3>4. QED
      BY <1>2, <1>3, <3>1, <3>2, <3>3
  <2>4. ASSUME sequence'[u] = sequence[u],
               \/ pc'[u] \notin {"device", "ack", "record"} \/ pc[u] \in {"device", "ack", "record"}
               \/ RowNow(u, sequence[u] + 1)
        PROVE  /\ Kept => \A i \in 1..sequence'[u] : RowNow(u, i)
               /\ Kept /\ pc'[u] \in {"device", "ack", "record"} => RowNow(u, sequence'[u] + 1)
    BY <2>2, <2>3, <2>4
  <2>5. CASE ~ ((UploadRefused(u) \/ UploadBegin(u) \/ UploadStep(u)) /\ UploadFrame)
    BY <1>2, <2>4, <2>5, OthersKeepUploads
  <2>6. CASE UploadRefused(u) \/ UploadBegin(u) \/ UploadUnavailable(u) \/ UploadCommit(u) \/ UploadAnswer(u)
    <3>1. sequence' = sequence /\ \E s \in Phases \ {"device", "ack", "record"} : GoTo(u, s)
      BY <2>6 DEF UploadRefused, UploadBegin, UploadUnavailable, UploadCommit, UploadAnswer, uploadVars, Phases
    <3>2. QED
      BY <1>2, <2>4, <3>1 DEF GoTo
  <2>7. CASE UploadStore(u) \/ UploadToDrive(u) \/ UploadDeviceFails(u) \/ UploadAck(u) \/ UploadWoken(u)
             \/ UploadAckTimeout(u)
    <3>1. sequence' = sequence /\ pc[u] \in {"device", "ack", "record"}
      BY <2>7 DEF UploadStore, UploadToDrive, UploadDeviceFails, UploadAck, UploadWoken, UploadAckTimeout,
         uploadVars
    <3>2. QED
      BY <2>4, <3>1
  <2>8. CASE UploadChunk(u)
    <3>0. CASE u \in refused'
      BY <2>2, <2>8, <3>0, UploadChunkIs
    <3>1. SUFFICES ASSUME sequence' = sequence, sequence[u] < Len(Content[u]),
                          chunks' = [chunks EXCEPT ![NextChunk(u)] =
                            IF @ = NoRow THEN [file |-> u, sequence |-> sequence[u]] ELSE @]
                   PROVE  /\ Kept => \A i \in 1..sequence'[u] : RowNow(u, i)
                          /\ Kept /\ pc'[u] \in {"device", "ack", "record"} => RowNow(u, sequence'[u] + 1)
      BY <2>8, <3>0, UploadChunkIs DEF InsertChunk
    <3>2. /\ sequence[u] + 1 \in 1..Len(Content[u]) /\ (sequence[u] + 1) - 1 = sequence[u]
          /\ NextChunk(u) = Content[u][sequence[u] + 1] /\ NextChunk(u) \in Chunks
      BY <1>2, <2>1, <3>1 DEF NextChunk
    <3>3. chunks'[NextChunk(u)] = IF chunks[NextChunk(u)] = NoRow
                                    THEN [file |-> u, sequence |-> sequence[u]] ELSE chunks[NextChunk(u)]
      BY <1>2, <3>1, <3>2
    <3>4. chunks[NextChunk(u)] \in {NoRow, [file |-> u, sequence |-> sequence[u]]}
      BY <1>1, <1>2, <3>2 DEF RowsInPlace, HasRow
    <3>5. RowNow(u, sequence[u] + 1)
      BY <3>2, <3>3, <3>4
    <3>6. QED
      BY <2>4, <3>1, <3>5
  <2>9. CASE UploadRecord(u)
    <3>1. pc[u] = "record" /\ GoTo(u, "chunk") /\ sequence' = [sequence EXCEPT ![u] = @ + 1]
      BY <2>9 DEF UploadRecord
    <3>2. pc'[u] = "chunk" /\ sequence'[u] = sequence[u] + 1
      BY <1>2, <3>1 DEF GoTo
    <3>3. \A i \in 1..sequence'[u] : i \in 1..sequence[u] \/ i = sequence[u] + 1
      BY <2>1, <3>2
    <3>4. QED
      BY <2>2, <2>3, <3>1, <3>2, <3>3
  <2>10. QED
    BY <2>5, <2>6, <2>7, <2>8, <2>9 DEF UploadStep, UploadWrites, UploadActs
<1>6. RowsOfUploads'
  BY <1>5 DEF RowsOfUploads, HasRow
<1>7. CommittedAtEnd'
  <2>1. SUFFICES ASSUME NEW f \in Files, files'[f] = "committed" PROVE sequence'[f] = Len(Content[f])
    BY DEF CommittedAtEnd
  <2>2. files[f] = "committed" \/ UploadCommit(f)
    BY <2>1, RowsSteps
  <2>3. sequence[f] = Len(Content[f])
    BY <1>1, <2>2 DEF CommittedAtEnd, UploadCommit
  <2>4. ASSUME NEW u \in Uploads PROVE sequence[u] = Len(Content[u]) => sequence'[u] = sequence[u]
    <3>1. pc[u] \in {"device", "ack", "record"} => sequence[u] < Len(Content[u])
      BY <1>2, <2>4 DEF UploadAt
    <3>2. CASE ~ ((UploadRefused(u) \/ UploadBegin(u) \/ UploadStep(u)) /\ UploadFrame)
      BY <3>2, OthersKeepUploads
    <3>3. CASE UploadRefused(u) \/ UploadBegin(u) \/ UploadStep(u)
      <4>1. sequence' = sequence \/ pc[u] = "record"
        BY <3>3 DEF UploadRefused, UploadBegin, UploadStep, UploadWrites, UploadActs, UploadChunk,
           UploadStore, UploadToDrive, UploadDeviceFails, UploadAck, UploadWoken, UploadAckTimeout,
           UploadRecord, UploadUnavailable, UploadCommit, UploadAnswer, uploadVars
      <4>2. QED
        BY <1>2, <3>1, <4>1
    <3>4. QED
      BY <3>2, <3>3
  <2>5. QED
    BY <1>2, <2>3, <2>4
<1>8. QED
  BY <1>4, <1>6, <1>7 DEF RowsInv

\* A private file with a size has a row for each of its chunks, in its place,
\* until a delete of it begins, whatever the other files share, unless the
\* database refused a statement of its upload, which upload.go:84-88 hides.
THEOREM PrivateFilesHaveTheirRows == Spec => []PrivateIsComplete
<1>1. RowsInv => PrivateIsComplete
  <2>1. SUFFICES ASSUME RowsInv, NEW f \in Private, files[f] = "committed", Undeleted(f),
                        f \notin refused,
                        NEW i \in 1..Len(Content[f])
                 PROVE  HasRow(f, i)
    BY DEF PrivateIsComplete, Complete, HasRow, Private
  <2>2. f \in Files /\ sequence[f] = Len(Content[f])
    BY <2>1 DEF RowsInv, CommittedAtEnd, Private
  <2>3. QED
    BY <2>1, <2>2 DEF RowsInv, RowsOfUploads
<1>2. QED
  BY <1>1, InitType, NextType, InitRows, NextRows, PTL DEF Spec

\* If no two chunks are the same, that is so for every file.
THEOREM CommittedHasItsRows ==
  ASSUME Private = Files
  PROVE  Spec => []CommittedIsComplete
<1>1. PrivateIsComplete => CommittedIsComplete
  BY DEF PrivateIsComplete, CommittedIsComplete
<1>2. QED
  BY <1>1, PrivateFilesHaveTheirRows, PTL

-----------------------------------------------------------------------------
(***************************************************************************)
(* What a download writes.  Its rows come in the order of the file, so     *)
(* that at any moment it is past some of the file's chunks, and either     *)
(* has written all of these whole, or less than they have.                 *)
(***************************************************************************)

\* v is the sum of the first n of the numbers l.
SumIs(l, n, v) == \E g : AddsUp(g, l, 1..n) /\ v = g[1..n]

LEMMA SumOfNone == ASSUME NEW l, NEW v, SumIs(l, 0, v) PROVE v = 0
<1>1. 1..0 = {}
  OBVIOUS
<1> QED BY <1>1 DEF SumIs, AddsUp, Sums

LEMMA SumOfNext ==
  ASSUME NEW n \in Nat, NEW l, NEW k, \A i \in 1..n : k[i] = l[i],
         NEW v, SumIs(k, n, v), NEW w, SumIs(l, n + 1, w)
  PROVE  w = v + l[n + 1] /\ v \in Nat /\ l[n + 1] \in Nat
<1> DEFINE C == 1..n
           D == 1..(n + 1)
           e == n + 1
<1>1. PICK h : AddsUp(h, k, C) /\ v = h[C]
  BY DEF SumIs
<1>2. PICK g : AddsUp(g, l, D) /\ w = g[D]
  BY DEF SumIs
<1>3. e \in D /\ C = D \ {e}
  <2>1. \A i : i \in D <=> i \in C \/ i = e
    OBVIOUS
  <2>2. e \notin C
    OBVIOUS
  <2> HIDE DEF C, D
  <2> QED BY <2>1, <2>2
<1>4. \A i \in C : k[i] = l[i]
  OBVIOUS
<1> HIDE DEF C, D, e
<1>5. g[D] = l[e] + h[C] /\ h[C] \in Nat /\ l[e] \in Nat
  BY <1>1, <1>2, <1>3, <1>4, SumsNext
<1> QED BY <1>1, <1>2, <1>5 DEF e

\* What CHOOSE takes for the fold is such a sum.
LEMMA SumsChosen ==
  ASSUME NEW n \in Nat, NEW l \in [1..n -> Nat]
  PROVE  LET h == CHOOSE g : Sums(g, l, 1..n) IN SumIs(l, n, h[1..n])
<1> DEFINE h == CHOOSE g : Sums(g, l, 1..n)
<1>1. IsFiniteSet(1..n)
  BY FS_Interval
<1>2. PICK g \in [SUBSET (1..n) -> Nat] : Sums(g, l, 1..n)
  BY <1>1, SumsExist
<1>3. Sums(h, l, 1..n)
  BY <1>2
<1>4. h \in [SUBSET (1..n) -> Nat]
  BY <1>1, <1>2, <1>3, SumsAgree
<1> QED BY <1>1, <1>3, <1>4 DEF SumIs, AddsUp

LEMMA SumIsOne ==
  ASSUME NEW n, NEW l, NEW v, SumIs(l, n, v), NEW w, SumIs(l, n, w)
  PROVE  v = w
<1> DEFINE D == 1..n
<1>1. PICK h : AddsUp(h, l, D) /\ v = h[D]
  BY DEF SumIs
<1>2. PICK g : AddsUp(g, l, D) /\ w = g[D]
  BY DEF SumIs
<1> HIDE DEF D
<1>3. h[D] = g[D]
  BY <1>1, <1>2, SumsRestrict
<1> QED BY <1>1, <1>2, <1>3

\* The lengths of a file's first n chunks, and how many bytes these have.
Lengths(f, n) == [i \in 1..n |-> Length[Content[f][i]]]
Before(f, n) == CHOOSE v : SumIs(Lengths(f, n), n, v)

\* What Written adds up.
PieceBytes(b) == [i \in 1..Len(b) |-> Bytes(b[i])]
TotalBytes(b) == FoldSeq(LAMBDA piece, n : Bytes(piece) + n, 0, b)

LEMMA SizeIsSum ==
  ASSUME NEW f \in Files
  PROVE  SumIs(Lengths(f, Len(Content[f])), Len(Content[f]), Size(f))
<1> DEFINE n == Len(Content[f])
           l == Lengths(f, n)
           Eq(g) == g = [s \in SUBSET DOMAIN Content[f] |->
                           IF s = {} THEN 0 ELSE Length[Content[f][Some(s)]] + g[s \ {Some(s)}]]
<1>1. Content[f] \in Seq(Chunks) /\ n \in Nat /\ DOMAIN Content[f] = 1..n
  BY ContentAssumption
<1>2. l \in [1..n -> Nat]
  BY <1>1, RequestsAssumption DEF Lengths
<1>3. Size(f) = (CHOOSE g : Eq(g))[DOMAIN Content[f]]
  BY DEF Size, FoldSeq, FoldFunction, FoldFunctionOnSet, MapThenFoldSet, Some
<1>4. \A g : Sums(g, l, 1..n) <=> Eq(g)
  <2>1. \A s \in SUBSET (1..n) : s # {} => Some(s) \in 1..n
    BY DEF Some
  <2>2. \A s \in SUBSET (1..n) : s # {} => l[Some(s)] = Length[Content[f][Some(s)]]
    BY <2>1 DEF Lengths
  <2> HIDE DEF l
  <2>3. ASSUME NEW g
        PROVE  [s \in SUBSET (1..n) |-> IF s = {} THEN 0 ELSE l[Some(s)] + g[s \ {Some(s)}]]
               = [s \in SUBSET (1..n) |-> IF s = {} THEN 0 ELSE Length[Content[f][Some(s)]] + g[s \ {Some(s)}]]
    BY <2>2
  <2> QED BY <1>1, <2>3 DEF Sums
<1> DEFINE h == CHOOSE g : Sums(g, l, 1..n)
<1>5. h = CHOOSE g : Eq(g)
  <2> HIDE DEF Eq, l, n
  <2> QED BY <1>4
<1>6. SumIs(l, n, h[1..n])
  BY <1>1, <1>2, SumsChosen
<1> QED BY <1>1, <1>2, <1>3, <1>5, <1>6

\* A piece that is not whole is shorter than its chunk by more than the text of
\* an error, if that is short.
ErrorIsShort == \A c \in Chunks : ErrorLength < Length[c] - Length[c] \div 2

LEMMA BytesOfPiece ==
  ASSUME NEW p \in Pieces
  PROVE  /\ Bytes(p) \in Nat /\ Length[p.chunk] \in Nat /\ Bytes(p) <= Length[p.chunk]
         /\ p.data = "whole" => Bytes(p) = Length[p.chunk]
         /\ ErrorIsShort /\ p.data # "whole" => Bytes(p) + ErrorLength < Length[p.chunk]
<1> DEFINE n == Length[p.chunk]
<1>1. n \in Nat /\ ErrorLength \in Nat /\ p.chunk \in Chunks /\ p.data \in {"whole", "part", "none"}
  BY RequestsAssumption DEF Pieces
<1>2. n \div 2 \in Nat /\ n \div 2 <= n
  <2> HIDE DEF n
  <2> QED BY <1>1
<1>3. ErrorIsShort => ErrorLength < n - n \div 2
  BY <1>1 DEF ErrorIsShort
<1>4. Bytes(p) = IF p.data = "whole" THEN n ELSE IF p.data = "part" THEN n \div 2 ELSE 0
  BY <1>1 DEF Bytes
<1> DEFINE half == n \div 2
<1> HIDE DEF n, half
<1>5. /\ Bytes(p) \in Nat /\ Bytes(p) <= n
      /\ p.data = "whole" => Bytes(p) = n
      /\ ErrorIsShort /\ p.data # "whole" => Bytes(p) + ErrorLength < n
  BY <1>1, <1>2, <1>3, <1>4 DEF half
<1> QED BY <1>1, <1>5 DEF n

LEMMA TotalIsSum ==
  ASSUME NEW b \in Seq(Pieces)
  PROVE  SumIs(PieceBytes(b), Len(b), TotalBytes(b))
<1> DEFINE n == Len(b)
           l == PieceBytes(b)
           Eq(g) == g = [s \in SUBSET DOMAIN b |->
                           IF s = {} THEN 0 ELSE Bytes(b[Some(s)]) + g[s \ {Some(s)}]]
<1>1. n \in Nat /\ DOMAIN b = 1..n
  OBVIOUS
<1>2. l \in [1..n -> Nat]
  BY <1>1, BytesOfPiece DEF PieceBytes
<1>3. TotalBytes(b) = (CHOOSE g : Eq(g))[DOMAIN b]
  BY DEF TotalBytes, FoldSeq, FoldFunction, FoldFunctionOnSet, MapThenFoldSet, Some
<1>4. \A g : Sums(g, l, 1..n) <=> Eq(g)
  <2>1. \A s \in SUBSET (1..n) : s # {} => Some(s) \in 1..n
    BY DEF Some
  <2>2. \A s \in SUBSET (1..n) : s # {} => l[Some(s)] = Bytes(b[Some(s)])
    BY <2>1 DEF PieceBytes
  <2> HIDE DEF l
  <2>3. ASSUME NEW g
        PROVE  [s \in SUBSET (1..n) |-> IF s = {} THEN 0 ELSE l[Some(s)] + g[s \ {Some(s)}]]
               = [s \in SUBSET (1..n) |-> IF s = {} THEN 0 ELSE Bytes(b[Some(s)]) + g[s \ {Some(s)}]]
    BY <2>2
  <2> QED BY <1>1, <2>3 DEF Sums
<1> DEFINE h == CHOOSE g : Sums(g, l, 1..n)
<1>5. h = CHOOSE g : Eq(g)
  <2> HIDE DEF Eq, l, n
  <2> QED BY <1>4
<1>6. SumIs(l, n, h[1..n])
  BY <1>1, <1>2, SumsChosen
<1> QED BY <1>1, <1>2, <1>3, <1>5, <1>6

\* Writing one more piece.
LEMMA BytesOfAppend ==
  ASSUME NEW b \in Seq(Pieces), NEW p \in Pieces
  PROVE  TotalBytes(b) \in Nat /\ TotalBytes(Append(b, p)) = TotalBytes(b) + Bytes(p)
<1> DEFINE n == Len(b)
           a == Append(b, p)
           k == PieceBytes(b)
           l == PieceBytes(a)
<1>1. n \in Nat /\ a \in Seq(Pieces) /\ Len(a) = n + 1 /\ a[n + 1] = p /\ \A i \in 1..n : a[i] = b[i]
  OBVIOUS
<1>2. (\A i \in 1..n : k[i] = l[i]) /\ l[n + 1] = Bytes(p)
  BY <1>1 DEF PieceBytes
<1>3. SumIs(k, n, TotalBytes(b)) /\ SumIs(l, n + 1, TotalBytes(a))
  BY <1>1, TotalIsSum
<1> HIDE DEF n, a, k, l
<1>4. TotalBytes(a) = TotalBytes(b) + l[n + 1] /\ TotalBytes(b) \in Nat
  BY <1>1, <1>2, <1>3, SumOfNext
<1> QED BY <1>2, <1>4 DEF a

\* A file's bytes, chunk by chunk.
LEMMA BeforeNext ==
  ASSUME NEW f \in Files
  PROVE  /\ Before(f, 0) = 0
         /\ \A i \in 0..Len(Content[f]) : Before(f, i) \in Nat
         /\ \A i \in 0..(Len(Content[f]) - 1) : Before(f, i + 1) = Before(f, i) + Length[Content[f][i + 1]]
         /\ Before(f, Len(Content[f])) = Size(f)
<1> DEFINE n == Len(Content[f])
<1>1. Content[f] \in Seq(Chunks) /\ n \in Nat
  BY ContentAssumption
<1>2. ASSUME NEW i \in 0..n PROVE SumIs(Lengths(f, i), i, Before(f, i))
  <2>1. i \in Nat /\ Lengths(f, i) \in [1..i -> Nat]
    BY <1>1, RequestsAssumption DEF Lengths
  <2>2. \E v : SumIs(Lengths(f, i), i, v)
    BY <2>1, SumsChosen
  <2> QED BY <2>2 DEF Before
<1>3. Before(f, 0) = 0
  BY <1>1, <1>2, SumOfNone
<1>4. ASSUME NEW i \in 0..(n - 1)
      PROVE  Before(f, i + 1) = Before(f, i) + Length[Content[f][i + 1]] /\ Before(f, i + 1) \in Nat
  <2> DEFINE k == Lengths(f, i)
             l == Lengths(f, i + 1)
  <2>1. i \in Nat /\ i \in 0..n /\ i + 1 \in 0..n
    BY <1>1
  <2>2. (\A j \in 1..i : k[j] = l[j]) /\ l[i + 1] = Length[Content[f][i + 1]]
    BY <2>1 DEF Lengths
  <2>3. SumIs(k, i, Before(f, i)) /\ SumIs(l, i + 1, Before(f, i + 1))
    BY <1>2, <2>1
  <2> HIDE DEF k, l
  <2>4. Before(f, i + 1) = Before(f, i) + l[i + 1] /\ Before(f, i) \in Nat /\ l[i + 1] \in Nat
    BY <2>1, <2>2, <2>3, SumOfNext
  <2> QED BY <2>2, <2>4
<1>5. Before(f, n) = Size(f)
  BY <1>1, <1>2, SizeIsSum, SumIsOne
<1>6. ASSUME NEW i \in 0..n PROVE Before(f, i) \in Nat
  <2>1. CASE i = 0
    BY <1>3, <2>1
  <2>2. CASE i # 0
    <3>1. i - 1 \in 0..(n - 1) /\ (i - 1) + 1 = i
      BY <1>1, <2>2
    <3> QED BY <1>4, <3>1
  <2> QED BY <2>1, <2>2
<1> QED BY <1>3, <1>4, <1>5, <1>6

LEMMA BeforeGrows ==
  ASSUME NEW f \in Files, NEW i \in 0..Len(Content[f]), NEW j \in 0..Len(Content[f]), i <= j
  PROVE  Before(f, i) <= Before(f, j)
<1> DEFINE n == Len(Content[f])
           T == {m \in Nat : i + m <= n => Before(f, i) <= Before(f, i + m)}
<1>1. Content[f] \in Seq(Chunks) /\ n \in Nat
  BY ContentAssumption
<1>2. 0 \in T
  BY <1>1, BeforeNext
<1>3. ASSUME NEW m \in Nat, m \in T PROVE m + 1 \in T
  <2>1. SUFFICES ASSUME i + (m + 1) <= n PROVE Before(f, i) <= Before(f, i + (m + 1))
    OBVIOUS
  <2>2. /\ i + m \in 0..(n - 1) /\ i + m \in 0..n /\ (i + m) + 1 = i + (m + 1)
        /\ Before(f, i) <= Before(f, i + m)
    BY <1>1, <1>3, <2>1
  <2>3. Before(f, i + (m + 1)) = Before(f, i + m) + Length[Content[f][(i + m) + 1]]
    BY <2>2, BeforeNext
  <2>4. Length[Content[f][(i + m) + 1]] \in Nat
    <3>1. (i + m) + 1 \in 1..n
      BY <2>2
    <3> QED BY <1>1, <3>1, RequestsAssumption
  <2>5. Before(f, i) \in Nat /\ Before(f, i + m) \in Nat
    BY <1>1, <2>2, BeforeNext
  <2> QED BY <2>2, <2>3, <2>4, <2>5
<1> HIDE DEF T
<1>4. j - i \in T
  <2>1. Nat \subseteq T
    BY <1>2, <1>3, Induction
  <2> QED BY <2>1
<1> QED BY <1>4 DEF T

-----------------------------------------------------------------------------
(* That a download the client accepts is the file.                         *)

\* A row holds the chunk its file has in that place.
ChunkRowsInPlace ==
  \A c \in Chunks : chunks[c] # NoRow =>
    /\ chunks[c].sequence < Len(Content[chunks[c].file])
    /\ Content[chunks[c].file][chunks[c].sequence + 1] = c

\* So does a download's copy of it.
DownloadRowsInPlace ==
  \A w \in Downloads : \A r \in rows[w] :
    /\ r.sequence < Len(Content[FileOf[w]])
    /\ r.chunk = Content[FileOf[w]][r.sequence + 1]

\* The first n chunks of a file, whole.
Exact(f, n) == [j \in 1..n |-> [chunk |-> Content[f][j], data |-> "whole"]]

\* A download is past the first n chunks of its file: they are what it wrote, or
\* it wrote so much less that the text of an error does not make up for it.
Past(w, n) ==
  /\ \A r \in rows[w] : n <= r.sequence
  /\ \/ body[w] = Exact(FileOf[w], n) /\ TotalBytes(body[w]) = Before(FileOf[w], n)
     \/ TotalBytes(body[w]) + ErrorLength < Before(FileOf[w], n)

BodyInv ==
  /\ ChunkRowsInPlace
  /\ DownloadRowsInPlace
  /\ \A w \in Downloads : pc[w] \in {"idle", "rows"} => body[w] = <<>>
  /\ \A w \in Downloads : \E n \in 0..Len(Content[FileOf[w]]) : Past(w, n)

LEMMA NothingWritten ==
  ASSUME NEW f \in Files
  PROVE  <<>> = Exact(f, 0) /\ TotalBytes(<<>>) = Before(f, 0)
<1>1. <<>> = Exact(f, 0)
  BY DEF Exact
<1>2. <<>> \in Seq(Pieces) /\ Len(<<>>) = 0
  OBVIOUS
<1>3. TotalBytes(<<>>) = 0
  BY <1>2, TotalIsSum, SumOfNone
<1> QED BY <1>1, <1>3, BeforeNext

LEMMA InitBody == Init => BodyInv
<1> SUFFICES ASSUME Init PROVE BodyInv
  OBVIOUS
<1>1. \A w \in Downloads : rows[w] = {} /\ body[w] = <<>> /\ FileOf[w] \in Files
  BY ConstantFacts DEF Init
<1>2. ChunkRowsInPlace
  BY DEF Init, CatalogInit, ChunkRowsInPlace
<1>3. DownloadRowsInPlace
  BY <1>1 DEF DownloadRowsInPlace
<1>4. ASSUME NEW w \in Downloads PROVE 0 \in 0..Len(Content[FileOf[w]]) /\ Past(w, 0)
  BY <1>1, NothingWritten, ContentAssumption DEF Past
<1>5. QED
  BY <1>1, <1>2, <1>3, <1>4 DEF BodyInv

\* A download's rows and body change when it reads its rows, and when it writes
\* the first of them.
LEMMA BodySteps ==
  ASSUME TypeInv, [Next]_vars, NEW w \in Downloads
  PROVE  \/ /\ rows'[w] = rows[w] /\ body'[w] = body[w]
            /\ pc'[w] \in {"idle", "rows"} => pc[w] \in {"idle", "rows"}
         \/ DownloadRows(w)
         \/ rows[w] # {} /\ \E data \in {"whole", "part", "none"} : WriteChunk(w, data)
<1>1. /\ pc \in [Handlers -> Phases] /\ body \in [Downloads -> Seq(Pieces)]
      /\ rows \in [Downloads -> SUBSET [chunk : Chunks, sequence : Nat]]
      /\ w \in Handlers /\ w \notin Uploads /\ w \notin Deletes
      /\ pc[w] \in {"request", "data"} => rows[w] # {}
  BY ConstantFacts DEF TypeInv, RequestTypeOK, DownloadAt
<1> DEFINE Rest == /\ rows'[w] = rows[w] /\ body'[w] = body[w]
                   /\ pc'[w] \in {"idle", "rows"} => pc[w] \in {"idle", "rows"}
<1>2. ASSUME NEW u \in Uploads, UploadRefused(u) \/ UploadBegin(u) \/ UploadStep(u), UploadFrame
      PROVE  Rest
  <2>1. u # w /\ (pc' = pc \/ \E s \in Phases : GoTo(u, s))
    BY <1>1, <1>2 DEF UploadRefused, UploadBegin, UploadStep, UploadWrites, UploadActs, UploadChunk,
       UploadStore, UploadToDrive, UploadDeviceFails, UploadAck, UploadWoken, UploadAckTimeout,
       UploadRecord, UploadUnavailable, UploadCommit, UploadAnswer, TryNextDevice, Phases
  <2>2. QED
    BY <1>1, <1>2, <2>1 DEF GoTo, UploadFrame, downloadVars
<1>3. ASSUME NEW x \in Deletes, DeleteRefused(x) \/ DeleteBegin(x) \/ DeleteStep(x), DeleteFrame
      PROVE  Rest
  <2>1. x # w /\ (pc' = pc \/ \E s \in Phases : GoTo(x, s))
    BY <1>1, <1>3 DEF DeleteRefused, DeleteBegin, DeleteStep, DeleteTargets, DeleteNotify, DeleteCollect,
       DeleteWrites, DeleteStatement, DeleteLast, DeleteAnswer, Phases
  <2>2. QED
    BY <1>1, <1>3, <2>1 DEF GoTo, DeleteFrame, downloadVars
<1>4. ASSUME NEW v \in Downloads, v # w, DownloadRefused(v) \/ DownloadBegin(v) \/ DownloadStep(v)
      PROVE  Rest
  <2>1. pc' = pc \/ \E s \in Phases : GoTo(v, s)
    BY <1>4 DEF DownloadRefused, DownloadBegin, DownloadStep, DownloadActs, DownloadRows, DownloadRowsFail,
       DownloadLocate, DownloadRequest, DownloadDeviceFails, DownloadFromDrive, DownloadData, DownloadWoken,
       DownloadTimeout, DownloadExhausted, DownloadEnd, WriteChunk, Phases
  <2>2. /\ rows' = rows \/ \E n : rows' = [rows EXCEPT ![v] = n]
        /\ body' = body \/ \E n : body' = [body EXCEPT ![v] = n]
    BY <1>4 DEF DownloadRefused, DownloadBegin, DownloadStep, DownloadActs, DownloadRows, DownloadRowsFail,
       DownloadLocate, DownloadRequest, DownloadDeviceFails, DownloadFromDrive, DownloadData, DownloadWoken,
       DownloadTimeout, DownloadExhausted, DownloadEnd, WriteChunk, downloadVars
  <2>3. QED
    BY <1>1, <1>4, <2>1, <2>2 DEF GoTo
<1>5. ASSUME DownloadRefused(w) \/ DownloadBegin(w) \/ DownloadStep(w)
      PROVE  \/ Rest
             \/ DownloadRows(w)
             \/ rows[w] # {} /\ \E data \in {"whole", "part", "none"} : WriteChunk(w, data)
  <2>1. CASE \/ DownloadRefused(w) \/ DownloadBegin(w) \/ DownloadEnd(w) \/ DownloadTimeout(w)
             \/ DownloadExhausted(w) \/ DownloadRowsFail(w)
    <3>1. /\ \E s \in Phases : GoTo(w, s) /\ (s \in {"idle", "rows"} => pc[w] = "idle")
          /\ UNCHANGED <<rows, body>>
      BY <2>1 DEF DownloadRefused, DownloadBegin, DownloadEnd, DownloadTimeout, DownloadExhausted,
         DownloadRowsFail, downloadVars, Phases
    <3>2. QED
      BY <1>1, <3>1 DEF GoTo
  <2>2. CASE DownloadLocate(w) \/ DownloadRequest(w) \/ DownloadDeviceFails(w)
    <3>1. /\ pc' = pc \/ \E s \in {"request", "data"} : GoTo(w, s)
          /\ UNCHANGED <<rows, body>>
      BY <2>2 DEF DownloadLocate, DownloadRequest, DownloadDeviceFails
    <3>2. QED
      BY <1>1, <3>1 DEF GoTo
  <2>3. CASE DownloadFromDrive(w)
    <3>1. PICK d \in candidates[w] \ Agents : WriteChunk(w, stored[d][FirstRow(w).chunk])
      BY <2>3 DEF DownloadFromDrive
    <3>2. rows[w] # {}
      BY <1>1, <2>3 DEF DownloadFromDrive
    <3>3. FirstRow(w).chunk \in Chunks
      BY <1>1, <3>2, FirstRowIsRow
    <3>4. stored[d][FirstRow(w).chunk] \in {"none", "part", "whole"}
      BY <3>1, <3>3 DEF TypeInv, AgentTypeOK, RequestTypeOK
    <3>5. QED
      BY <3>1, <3>2, <3>4
  <2>4. CASE DownloadData(w)
    <3>1. PICK a \in answers : WriteChunk(w, a.data)
      BY <2>4 DEF DownloadData
    <3>2. rows[w] # {}
      BY <1>1, <2>4 DEF DownloadData
    <3>3. a.data \in {"none", "part", "whole"}
      BY <3>1 DEF TypeInv, AgentTypeOK, Answers
    <3>4. QED
      BY <3>1, <3>2, <3>3
  <2>5. CASE DownloadWoken(w)
    BY <1>1, <2>5 DEF DownloadWoken
  <2>6. QED
    BY <1>5, <2>1, <2>2, <2>3, <2>4, <2>5 DEF DownloadStep, DownloadActs
<1>6. CASE ServerRestart
  BY <1>1, <1>6 DEF ServerRestart, requestVars, downloadVars
<1>7. CASE (\E d \in Agents : AgentActs(d) \/ AgentFails(d)) \/ (\E d \in Devices : ComeOnline(d))
           \/ Quiet \/ UNCHANGED vars
  BY <1>7 DEF AgentActs, AgentFails, ComeOnline, Quiet, vars, requestVars, downloadVars
<1>8. ASSUME NEW h \in Handlers, BeginFails(h) PROVE Rest
  <2>1. /\ pc' = [pc EXCEPT ![h] = pc'[h]] /\ pc'[h] \in {"unavailable", "failed", "notfound"}
        /\ UNCHANGED <<rows, body>>
    BY <1>8, BeginFailsIs DEF requestVars, downloadVars
  <2>2. QED
    BY <1>1, <2>1
<1>9. QED
  BY <1>2, <1>3, <1>4, <1>5, <1>6, <1>7, <1>8 DEF Next, Begin, Received, Step

\* The first of the rows is written, and the others lie behind it.
LEMMA WriteStep ==
  ASSUME TypeInv, BodyInv, ErrorIsShort, NEW w \in Downloads, rows[w] # {},
         NEW data \in {"whole", "part", "none"}, WriteChunk(w, data)
  PROVE  \E n \in 0..Len(Content[FileOf[w]]) : Past(w, n)'
<1> DEFINE f == FileOf[w]
           r == FirstRow(w)
           s == r.sequence
           p == [chunk |-> r.chunk, data |-> data]
           b == body[w]
<1>1. /\ f \in Files /\ Content[f] \in Seq(Chunks) /\ Len(Content[f]) \in Nat
      /\ rows \in [Downloads -> SUBSET [chunk : Chunks, sequence : Nat]]
      /\ body \in [Downloads -> Seq(Pieces)] /\ b \in Seq(Pieces)
  BY ConstantFacts, ContentAssumption DEF TypeInv, RequestTypeOK
<1>2. r \in rows[w] /\ r.chunk \in Chunks /\ s \in Nat /\ \A q \in rows[w] : s <= q.sequence
  BY <1>1, FirstRowIsRow
<1>3. /\ \A q \in rows[w] : q.sequence < Len(Content[f]) /\ q.chunk = Content[f][q.sequence + 1]
      /\ s < Len(Content[f]) /\ r.chunk = Content[f][s + 1]
  BY <1>2 DEF BodyInv, DownloadRowsInPlace
<1>4. PICK n \in 0..Len(Content[f]) : Past(w, n)
  BY DEF BodyInv
<1>5. n <= s
  BY <1>2, <1>4 DEF Past
<1>6. rows'[w] = rows[w] \ {r} /\ body'[w] = Append(b, p)
  BY <1>1 DEF WriteChunk
<1>7. \A q \in rows'[w] : s + 1 <= q.sequence
  <2>1. SUFFICES ASSUME NEW q \in rows[w], q # r PROVE s + 1 <= q.sequence
    BY <1>6
  <2>2. q \in [chunk : Chunks, sequence : Nat] /\ r \in [chunk : Chunks, sequence : Nat]
    BY <1>1, <1>2
  <2>3. q.sequence # s
    BY <1>3, <2>1, <2>2
  <2> QED BY <1>2, <2>1, <2>2, <2>3
<1>8. p \in Pieces /\ p.chunk = r.chunk /\ p.data = data
  BY <1>2 DEF Pieces
<1> DEFINE L == Length[Content[f][s + 1]]
           t == TotalBytes(b)
           x == Bytes(p)
<1>9. /\ x \in Nat /\ L \in Nat /\ x <= L
      /\ data = "whole" => x = L
      /\ data # "whole" => x + ErrorLength < L
  BY <1>3, <1>8, BytesOfPiece
<1>10. t \in Nat /\ TotalBytes(body'[w]) = t + x
  BY <1>1, <1>6, <1>8, BytesOfAppend
<1>11. /\ s \in 0..(Len(Content[f]) - 1) /\ s \in 0..Len(Content[f]) /\ s + 1 \in 0..Len(Content[f])
       /\ Before(f, s + 1) = Before(f, s) + L
       /\ Before(f, n) \in Nat /\ Before(f, s) \in Nat /\ Before(f, n) <= Before(f, s)
  <2>1. s \in 0..(Len(Content[f]) - 1) /\ s \in 0..Len(Content[f]) /\ s + 1 \in 0..Len(Content[f])
    BY <1>1, <1>2, <1>3
  <2> QED BY <1>1, <1>4, <1>5, <2>1, BeforeNext, BeforeGrows
<1>12. ErrorLength \in Nat
  BY RequestsAssumption
<1>13. PICK m \in 0..Len(Content[f]) : m = s + 1
  BY <1>11
<1>14. CASE t + ErrorLength < Before(f, n)
  <2>1. (t + x) + ErrorLength < Before(f, s + 1)
    <3> HIDE DEF t, x, L, s
    <3> QED BY <1>9, <1>10, <1>11, <1>12, <1>14
  <2>2. Past(w, m)'
    BY <1>7, <1>10, <1>13, <2>1 DEF Past
  <2> QED BY <2>2
<1>15. CASE b = Exact(f, n) /\ t = Before(f, n)
  <2>1. CASE n = s /\ data = "whole"
    <3>1. body'[w] = Exact(f, s + 1)
      <4>1. p = [chunk |-> Content[f][s + 1], data |-> "whole"]
        BY <1>3, <2>1
      <4> HIDE DEF p, s
      <4>2. Append(Exact(f, s), p) = Exact(f, s + 1)
        BY <1>2, <4>1 DEF Exact
      <4> QED BY <1>6, <1>15, <2>1, <4>2
    <3>2. TotalBytes(body'[w]) = Before(f, s + 1)
      BY <1>9, <1>10, <1>11, <1>15, <2>1
    <3>3. Past(w, m)'
      BY <1>7, <1>13, <3>1, <3>2 DEF Past
    <3> QED BY <3>3
  <2>2. CASE n = s /\ data # "whole"
    <3>1. (t + x) + ErrorLength < Before(f, s + 1)
      <4> HIDE DEF t, x, L, s
      <4> QED BY <1>9, <1>10, <1>11, <1>12, <1>15, <2>2
    <3>2. Past(w, m)'
      BY <1>7, <1>10, <1>13, <3>1 DEF Past
    <3> QED BY <3>2
  <2>3. CASE n # s
    <3>1. n \in 0..(Len(Content[f]) - 1) /\ n + 1 \in 0..Len(Content[f]) /\ n + 1 <= s
      BY <1>1, <1>2, <1>3, <1>4, <1>5, <2>3
    <3>2. Before(f, n + 1) = Before(f, n) + Length[Content[f][n + 1]] /\ Before(f, n + 1) <= Before(f, s)
          /\ Before(f, n + 1) \in Nat
      BY <1>1, <1>11, <3>1, BeforeNext, BeforeGrows
    <3>3. ErrorLength < Length[Content[f][n + 1]] /\ Length[Content[f][n + 1]] \in Nat
      <4>1. Content[f][n + 1] \in Chunks
        BY <1>1, <3>1
      <4>2. [chunk |-> Content[f][n + 1], data |-> "none"] \in Pieces
        BY <4>1 DEF Pieces
      <4> QED BY <1>12, <4>2, BytesOfPiece
    <3>4. (t + x) + ErrorLength < Before(f, s + 1)
      <4> DEFINE M == Length[Content[f][n + 1]]
                 A == Before(f, n)
                 B == Before(f, n + 1)
                 C == Before(f, s)
      <4>1. /\ B = A + M /\ B <= C /\ ErrorLength < M /\ t = A /\ x <= L
            /\ A \in Nat /\ B \in Nat /\ C \in Nat /\ M \in Nat
        BY <1>9, <1>11, <1>15, <3>2, <3>3
      <4>2. Before(f, s + 1) = C + L
        BY <1>11
      <4> HIDE DEF t, x, L, s, A, B, C, M
      <4> QED BY <1>9, <1>10, <1>12, <4>1, <4>2
    <3>5. Past(w, m)'
      BY <1>7, <1>10, <1>13, <3>4 DEF Past
    <3> QED BY <3>5
  <2> QED BY <2>1, <2>2, <2>3
<1> QED BY <1>4, <1>14, <1>15 DEF Past

\* Rows are in place when they are written, and stay there.
LEMMA NextRowsInPlace == TypeInv /\ ChunkRowsInPlace /\ [Next]_vars => ChunkRowsInPlace'
<1> SUFFICES ASSUME TypeInv, ChunkRowsInPlace, [Next]_vars,
                    NEW c \in Chunks, chunks'[c] # NoRow
             PROVE  /\ chunks'[c].sequence < Len(Content[chunks'[c].file])
                    /\ Content[chunks'[c].file][chunks'[c].sequence + 1] = c
  BY DEF ChunkRowsInPlace
<1>1. chunks \in [Chunks -> Rows \cup {NoRow}]
  BY DEF TypeInv, CatalogTypeOK
<1>2. CASE chunks'[c] = chunks[c]
  BY <1>2 DEF ChunkRowsInPlace
<1>3. CASE \E u \in Uploads : UploadChunk(u)
  <2>1. PICK u \in Uploads : UploadChunk(u)
    BY <1>3
  <2>2. /\ sequence[u] < Len(Content[u])
        /\ \/ chunks' = chunks
           \/ chunks' = [chunks EXCEPT ![NextChunk(u)] =
                           IF @ = NoRow THEN [file |-> u, sequence |-> sequence[u]] ELSE @]
    BY <2>1, UploadChunkIs DEF InsertChunk, catalogVars
  <2>3. chunks'[c] = chunks[c] \/ (c = NextChunk(u) /\ chunks'[c] = [file |-> u, sequence |-> sequence[u]])
    BY <1>1, <2>2
  <2>4. CASE c = NextChunk(u) /\ chunks'[c] = [file |-> u, sequence |-> sequence[u]]
    <3>1. chunks'[c].file = u /\ chunks'[c].sequence = sequence[u]
      BY <2>4
    <3>2. Content[u][sequence[u] + 1] = c
      BY <2>4 DEF NextChunk
    <3> QED BY <2>2, <3>1, <3>2
  <2> QED BY <1>2, <2>3, <2>4
<1>4. CASE \E x \in Deletes : DeleteChunksOf(FileOf[x])
  BY <1>2, <1>4 DEF DeleteChunksOf
<1>5. QED
  BY <1>2, <1>3, <1>4, RowsSteps

LEMMA NextBody == ErrorIsShort /\ TypeInv /\ BodyInv /\ [Next]_vars => BodyInv'
<1> SUFFICES ASSUME ErrorIsShort, TypeInv, BodyInv, [Next]_vars PROVE BodyInv'
  OBVIOUS
<1>1. /\ rows \in [Downloads -> SUBSET [chunk : Chunks, sequence : Nat]]
      /\ body \in [Downloads -> Seq(Pieces)] /\ pc \in [Handlers -> Phases]
      /\ chunks \in [Chunks -> Rows \cup {NoRow}]
      /\ \A w \in Downloads : FileOf[w] \in Files /\ w \in Handlers
  BY ConstantFacts DEF TypeInv, RequestTypeOK, CatalogTypeOK
<1>2. ChunkRowsInPlace'
  BY NextRowsInPlace DEF BodyInv
<1>3. ASSUME NEW w \in Downloads
      PROVE  /\ \A r \in rows'[w] : /\ r.sequence < Len(Content[FileOf[w]])
                                    /\ r.chunk = Content[FileOf[w]][r.sequence + 1]
             /\ pc'[w] \in {"idle", "rows"} => body'[w] = <<>>
             /\ \E n \in 0..Len(Content[FileOf[w]]) : Past(w, n)'
  <2>1. CASE /\ rows'[w] = rows[w] /\ body'[w] = body[w]
             /\ pc'[w] \in {"idle", "rows"} => pc[w] \in {"idle", "rows"}
    <3>1. PICK n \in 0..Len(Content[FileOf[w]]) : Past(w, n)
      BY DEF BodyInv
    <3>2. Past(w, n)'
      BY <2>1, <3>1 DEF Past
    <3> QED BY <2>1, <3>2 DEF BodyInv, DownloadRowsInPlace
  <2>2. CASE DownloadRows(w)
    <3>1. /\ rows'[w] = {[chunk |-> c, sequence |-> chunks[c].sequence] : c \in ChunksOf(FileOf[w])}
          /\ body'[w] = body[w] /\ pc[w] = "rows" /\ pc'[w] = "locate"
      BY <1>1, <2>2 DEF DownloadRows, GoTo
    <3>2. body'[w] = <<>>
      BY <3>1 DEF BodyInv
    <3>3. ASSUME NEW r \in rows'[w]
          PROVE  /\ r.sequence < Len(Content[FileOf[w]]) /\ 0 <= r.sequence
                 /\ r.chunk = Content[FileOf[w]][r.sequence + 1]
      <4>1. PICK c \in ChunksOf(FileOf[w]) : r = [chunk |-> c, sequence |-> chunks[c].sequence]
        BY <3>1
      <4>2. /\ c \in Chunks /\ chunks[c] # NoRow /\ chunks[c].file = FileOf[w]
            /\ r.chunk = c /\ r.sequence = chunks[c].sequence /\ chunks[c].sequence \in Nat
        BY <1>1, <4>1 DEF ChunksOf, Rows
      <4>3. /\ chunks[c].sequence < Len(Content[chunks[c].file])
            /\ Content[chunks[c].file][chunks[c].sequence + 1] = c
        BY <4>2 DEF BodyInv, ChunkRowsInPlace
      <4> QED BY <4>2, <4>3
    <3>4. Past(w, 0)' /\ 0 \in 0..Len(Content[FileOf[w]])
      BY <1>1, <3>2, <3>3, NothingWritten, ContentAssumption DEF Past
    <3> QED BY <3>1, <3>3, <3>4
  <2>3. CASE rows[w] # {} /\ \E data \in {"whole", "part", "none"} : WriteChunk(w, data)
    <3>1. rows'[w] \subseteq rows[w] /\ pc'[w] = "locate"
      BY <1>1, <2>3 DEF WriteChunk, GoTo
    <3> QED BY <2>3, <3>1, WriteStep DEF BodyInv, DownloadRowsInPlace
  <2> QED BY <2>1, <2>2, <2>3, BodySteps
<1>4. QED
  BY <1>2, <1>3 DEF BodyInv, DownloadRowsInPlace

\* A download that got past n chunks, and was taken for the whole file, is it.
LEMMA AcceptedIsWhole ==
  ASSUME TypeInv, BodyInv, ErrorIsShort, NEW w \in Downloads, ClientAccepts(w)
  PROVE  body[w] = Exact(FileOf[w], Len(Content[FileOf[w]]))
<1> DEFINE f == FileOf[w]
           N == Len(Content[f])
           t == TotalBytes(body[w])
<1>1. /\ f \in Files /\ Content[f] \in Seq(Chunks) /\ N \in Nat /\ body[w] \in Seq(Pieces)
      /\ ErrorLength \in Nat /\ ErrorLength > 0
  BY ConstantFacts, ContentAssumption, RequestsAssumption DEF TypeInv, RequestTypeOK
<1>2. t = Size(f) \/ t + ErrorLength = Size(f)
  BY DEF ClientAccepts, Written, TotalBytes
<1>3. PICK n \in 0..N : Past(w, n)
  BY DEF BodyInv
<1>4. /\ Before(f, n) \in Nat /\ Before(f, N) \in Nat /\ Before(f, N) = Size(f)
      /\ Before(f, n) <= Before(f, N)
  BY <1>1, <1>3, BeforeNext, BeforeGrows
<1>5. t \in Nat
  <2>1. PICK g : AddsUp(g, PieceBytes(body[w]), 1..Len(body[w])) /\ t = g[1..Len(body[w])]
    BY <1>1, TotalIsSum DEF SumIs
  <2> HIDE DEF t
  <2> QED BY <2>1 DEF AddsUp
<1>6. ~ (t + ErrorLength < Before(f, n))
  <2> HIDE DEF t
  <2> QED BY <1>1, <1>2, <1>4, <1>5
<1>7. body[w] = Exact(f, n) /\ t = Before(f, n)
  BY <1>3, <1>6 DEF Past
<1>8. ASSUME n # N PROVE FALSE
  <2>1. n \in 0..(N - 1) /\ n + 1 \in 0..N /\ n + 1 \in 1..N
    BY <1>1, <1>3, <1>8
  <2> DEFINE L == Length[Content[f][n + 1]]
  <2>2. L \in Nat /\ ErrorLength < L
    <3>1. Content[f][n + 1] \in Chunks
      BY <1>1, <2>1
    <3>2. [chunk |-> Content[f][n + 1], data |-> "none"] \in Pieces
      BY <3>1 DEF Pieces
    <3>3. PICK q \in Pieces : q.chunk = Content[f][n + 1] /\ q.data = "none"
      BY <3>2
    <3>4. Bytes(q) \in Nat /\ L \in Nat /\ Bytes(q) + ErrorLength < L
      BY <3>3, BytesOfPiece
    <3>5. ErrorLength \in Nat
      BY <1>1
    <3> HIDE DEF L
    <3> QED BY <3>4, <3>5
  <2>3. Before(f, n + 1) = Before(f, n) + L /\ Before(f, n + 1) <= Before(f, N)
    BY <1>1, <2>1, BeforeNext, BeforeGrows
  <2> HIDE DEF t, L
  <2> QED BY <1>1, <1>2, <1>4, <1>5, <1>7, <2>2, <2>3
<1> QED BY <1>7, <1>8

LEMMA ExactIfAccepted == TypeInv /\ BodyInv /\ ErrorIsShort => DownloadExact
  BY AcceptedIsWhole DEF DownloadExact, WholeFile, Exact

\* A download the client accepts is the file that was uploaded, if the text of
\* an error is shorter than what any torn or missing chunk lacks.
THEOREM DownloadsAreExact ==
  ASSUME ErrorIsShort
  PROVE  Spec => []DownloadExact
<1>1. TypeInv /\ BodyInv => DownloadExact
  BY ExactIfAccepted
<1>2. TypeInv /\ BodyInv /\ [Next]_vars => BodyInv'
  BY NextBody
<1>3. QED
  BY <1>1, <1>2, InitType, NextType, InitBody, PTL DEF Spec

-----------------------------------------------------------------------------
(***************************************************************************)
(* That the service implements the store of FileStore.tla.  Those who make *)
(* requests see which files have a row and which of them a size, the ends  *)
(* of the requests, the bodies they accept, and whose statements were      *)
(* refused, so a step is judged by what it does to pc, files, body and     *)
(* refused, which StepsSeen lists.                                         *)
(***************************************************************************)
UploadSeen(u) ==
  /\ body' = body
  /\ refused' \in {refused, refused \cup {u}}
  /\ \/ pc[u] = "idle" /\ files' = files /\ \E s \in {"unavailable", "failed"} : GoTo(u, s)
     \/ pc[u] = "idle" /\ GoTo(u, "chunk") /\ files' = [files EXCEPT ![u] = "open"]
     \/ /\ pc[u] = "chunk" /\ GoTo(u, "answer") /\ refused' = refused
        /\ files' = [files EXCEPT ![u] = IF @ = "absent" THEN @ ELSE "committed"]
     \/ pc[u] = "chunk" /\ GoTo(u, "answer") /\ files' = files /\ u \in refused'
     \/ /\ pc[u] \in {"chunk", "device", "ack", "record"} /\ files' = files
        /\ \E s \in {"chunk", "device", "ack", "record", "unavailable"} : GoTo(u, s)
     \/ pc[u] = "answer" /\ GoTo(u, "ok") /\ files' = files

DownloadSeen(w) ==
  /\ files' = files
  /\ \A v \in Downloads : v # w => body'[v] = body[v]
  /\ refused' \in {refused, refused \cup {w}}
  /\ \/ /\ pc[w] = "idle" /\ GoTo(w, "notfound") /\ body' = body
        /\ files[FileOf[w]] # "committed" \/ w \in refused'
     \/ pc[w] = "idle" /\ GoTo(w, "rows") /\ files[FileOf[w]] = "committed"
     \/ /\ pc[w] \in {"rows", "locate", "request", "data"}
        /\ \E s \in {"rows", "locate", "request", "data"} : GoTo(w, s)
     \/ /\ pc[w] \in {"rows", "locate", "request", "data"} /\ body' = body
        /\ \E s \in {"ok", "broken", "unavailable", "failed"} : GoTo(w, s)

DeleteSeen(x) ==
  /\ body' = body
  /\ refused' \in {refused, refused \cup {x}}
  /\ \/ /\ pc[x] = "idle" /\ GoTo(x, "notfound") /\ files' = files
        /\ files[FileOf[x]] = "absent" \/ x \in refused'
     \/ pc[x] = "idle" /\ GoTo(x, "targets") /\ files[FileOf[x]] # "absent" /\ files' = files
     \/ /\ pc[x] \in {"targets", "notify", "deletion", "locations", "chunks", "file"} /\ files' = files
        /\ \E s \in {"targets", "notify", "deletion", "locations", "chunks", "file"} : GoTo(x, s)
     \/ /\ pc[x] = "file" /\ GoTo(x, "answer") /\ refused' = refused
        /\ files' = [files EXCEPT ![FileOf[x]] = "absent"]
     \/ pc[x] = "file" /\ GoTo(x, "failed") /\ files' = files /\ x \in refused'
     \/ pc[x] = "answer" /\ GoTo(x, "ok") /\ files' = files

RestartSeen ==
  /\ pc' = [h \in Handlers |-> IF pc[h] \in Final \cup {"idle"} THEN pc[h] ELSE "lost"]
  /\ UNCHANGED <<files, body, refused>>

NothingSeen == UNCHANGED <<pc, files, body, refused>>

LEMMA UploadStepsSeen ==
  ASSUME TypeInv, NEW u \in Uploads, UploadFrame, FaultsMove(u),
         UploadRefused(u) \/ UploadBegin(u) \/ UploadStep(u)
  PROVE  UploadSeen(u)
<1>1. body' = body /\ refused' \in {refused, refused \cup {u}}
  BY ConstantFacts, FaultsTurn DEF UploadFrame, downloadVars
<1>2. CASE UploadRefused(u)
  BY <1>1, <1>2 DEF UploadRefused, UploadSeen, catalogVars
<1>3. CASE UploadBegin(u)
  BY <1>1, <1>3 DEF UploadBegin, UploadSeen, InsertFile
<1>4. CASE UploadCommit(u)
  BY <1>1, <1>4 DEF UploadCommit, Exec, Refusal, faultVars, catalogVars, UploadSeen, SetSize
<1>5. CASE UploadChunk(u) \/ UploadRecord(u)
  <2>1. files' = files /\ pc[u] \in {"chunk", "record"} /\ (GoTo(u, "device") \/ GoTo(u, "chunk"))
    BY <1>5, UploadChunkIs, UploadRecordIs DEF InsertChunk, InsertLocation, catalogVars
  <2> QED BY <1>1, <2>1 DEF UploadSeen
<1>6. CASE UploadStore(u) \/ UploadToDrive(u) \/ UploadDeviceFails(u) \/ UploadUnavailable(u) \/ UploadAnswer(u)
  BY <1>1, <1>6 DEF UploadStore, UploadToDrive, UploadDeviceFails, UploadUnavailable, UploadAnswer,
     TryNextDevice, UploadSeen, catalogVars
<1>7. CASE UploadAck(u) \/ UploadWoken(u) \/ UploadAckTimeout(u)
  BY <1>1, <1>7 DEF UploadAck, UploadWoken, UploadAckTimeout, TryNextDevice, UploadSeen, catalogVars
<1> QED BY <1>2, <1>3, <1>4, <1>5, <1>6, <1>7 DEF UploadStep, UploadWrites, UploadActs

LEMMA DownloadStepsSeen ==
  ASSUME TypeInv, NEW w \in Downloads, DownloadFrame, FaultsMove(w),
         DownloadRefused(w) \/ DownloadBegin(w) \/ DownloadStep(w)
  PROVE  DownloadSeen(w)
<1>1. files' = files /\ refused' \in {refused, refused \cup {w}}
  BY ConstantFacts, FaultsTurn DEF DownloadFrame, catalogVars
<1>2. CASE DownloadRefused(w) \/ DownloadBegin(w)
  BY <1>1, <1>2 DEF DownloadRefused, DownloadBegin, DownloadSeen, downloadVars
<1>3. CASE DownloadRows(w) \/ DownloadRowsFail(w) \/ DownloadLocate(w) \/ DownloadRequest(w)
  BY <1>1, <1>3 DEF DownloadRows, DownloadRowsFail, DownloadLocate, DownloadRequest, DownloadSeen, downloadVars
<1>4. CASE DownloadDeviceFails(w) \/ DownloadTimeout(w)
  <2>1. pc \in [Handlers -> Phases] /\ w \in Handlers
    BY ConstantFacts DEF TypeInv, RequestTypeOK
  <2>2. GoTo(w, "request") /\ body' = body /\ pc[w] \in {"request", "data"}
    BY <1>4, <2>1 DEF DownloadDeviceFails, DownloadTimeout, GoTo, downloadVars
  <2> QED BY <1>1, <2>2 DEF DownloadSeen
<1>5. ASSUME \E data : WriteChunk(w, data), pc[w] \in {"request", "data"} PROVE DownloadSeen(w)
  <2>1. /\ GoTo(w, "locate")
        /\ \E data : body' = [body EXCEPT ![w] = Append(@, [chunk |-> FirstRow(w).chunk, data |-> data])]
    BY <1>5 DEF WriteChunk
  <2>2. \A v \in Downloads : v # w => body'[v] = body[v]
    BY <2>1 DEF TypeInv, RequestTypeOK
  <2> QED BY <1>1, <1>5, <2>1, <2>2 DEF DownloadSeen
<1>6. CASE DownloadFromDrive(w) \/ DownloadData(w) \/ DownloadWoken(w)
  BY <1>5, <1>6 DEF DownloadFromDrive, DownloadData, DownloadWoken
<1>7. CASE DownloadExhausted(w) \/ DownloadEnd(w)
  BY <1>1, <1>7 DEF DownloadExhausted, DownloadEnd, DownloadSeen, downloadVars
<1> QED BY <1>2, <1>3, <1>4, <1>6, <1>7 DEF DownloadStep, DownloadActs

LEMMA DeleteStepsSeen ==
  ASSUME TypeInv, NEW x \in Deletes, DeleteFrame, FaultsMove(x),
         DeleteRefused(x) \/ DeleteBegin(x) \/ DeleteStep(x)
  PROVE  DeleteSeen(x)
<1>1. body' = body /\ refused' \in {refused, refused \cup {x}}
  BY ConstantFacts, FaultsTurn DEF DeleteFrame, downloadVars
<1>2. CASE DeleteRefused(x) \/ DeleteBegin(x) \/ DeleteAnswer(x)
  BY <1>1, <1>2 DEF DeleteRefused, DeleteBegin, DeleteAnswer, DeleteSeen, catalogVars
<1>3. CASE DeleteTargets(x) \/ DeleteNotify(x) \/ DeleteCollect(x)
  <2>1. pc \in [Handlers -> Phases] /\ x \in Handlers
    BY ConstantFacts DEF TypeInv, RequestTypeOK
  <2>2. (GoTo(x, "notify") \/ GoTo(x, "deletion")) /\ files' = files /\ pc[x] \in {"targets", "notify"}
    BY <1>3, <2>1 DEF DeleteTargets, DeleteNotify, DeleteCollect, GoTo, catalogVars
  <2> QED BY <1>1, <2>2 DEF DeleteSeen
<1>4. CASE DeleteWrites(x)
  <2>1. /\ files' = files /\ pc[x] \in {"deletion", "locations", "chunks"}
        /\ \E s \in {"locations", "chunks", "file"} : GoTo(x, s)
    BY <1>4 DEF DeleteWrites, DeleteStatement, Exec, InsertDeletion, DeleteLocationsOf, DeleteChunksOf, catalogVars
  <2> QED BY <1>1, <2>1 DEF DeleteSeen
<1>5. CASE DeleteLast(x)
  BY <1>1, <1>5 DEF DeleteLast, DeleteFileRow, Refusal, faultVars, catalogVars, DeleteSeen
<1> QED BY <1>2, <1>3, <1>4, <1>5 DEF DeleteStep

LEMMA BeginFailsSeen ==
  ASSUME TypeInv, NEW h \in Handlers, BeginFails(h)
  PROVE  \/ h \in Uploads /\ UploadSeen(h)
         \/ h \in Downloads /\ DownloadSeen(h)
         \/ h \in Deletes /\ DeleteSeen(h)
<1>1. /\ pc[h] = "idle" /\ GoTo(h, pc'[h]) /\ pc'[h] \in {"unavailable", "failed", "notfound"}
      /\ files' = files /\ body' = body /\ refused' = refused \cup {h}
      /\ h \in Downloads \cup Deletes => pc'[h] = "notfound"
      /\ h \in Uploads => pc'[h] # "notfound"
  BY BeginFailsIs DEF GoTo, catalogVars, requestVars, downloadVars
<1>2. h \in Uploads \/ h \in Downloads \/ h \in Deletes
  BY RequestsAssumption
<1> QED BY <1>1, <1>2 DEF UploadSeen, DownloadSeen, DeleteSeen

LEMMA StepsSeen ==
  ASSUME TypeInv, [Next]_vars
  PROVE  \/ \E u \in Uploads : UploadSeen(u)
         \/ \E w \in Downloads : DownloadSeen(w)
         \/ \E x \in Deletes : DeleteSeen(x)
         \/ RestartSeen
         \/ NothingSeen
<1>1. CASE ServerRestart
  BY <1>1 DEF ServerRestart, RestartSeen, catalogVars, requestVars, downloadVars
<1>2. CASE (\E d \in Devices : ComeOnline(d)) \/ Quiet \/ UNCHANGED vars
           \/ \E d \in Agents : AgentActs(d) \/ AgentFails(d)
  BY <1>2 DEF ComeOnline, Quiet, vars, catalogVars, requestVars, downloadVars, faultVars, AgentActs,
     AgentFails, AgentStep, AgentRestart, Poll, SaveChunk, SaveChunkFails, ReportChunkLocation,
     InsertLocation, SendAck, HandleRetrieve, HandleDelete, SyncDeletion, NothingSeen
<1>3. CASE \E h \in Handlers : BeginFails(h)
  BY <1>3, BeginFailsSeen
<1>4. ASSUME NEW h \in Handlers, (Received(h) /\ UNCHANGED faultVars) \/ Step(h)
      PROVE  \/ \E u \in Uploads : UploadSeen(u)
             \/ \E w \in Downloads : DownloadSeen(w)
             \/ \E x \in Deletes : DeleteSeen(x)
  <2>1. FaultsMove(h)
    BY <1>4, StepsTurnFaults DEF FaultsMove
  <2> QED BY <1>4, <2>1, UploadStepsSeen, DownloadStepsSeen, DeleteStepsSeen DEF Received, Step
<1> QED BY <1>1, <1>2, <1>3, <1>4 DEF Next, Begin

\* An upload whose last statement is done has kept its file, if a delete did not
\* drop the row and no statement was refused.
KeptAtAnswer ==
  \A u \in Uploads : pc[u] = "answer" => files[u] \in {"committed", "absent"} \/ u \in refused

LEMMA InitKeptAtAnswer == Init => KeptAtAnswer
  BY ConstantFacts DEF Init, KeptAtAnswer

LEMMA NextKeptAtAnswer == TypeInv /\ KeptAtAnswer /\ [Next]_vars => KeptAtAnswer'
<1> SUFFICES ASSUME TypeInv, KeptAtAnswer, [Next]_vars, NEW u \in Uploads, pc'[u] = "answer"
             PROVE  files'[u] \in {"committed", "absent"} \/ u \in refused'
  BY DEF KeptAtAnswer
<1>1. /\ pc \in [Handlers -> Phases] /\ files \in [Files -> {"absent", "open", "committed"}]
      /\ Uploads = Files /\ Uploads \subseteq Handlers /\ Downloads \subseteq Handlers /\ Deletes \subseteq Handlers
      /\ u \notin Downloads /\ u \notin Deletes /\ \A x \in Deletes : FileOf[x] \in Files
  BY ConstantFacts DEF TypeInv, RequestTypeOK, CatalogTypeOK
<1>2. refused \subseteq refused'
  BY RefusedGrows
<1>3. ASSUME pc[u] = "answer", files'[u] \in {files[u], "absent"}
      PROVE  files'[u] \in {"committed", "absent"} \/ u \in refused'
  BY <1>2, <1>3 DEF KeptAtAnswer
<1>4. ASSUME NEW v \in Uploads, UploadSeen(v)
      PROVE  files'[u] \in {"committed", "absent"} \/ u \in refused'
  <2>1. CASE v = u
    BY <1>1, <1>4, <2>1 DEF UploadSeen, GoTo
  <2>2. CASE v # u
    BY <1>1, <1>3, <1>4, <2>2 DEF UploadSeen, GoTo
  <2> QED BY <2>1, <2>2
<1>5. ASSUME NEW w \in Downloads, DownloadSeen(w)
      PROVE  files'[u] \in {"committed", "absent"} \/ u \in refused'
  BY <1>1, <1>3, <1>5 DEF DownloadSeen, GoTo
<1>6. ASSUME NEW x \in Deletes, DeleteSeen(x)
      PROVE  files'[u] \in {"committed", "absent"} \/ u \in refused'
  BY <1>1, <1>3, <1>6 DEF DeleteSeen, GoTo
<1>7. CASE RestartSeen
  BY <1>1, <1>3, <1>7 DEF RestartSeen
<1>8. CASE NothingSeen
  BY <1>3, <1>8 DEF NothingSeen
<1> QED BY <1>4, <1>5, <1>6, <1>7, <1>8, StepsSeen

\* What the store's definitions see: FileService's requests and answers.
SeenInv == TypeInv /\ BodyInv /\ DeletedInv /\ KeptAtAnswer

LEMMA SeenFacts ==
  ASSUME SeenInv
  PROVE  /\ Store!Requests = Handlers
         /\ \A h \in Handlers :
              /\ AnswerSeen[h] = "none" <=> pc[h] = "idle"
              /\ AnswerSeen[h] = "open" <=> pc[h] \notin Final \cup {"idle"}
              /\ h \notin Downloads => (AnswerSeen[h] = "yes" <=> pc[h] = "ok")
              /\ AnswerSeen[h] \in {"none", "open", "yes", "no"}
<1>1. Store!Requests = Handlers
  BY RequestsAssumption DEF Store!Requests, Uploads
<1>2. ASSUME NEW h \in Handlers
      PROVE  /\ AnswerSeen[h] = "none" <=> pc[h] = "idle"
             /\ AnswerSeen[h] = "open" <=> pc[h] \notin Final \cup {"idle"}
             /\ h \notin Downloads => (AnswerSeen[h] = "yes" <=> pc[h] = "ok")
             /\ AnswerSeen[h] \in {"none", "open", "yes", "no"}
  BY <1>2 DEF AnswerSeen, Succeeded, Final
<1> QED BY <1>1, <1>2

\* A download is accepted by what pc and its body say.
Accepts(phase, bytes, f) ==
  \/ phase \in {"ok", "lost"} /\ bytes = Size(f)
  \/ phase = "broken" /\ bytes + ErrorLength = Size(f)

LEMMA AcceptsIs ==
  ASSUME NEW w \in Downloads
  PROVE  /\ ClientAccepts(w) <=> Accepts(pc[w], TotalBytes(body[w]), FileOf[w])
         /\ ClientAccepts(w)' <=> Accepts(pc'[w], TotalBytes(body'[w]), FileOf[w])
<1>1. Written(w) = TotalBytes(body[w])
  BY DEF Written, TotalBytes
<1>2. Written(w)' = TotalBytes(body[w])'
  BY DEF Written, TotalBytes
<1>3. Written(w)' = TotalBytes(body'[w])
  BY <1>2
<1> QED BY <1>1, <1>3 DEF ClientAccepts, Accepts

\* The step of one request is the step of one request.
LEMMA OneIsSeen ==
  ASSUME SeenInv, SeenInv', NEW h \in Handlers,
         \A g \in Handlers : g # h => pc'[g] = pc[g],
         \A v \in Downloads : v # h => body'[v] = body[v]
  PROVE  /\ AnswerSeen' = [AnswerSeen EXCEPT ![h] = AnswerSeen'[h]]
         /\ \A v \in Downloads : v # h => GotSeen'[v] = GotSeen[v]
         /\ h \notin Downloads => GotSeen' = GotSeen
<1>1. \A v \in Downloads : v # h => (ClientAccepts(v)' <=> ClientAccepts(v))
  <2> SUFFICES ASSUME NEW v \in Downloads, v # h PROVE ClientAccepts(v)' <=> ClientAccepts(v)
    OBVIOUS
  <2>1. pc'[v] = pc[v] /\ body'[v] = body[v]
    BY ConstantFacts
  <2> QED BY <2>1, AcceptsIs
<1>2. \A g \in Handlers : g # h => AnswerSeen'[g] = AnswerSeen[g]
  <2> SUFFICES ASSUME NEW g \in Handlers, g # h PROVE AnswerSeen'[g] = AnswerSeen[g]
    OBVIOUS
  <2>1. pc'[g] = pc[g] /\ (g \in Downloads => (ClientAccepts(g)' <=> ClientAccepts(g)))
    BY <1>1
  <2>2. Succeeded(g)' <=> Succeeded(g)
    BY <2>1 DEF Succeeded
  <2> QED BY <2>1, <2>2 DEF AnswerSeen
<1>3. AnswerSeen' = [AnswerSeen EXCEPT ![h] = AnswerSeen'[h]]
  <2>1. /\ AnswerSeen = [g \in Handlers |-> AnswerSeen[g]]
        /\ AnswerSeen' = [g \in Handlers |-> AnswerSeen'[g]]
    BY DEF AnswerSeen
  <2> QED BY <1>2, <2>1
<1>4. \A v \in Downloads : v # h => GotSeen'[v] = GotSeen[v]
  BY <1>1 DEF GotSeen
<1>5. h \notin Downloads => GotSeen' = GotSeen
  <2>1. GotSeen = [v \in Downloads |-> GotSeen[v]] /\ GotSeen' = [v \in Downloads |-> GotSeen'[v]]
    BY DEF GotSeen
  <2> QED BY <1>4, <2>1
<1> QED BY <1>3, <1>4, <1>5

\* What the store's files are when files stay as they are.
LEMMA SameFiles == ASSUME files' = files PROVE FilesKnown' = FilesKnown /\ FilesKept' = FilesKept
  BY DEF FilesKnown, FilesKept

\* A step that shows nothing but, perhaps, a statement that was refused.
LEMMA HiddenStep ==
  ASSUME SeenInv, NEW h \in Handlers, refused' \in {refused, refused \cup {h}}, files' = files,
         AnswerSeen[h] = "open", AnswerSeen' = AnswerSeen, GotSeen' = GotSeen
  PROVE  Store!Next \/ UNCHANGED Store!storeVars
<1>1. h \in Store!Requests
  BY SeenFacts
<1>2. CASE refused' = refused
  BY <1>2, SameFiles DEF Store!storeVars
<1>3. CASE refused' = refused \cup {h}
  BY <1>1, <1>3, SameFiles DEF Store!Next, Store!RefuseStatement
<1> QED BY <1>2, <1>3

LEMMA UploadRefines ==
  ASSUME SeenInv, SeenInv', NEW u \in Uploads, UploadSeen(u)
  PROVE  Store!Next \/ UNCHANGED Store!storeVars
<1>1. /\ pc \in [Handlers -> Phases] /\ files \in [Files -> {"absent", "open", "committed"}]
      /\ u \in Handlers /\ u \in Files /\ u \notin Downloads /\ u \notin Deletes
      /\ u \in Store!Requests /\ Files = Uploads
  BY ConstantFacts, SeenFacts DEF SeenInv, TypeInv, RequestTypeOK, CatalogTypeOK
<1>2. AnswerSeen' = [AnswerSeen EXCEPT ![u] = AnswerSeen'[u]] /\ GotSeen' = GotSeen
  <2>1. \A g \in Handlers : g # u => pc'[g] = pc[g]
    BY <1>1 DEF UploadSeen, GoTo
  <2>2. \A v \in Downloads : v # u => body'[v] = body[v]
    BY DEF UploadSeen
  <2> QED BY <1>1, <2>1, <2>2, OneIsSeen
<1>3. AnswerSeen[u] = IF pc[u] = "idle" THEN "none"
                      ELSE IF pc[u] \notin Final THEN "open" ELSE IF pc[u] = "ok" THEN "yes" ELSE "no"
  BY <1>1 DEF AnswerSeen, Succeeded
<1>4. AnswerSeen'[u] = IF pc'[u] = "idle" THEN "none"
                       ELSE IF pc'[u] \notin Final THEN "open" ELSE IF pc'[u] = "ok" THEN "yes" ELSE "no"
  BY <1>1 DEF AnswerSeen, Succeeded
<1>5. refused' \in {refused, refused \cup {u}}
  BY DEF UploadSeen
<1>6. AnswerSeen[u] = "open" /\ AnswerSeen'[u] = "open" => AnswerSeen' = AnswerSeen
  BY <1>1, <1>2 DEF AnswerSeen
<1>7. CASE pc[u] = "idle" /\ files' = files /\ \E s \in {"unavailable", "failed"} : GoTo(u, s)
  <2>1. AnswerSeen[u] = "none" /\ AnswerSeen'[u] = "no"
    BY <1>1, <1>3, <1>4, <1>7 DEF GoTo, Final
  <2>2. Store!Refuse(u)
    BY <1>1, <1>2, <1>5, <1>7, <2>1, SameFiles DEF Store!Refuse, Store!Turn
  <2> QED BY <1>1, <2>2 DEF Store!Next
<1>8. CASE pc[u] = "idle" /\ GoTo(u, "chunk") /\ files' = [files EXCEPT ![u] = "open"]
  <2>1. AnswerSeen[u] = "none" /\ AnswerSeen'[u] = "open"
    BY <1>1, <1>3, <1>4, <1>8 DEF GoTo, Final
  <2>2. files[u] = "absent"
    BY <1>8 DEF SeenInv, DeletedInv, NoRowYet
  <2>3. FilesKnown' = FilesKnown \cup {u} /\ FilesKept' = FilesKept
    BY <1>1, <1>8, <2>2 DEF FilesKnown, FilesKept
  <2>4. Store!Begin(u)
    BY <1>1, <1>2, <1>5, <2>1, <2>3 DEF Store!Begin, Store!Turn
  <2> QED BY <1>1, <2>4 DEF Store!Next
<1>9. CASE /\ pc[u] = "chunk" /\ GoTo(u, "answer") /\ refused' = refused
           /\ files' = [files EXCEPT ![u] = IF @ = "absent" THEN @ ELSE "committed"]
  <2>1. AnswerSeen[u] = "open" /\ AnswerSeen'[u] = "open"
    BY <1>1, <1>3, <1>4, <1>9 DEF GoTo, Final
  <2>2. CASE files[u] = "absent"
    <3>1. files' = files
      BY <1>1, <1>9, <2>2
    <3> QED BY <1>1, <1>2, <1>5, <1>6, <2>1, <3>1, HiddenStep
  <2>3. CASE files[u] # "absent"
    <3>1. u \in FilesKnown /\ FilesKnown' = FilesKnown /\ FilesKept' = FilesKept \cup {u}
      BY <1>1, <1>9, <2>3 DEF FilesKnown, FilesKept
    <3>2. Store!Keep(u)
      BY <1>2, <1>6, <1>9, <2>1, <3>1 DEF Store!Keep
    <3> QED BY <1>1, <3>2 DEF Store!Next
  <2> QED BY <2>2, <2>3
<1>10. CASE \/ pc[u] = "chunk" /\ GoTo(u, "answer") /\ files' = files /\ u \in refused'
            \/ /\ pc[u] \in {"chunk", "device", "ack", "record"} /\ files' = files
               /\ \E s \in {"chunk", "device", "ack", "record", "unavailable"} : GoTo(u, s)
  <2>1. AnswerSeen[u] = "open" /\ AnswerSeen'[u] \in {"open", "no"} /\ files' = files
    BY <1>1, <1>3, <1>4, <1>10 DEF GoTo, Final
  <2>2. CASE AnswerSeen'[u] = "no"
    <3>1. Store!GiveUp(u)
      BY <1>1, <1>2, <1>5, <2>1, <2>2, SameFiles DEF Store!GiveUp, Store!Turn
    <3> QED BY <1>1, <3>1 DEF Store!Next
  <2>3. CASE AnswerSeen'[u] = "open"
    BY <1>1, <1>2, <1>5, <1>6, <2>1, <2>3, HiddenStep
  <2> QED BY <2>1, <2>2, <2>3
<1>11. CASE pc[u] = "answer" /\ GoTo(u, "ok") /\ files' = files
  <2>1. AnswerSeen[u] = "open" /\ AnswerSeen'[u] = "yes"
    BY <1>1, <1>3, <1>4, <1>11 DEF GoTo, Final
  <2>2. u \in FilesKept \/ u \notin FilesKnown \/ u \in refused
    BY <1>1, <1>11 DEF SeenInv, KeptAtAnswer, FilesKnown, FilesKept
  <2>3. Store!Store(u)
    BY <1>2, <1>5, <1>11, <2>1, <2>2, SameFiles DEF Store!Store, Store!Turn
  <2> QED BY <1>1, <2>3 DEF Store!Next
<1> QED BY <1>7, <1>8, <1>9, <1>10, <1>11 DEF UploadSeen

LEMMA DownloadRefines ==
  ASSUME SeenInv, SeenInv', ErrorIsShort, NEW w \in Downloads, DownloadSeen(w)
  PROVE  Store!Next \/ UNCHANGED Store!storeVars
<1>1. /\ pc \in [Handlers -> Phases] /\ w \in Handlers /\ w \notin Deletes /\ w \notin Files
      /\ FileOf[w] \in Files /\ w \in Store!Requests
      /\ files' = files /\ FilesKnown' = FilesKnown /\ FilesKept' = FilesKept
      /\ refused' \in {refused, refused \cup {w}}
  BY ConstantFacts, SeenFacts, SameFiles DEF SeenInv, TypeInv, RequestTypeOK, DownloadSeen
<1>2. /\ AnswerSeen' = [AnswerSeen EXCEPT ![w] = AnswerSeen'[w]]
      /\ GotSeen' = [GotSeen EXCEPT ![w] = GotSeen'[w]]
  <2>1. \A g \in Handlers : g # w => pc'[g] = pc[g]
    BY <1>1 DEF DownloadSeen, GoTo
  <2>2. \A v \in Downloads : v # w => body'[v] = body[v]
    BY DEF DownloadSeen
  <2>3. /\ AnswerSeen' = [AnswerSeen EXCEPT ![w] = AnswerSeen'[w]]
        /\ \A v \in Downloads : v # w => GotSeen'[v] = GotSeen[v]
    BY <1>1, <2>1, <2>2, OneIsSeen
  <2>4. GotSeen = [v \in Downloads |-> GotSeen[v]] /\ GotSeen' = [v \in Downloads |-> GotSeen'[v]]
    BY DEF GotSeen
  <2> QED BY <2>3, <2>4
<1>3. /\ AnswerSeen[w] = IF pc[w] = "idle" THEN "none"
                         ELSE IF pc[w] \notin Final THEN "open" ELSE IF ClientAccepts(w) THEN "yes" ELSE "no"
      /\ GotSeen[w] = IF ClientAccepts(w) THEN body[w] ELSE <<>>
  BY <1>1 DEF AnswerSeen, Succeeded, GotSeen
<1>4. /\ AnswerSeen'[w] = IF pc'[w] = "idle" THEN "none"
                          ELSE IF pc'[w] \notin Final THEN "open" ELSE IF ClientAccepts(w)' THEN "yes" ELSE "no"
      /\ GotSeen'[w] = IF ClientAccepts(w)' THEN body'[w] ELSE <<>>
  BY <1>1 DEF AnswerSeen, Succeeded, GotSeen
<1>5. /\ ClientAccepts(w) => pc[w] \in {"ok", "lost", "broken"}
      /\ ClientAccepts(w)' => pc'[w] \in {"ok", "lost", "broken"}
  BY DEF ClientAccepts
<1>6. ASSUME pc[w] \notin {"ok", "lost", "broken"}, ~ ClientAccepts(w)' PROVE GotSeen' = GotSeen
  <2>1. GotSeen'[w] = GotSeen[w]
    BY <1>3, <1>4, <1>5, <1>6
  <2> QED BY <1>2, <2>1 DEF GotSeen
<1>7. ClientAccepts(w)' => GotSeen'[w] = WholeFile(FileOf[w])
  <2> SUFFICES ASSUME ClientAccepts(w)' PROVE GotSeen'[w] = WholeFile(FileOf[w])
    OBVIOUS
  <2>1. DownloadExact'
    BY PTL, ExactIfAccepted DEF SeenInv
  <2>2. body'[w] = WholeFile(FileOf[w])
    BY <2>1 DEF DownloadExact
  <2> QED BY <1>4, <2>2
<1>8. CASE /\ pc[w] = "idle" /\ GoTo(w, "notfound") /\ body' = body
           /\ files[FileOf[w]] # "committed" \/ w \in refused'
  <2>1. pc'[w] = "notfound" /\ ~ ClientAccepts(w)'
    BY <1>1, <1>5, <1>8 DEF GoTo
  <2>2. AnswerSeen[w] = "none" /\ AnswerSeen'[w] = "no" /\ GotSeen' = GotSeen
    BY <1>3, <1>4, <1>6, <1>8, <2>1 DEF Final
  <2>3. FileOf[w] \notin FilesKept \/ w \in refused'
    BY <1>8 DEF FilesKept
  <2>4. Store!Refuse(w)
    BY <1>1, <1>2, <2>2, <2>3 DEF Store!Refuse, Store!Turn
  <2> QED BY <1>1, <2>4 DEF Store!Next
<1>9. CASE pc[w] = "idle" /\ GoTo(w, "rows") /\ files[FileOf[w]] = "committed"
  <2>1. pc'[w] = "rows" /\ ~ ClientAccepts(w)'
    BY <1>1, <1>5, <1>9 DEF GoTo
  <2>2. AnswerSeen[w] = "none" /\ AnswerSeen'[w] = "open" /\ GotSeen' = GotSeen
    BY <1>3, <1>4, <1>6, <1>9, <2>1 DEF Final
  <2>3. FileOf[w] \in FilesKept
    BY <1>1, <1>9 DEF FilesKept
  <2>4. Store!Begin(w)
    BY <1>1, <1>2, <2>2, <2>3 DEF Store!Begin, Store!Turn
  <2> QED BY <1>1, <2>4 DEF Store!Next
<1>10. CASE /\ pc[w] \in {"rows", "locate", "request", "data"}
            /\ \E s \in {"rows", "locate", "request", "data"} : GoTo(w, s)
  <2>1. pc'[w] \in {"rows", "locate", "request", "data"} /\ ~ ClientAccepts(w)'
    BY <1>1, <1>5, <1>10 DEF GoTo
  <2>2. AnswerSeen[w] = "open" /\ AnswerSeen'[w] = "open" /\ GotSeen' = GotSeen
    BY <1>3, <1>4, <1>6, <1>10, <2>1 DEF Final
  <2>3. AnswerSeen' = AnswerSeen
    BY <1>2, <2>2 DEF AnswerSeen
  <2> QED BY <1>1, <2>2, <2>3, HiddenStep
<1>11. CASE /\ pc[w] \in {"rows", "locate", "request", "data"} /\ body' = body
            /\ \E s \in {"ok", "broken", "unavailable", "failed"} : GoTo(w, s)
  <2>1. pc'[w] \in {"ok", "broken", "unavailable", "failed"}
    BY <1>1, <1>11 DEF GoTo
  <2>2. AnswerSeen[w] = "open" /\ AnswerSeen'[w] = IF ClientAccepts(w)' THEN "yes" ELSE "no"
    BY <1>3, <1>4, <1>11, <2>1 DEF Final
  <2>3. CASE ClientAccepts(w)'
    <3>1. Store!Read(w)
      BY <1>1, <1>2, <1>7, <2>2, <2>3 DEF Store!Read, Store!Turn
    <3> QED BY <3>1 DEF Store!Next
  <2>4. CASE ~ ClientAccepts(w)'
    <3>1. GotSeen' = GotSeen
      BY <1>6, <1>11, <2>4
    <3>2. Store!GiveUp(w)
      BY <1>1, <1>2, <2>2, <2>4, <3>1 DEF Store!GiveUp, Store!Turn
    <3> QED BY <1>1, <3>2 DEF Store!Next
  <2> QED BY <2>3, <2>4
<1> QED BY <1>8, <1>9, <1>10, <1>11 DEF DownloadSeen

LEMMA DeleteRefines ==
  ASSUME SeenInv, SeenInv', NEW x \in Deletes, DeleteSeen(x)
  PROVE  Store!Next \/ UNCHANGED Store!storeVars
<1>1. /\ pc \in [Handlers -> Phases] /\ files \in [Files -> {"absent", "open", "committed"}]
      /\ x \in Handlers /\ x \notin Downloads /\ x \notin Files /\ FileOf[x] \in Files
      /\ x \in Store!Requests
  BY ConstantFacts, SeenFacts DEF SeenInv, TypeInv, RequestTypeOK, CatalogTypeOK
<1>2. AnswerSeen' = [AnswerSeen EXCEPT ![x] = AnswerSeen'[x]] /\ GotSeen' = GotSeen
  <2>1. \A g \in Handlers : g # x => pc'[g] = pc[g]
    BY <1>1 DEF DeleteSeen, GoTo
  <2>2. \A v \in Downloads : v # x => body'[v] = body[v]
    BY DEF DeleteSeen
  <2> QED BY <1>1, <2>1, <2>2, OneIsSeen
<1>3. AnswerSeen[x] = IF pc[x] = "idle" THEN "none"
                      ELSE IF pc[x] \notin Final THEN "open" ELSE IF pc[x] = "ok" THEN "yes" ELSE "no"
  BY <1>1 DEF AnswerSeen, Succeeded
<1>4. AnswerSeen'[x] = IF pc'[x] = "idle" THEN "none"
                       ELSE IF pc'[x] \notin Final THEN "open" ELSE IF pc'[x] = "ok" THEN "yes" ELSE "no"
  BY <1>1 DEF AnswerSeen, Succeeded
<1>5. refused' \in {refused, refused \cup {x}}
  BY DEF DeleteSeen
<1>6. AnswerSeen[x] = "open" /\ AnswerSeen'[x] = "open" => AnswerSeen' = AnswerSeen
  BY <1>1, <1>2 DEF AnswerSeen
<1>7. CASE /\ pc[x] = "idle" /\ GoTo(x, "notfound") /\ files' = files
           /\ files[FileOf[x]] = "absent" \/ x \in refused'
  <2>1. AnswerSeen[x] = "none" /\ AnswerSeen'[x] = "no"
    BY <1>1, <1>3, <1>4, <1>7 DEF GoTo, Final
  <2>2. FileOf[x] \notin FilesKnown \/ x \in refused'
    BY <1>7 DEF FilesKnown
  <2>3. Store!Refuse(x)
    BY <1>1, <1>2, <1>5, <1>7, <2>1, <2>2, SameFiles DEF Store!Refuse, Store!Turn
  <2> QED BY <1>1, <2>3 DEF Store!Next
<1>8. CASE pc[x] = "idle" /\ GoTo(x, "targets") /\ files[FileOf[x]] # "absent" /\ files' = files
  <2>1. AnswerSeen[x] = "none" /\ AnswerSeen'[x] = "open"
    BY <1>1, <1>3, <1>4, <1>8 DEF GoTo, Final
  <2>2. FileOf[x] \in FilesKnown
    BY <1>1, <1>8 DEF FilesKnown
  <2>3. Store!Begin(x)
    BY <1>1, <1>2, <1>5, <1>8, <2>1, <2>2, SameFiles DEF Store!Begin, Store!Turn
  <2> QED BY <1>1, <2>3 DEF Store!Next
<1>9. CASE /\ pc[x] \in {"targets", "notify", "deletion", "locations", "chunks", "file"} /\ files' = files
           /\ \E s \in {"targets", "notify", "deletion", "locations", "chunks", "file"} : GoTo(x, s)
  <2>1. AnswerSeen[x] = "open" /\ AnswerSeen'[x] = "open"
    BY <1>1, <1>3, <1>4, <1>9 DEF GoTo, Final
  <2> QED BY <1>1, <1>2, <1>5, <1>6, <1>9, <2>1, HiddenStep
<1>10. CASE /\ pc[x] = "file" /\ GoTo(x, "answer") /\ refused' = refused
            /\ files' = [files EXCEPT ![FileOf[x]] = "absent"]
  <2>1. AnswerSeen[x] = "open" /\ AnswerSeen'[x] = "open"
    BY <1>1, <1>3, <1>4, <1>10 DEF GoTo, Final
  <2>2. FilesKnown' = FilesKnown \ {FileOf[x]} /\ FilesKept' = FilesKept \ {FileOf[x]}
    BY <1>1, <1>10 DEF FilesKnown, FilesKept
  <2>3. Store!Drop(x)
    BY <1>2, <1>6, <1>10, <2>1, <2>2 DEF Store!Drop
  <2> QED BY <2>3 DEF Store!Next
<1>11. CASE pc[x] = "file" /\ GoTo(x, "failed") /\ files' = files /\ x \in refused'
  <2>1. AnswerSeen[x] = "open" /\ AnswerSeen'[x] = "no"
    BY <1>1, <1>3, <1>4, <1>11 DEF GoTo, Final
  <2>2. Store!GiveUp(x)
    BY <1>2, <1>5, <1>11, <2>1, SameFiles DEF Store!GiveUp, Store!Turn
  <2> QED BY <1>1, <2>2 DEF Store!Next
<1>12. CASE pc[x] = "answer" /\ GoTo(x, "ok") /\ files' = files
  <2>1. AnswerSeen[x] = "open" /\ AnswerSeen'[x] = "yes"
    BY <1>1, <1>3, <1>4, <1>12 DEF GoTo, Final
  <2>2. FileOf[x] \notin FilesKnown
    BY <1>12 DEF SeenInv, DeletedInv, GoneAtAnswer, FilesKnown
  <2>3. Store!Remove(x)
    BY <1>2, <1>5, <1>12, <2>1, <2>2, SameFiles DEF Store!Remove, Store!Turn
  <2> QED BY <2>3 DEF Store!Next
<1> QED BY <1>7, <1>8, <1>9, <1>10, <1>11, <1>12 DEF DeleteSeen

\* The server stops: the downloads whose client has all of the file are done.
LEMMA RestartRefines ==
  ASSUME SeenInv, SeenInv', ErrorIsShort, RestartSeen
  PROVE  Store!Stop
<1> DEFINE done == {w \in Downloads : pc[w] \notin Final \cup {"idle"} /\ ClientAccepts(w)'}
<1>1. /\ Downloads \subseteq Handlers /\ Store!Requests = Handlers
      /\ \A h \in Handlers \ Downloads : h \in Uploads \/ h \in Deletes
  BY SeenFacts, RequestsAssumption
<1>2. done \in SUBSET {w \in Downloads : AnswerSeen[w] = "open"}
  BY <1>1, SeenFacts
<1>3. /\ files' = files /\ body' = body /\ refused' = refused
      /\ \A h \in Handlers : pc'[h] = IF pc[h] \in Final \cup {"idle"} THEN pc[h] ELSE "lost"
  BY Zenon DEF RestartSeen
<1>4. FilesKnown' = FilesKnown /\ FilesKept' = FilesKept
  BY <1>3, SameFiles
<1>5. \A w \in Downloads : pc[w] \in Final \cup {"idle"} => (ClientAccepts(w)' <=> ClientAccepts(w))
  <2> SUFFICES ASSUME NEW w \in Downloads, pc[w] \in Final \cup {"idle"}
               PROVE ClientAccepts(w)' <=> ClientAccepts(w)
    OBVIOUS
  <2>1. pc'[w] = pc[w] /\ body'[w] = body[w]
    BY <1>1, <1>3
  <2> QED BY <2>1, AcceptsIs
<1>6. \A w \in Downloads : pc[w] \notin Final \cup {"idle"} => ~ ClientAccepts(w)
  BY DEF ClientAccepts, Final
<1>7. ASSUME NEW h \in Handlers
      PROVE  AnswerSeen'[h] = IF AnswerSeen[h] # "open" THEN AnswerSeen[h]
                              ELSE IF h \in done THEN "yes" ELSE "no"
  <2>1. AnswerSeen'[h] = IF pc'[h] = "idle" THEN "none" ELSE IF pc'[h] \notin Final THEN "open"
                         ELSE IF Succeeded(h)' THEN "yes" ELSE "no"
    BY DEF AnswerSeen
  <2>2. AnswerSeen[h] = IF pc[h] = "idle" THEN "none" ELSE IF pc[h] \notin Final THEN "open"
                        ELSE IF Succeeded(h) THEN "yes" ELSE "no"
    BY DEF AnswerSeen
  <2>3. CASE pc[h] \in Final \cup {"idle"}
    <3>1. pc'[h] = pc[h] /\ AnswerSeen[h] # "open"
      BY <1>3, <2>3, SeenFacts
    <3>2. Succeeded(h)' <=> Succeeded(h)
      BY <1>5, <2>3, <3>1 DEF Succeeded
    <3> QED BY <2>1, <2>2, <3>1, <3>2
  <2>4. CASE pc[h] \notin Final \cup {"idle"}
    <3>1. pc'[h] = "lost" /\ AnswerSeen[h] = "open"
      BY <1>3, <2>4, SeenFacts
    <3>2. Succeeded(h)' <=> h \in done
      BY <2>4, <3>1 DEF Succeeded
    <3> HIDE DEF done
    <3> QED BY <2>1, <3>1, <3>2 DEF Final
  <2> QED BY <2>3, <2>4
<1>8. ASSUME NEW w \in Downloads
      PROVE  GotSeen'[w] = IF w \in done THEN WholeFile(FileOf[w]) ELSE GotSeen[w]
  <2>1. /\ GotSeen'[w] = IF ClientAccepts(w)' THEN body'[w] ELSE <<>>
        /\ GotSeen[w] = IF ClientAccepts(w) THEN body[w] ELSE <<>>
    BY DEF GotSeen
  <2>2. CASE w \in done
    <3>1. DownloadExact'
      BY PTL, ExactIfAccepted DEF SeenInv
    <3>2. body'[w] = WholeFile(FileOf[w])
      BY <2>2, <3>1 DEF DownloadExact
    <3> QED BY <2>1, <2>2, <3>2
  <2>3. CASE w \notin done
    <3>1. ClientAccepts(w)' <=> ClientAccepts(w)
      BY <1>5, <1>6, <2>3
    <3> QED BY <1>3, <2>1, <2>3, <3>1
  <2> QED BY <2>2, <2>3
<1>9. AnswerSeen' = [h \in Store!Requests |-> IF AnswerSeen[h] # "open" THEN AnswerSeen[h]
                                              ELSE IF h \in done THEN "yes" ELSE "no"]
  <2>1. AnswerSeen' = [h \in Handlers |-> AnswerSeen'[h]]
    BY DEF AnswerSeen
  <2> HIDE DEF done
  <2> QED BY <1>1, <1>7, <2>1
<1>10. GotSeen' = [w \in Downloads |-> IF w \in done THEN [f \in Files |-> WholeFile(f)][FileOf[w]]
                                       ELSE GotSeen[w]]
  <2>1. GotSeen' = [w \in Downloads |-> GotSeen'[w]]
    BY DEF GotSeen
  <2>2. \A w \in Downloads : [f \in Files |-> WholeFile(f)][FileOf[w]] = WholeFile(FileOf[w])
    BY ConstantFacts
  <2> HIDE DEF done
  <2> QED BY <1>8, <2>1, <2>2
<1> HIDE DEF done
<1> QED BY <1>2, <1>3, <1>4, <1>9, <1>10 DEF Store!Stop

LEMMA ServiceStepRefines ==
  ErrorIsShort /\ SeenInv /\ SeenInv' /\ [Next]_vars => [Store!Next]_(Store!storeVars)
<1> SUFFICES ASSUME ErrorIsShort, SeenInv, SeenInv', [Next]_vars
             PROVE  Store!Next \/ UNCHANGED Store!storeVars
  OBVIOUS
<1>1. CASE RestartSeen
  BY <1>1, RestartRefines DEF Store!Next
<1>2. CASE NothingSeen
  <2>1. \A w \in Downloads : ClientAccepts(w)' <=> ClientAccepts(w)
    <3> SUFFICES ASSUME NEW w \in Downloads PROVE ClientAccepts(w)' <=> ClientAccepts(w)
      OBVIOUS
    <3>1. pc'[w] = pc[w] /\ body'[w] = body[w]
      BY <1>2 DEF NothingSeen
    <3> QED BY <3>1, AcceptsIs
  <2>2. \A h \in Handlers : Succeeded(h)' <=> Succeeded(h)
    BY <1>2, <2>1 DEF NothingSeen, Succeeded
  <2>3. FilesKnown' = FilesKnown /\ FilesKept' = FilesKept /\ GotSeen' = GotSeen /\ refused' = refused
    BY <1>2, <2>1 DEF NothingSeen, FilesKnown, FilesKept, GotSeen
  <2>4. AnswerSeen' = AnswerSeen
    BY <1>2, <2>2 DEF NothingSeen, AnswerSeen
  <2> QED BY <2>3, <2>4 DEF Store!storeVars
<1> QED BY <1>1, <1>2, StepsSeen, UploadRefines, DownloadRefines, DeleteRefines DEF SeenInv

\* The service implements the store of whole texts, whatever requests overlap,
\* time out, are retried or answered late, whatever statements the database
\* refuses, and wherever the server and the agents stop: what clients see of it
\* is a behaviour of FileStore.
THEOREM FileServiceImplementsStore ==
  ASSUME ErrorIsShort
  PROVE  Spec => StoreSpec
<1>1. Init => Store!Init
  <2> SUFFICES ASSUME Init PROVE Store!Init
    OBVIOUS
  <2>1. Store!Requests = Handlers /\ \A h \in Handlers : pc[h] = "idle"
    BY RequestsAssumption DEF Init, Store!Requests, Uploads
  <2>2. AnswerSeen = [h \in Store!Requests |-> "none"]
    BY <2>1 DEF AnswerSeen
  <2>3. GotSeen = [w \in Downloads |-> <<>>]
    BY DEF Init, GotSeen
  <2>4. FilesKnown = {} /\ FilesKept = {} /\ refused = {}
    BY DEF Init, CatalogInit, FilesKnown, FilesKept
  <2> QED BY <2>2, <2>3, <2>4 DEF Store!Init
<1>2. Init => SeenInv
  BY InitType, InitBody, InitDeleted, InitKeptAtAnswer DEF SeenInv
<1>3. SeenInv /\ [Next]_vars => SeenInv'
  BY NextType, NextBody, NextDeleted, NextKeptAtAnswer DEF SeenInv
<1>4. ErrorIsShort
  OBVIOUS
<1>5. SeenInv /\ SeenInv' /\ [Next]_vars => [Store!Next]_(Store!storeVars)
  BY <1>4, ServiceStepRefines
<1> QED BY <1>1, <1>2, <1>3, <1>5, PTL DEF Spec, StoreSpec, Store!Spec

=============================================================================
