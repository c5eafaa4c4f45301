---------------------------- MODULE FileService ----------------------------
(***************************************************************************)
(* The handlers UploadFile, DownloadFile and DeleteFile of the server      *)
(* (server/api/upload.go, download.go), each request a process of its own, *)
(* over the catalog (Catalog.tla) and the agents (Agent.tla).  A step is   *)
(* what a handler does between two points where others can be seen to act: *)
(* one statement, one message offered to an inbox, one wait that ends.     *)
(*                                                                         *)
(* Devices come online and never go offline again: no statement of the     *)
(* server sets devices.online back to 0.  A device that is switched off is *)
(* an agent that takes no step.                                            *)
(*                                                                         *)
(* One user, whose files and devices these are.  A wait may time out at    *)
(* any moment, and an injection may be dropped at any moment (the buffer   *)
(* of ten messages stayed full for 15 s).  A statement may be refused at    *)
(* any moment too (a locked or full database); what a handler then does    *)
(* differs from one statement to the next, and most errors are ignored.    *)
(***************************************************************************)
EXTENDS Agent, FiniteSetsExt, SequencesExt

CONSTANTS
  Downloads,    \* requests of DownloadFile
  Deletes,      \* requests of DeleteFile
  FileOf,       \* the file a download or a delete names
  Length,       \* the bytes of each chunk
  ErrorLength,  \* the bytes of the text http.Error writes
  MaxFaults     \* bound: restarts of the server and of agents, and refused
                \* statements, together

Uploads == Files   \* requests of UploadFile, each with a fresh file id

ASSUME RequestsAssumption ==
  /\ Handlers = Uploads \cup Downloads \cup Deletes
  /\ Uploads \cap Downloads = {} /\ Uploads \cap Deletes = {} /\ Downloads \cap Deletes = {}
  /\ FileOf \in [Downloads \cup Deletes -> Files]
  /\ Length \in [Chunks -> Nat \ {0}]
  /\ ErrorLength \in Nat \ {0}
  /\ MaxFaults \in Nat
  /\ IsFiniteSet(Devices)

VARIABLES
  online,      \* the devices whose online column is 1
  pc,          \* where each request is
  devices,     \* an upload's devices, in the order SELECT gave them
  sequence,    \* the number of chunks an upload has stored
  tries,       \* how many devices it has tried for the next one
  rows,        \* a download's chunks that are still to be written
  candidates,  \* the devices it has not tried for the next one
  body,        \* what it has written
  targets,     \* a delete's chunks and devices still to be notified
  ids,         \* the chunks it collected for deleted_files
  refused,     \* history: the requests of which a statement was refused
  faults       \* restarts and refused statements so far

uploadVars == <<devices, sequence, tries>>
downloadVars == <<rows, candidates, body>>
deleteVars == <<targets, ids>>
requestVars == <<uploadVars, downloadVars, deleteVars>>
faultVars == <<refused, faults>>
vars == <<catalogVars, relayVars, diskVars, loopVars, online, pc, requestVars, faultVars>>

Phases ==
  { "idle",         \* not received yet
    "chunk",        \* upload: read the next chunk, or finish
    "device",       \* upload: offer the chunk to the next device
    "ack",          \* upload: waiting for an acknowledgement
    "record",       \* upload: the chunk is stored, as far as it knows
    "rows",         \* download: has the file's row
    "locate",       \* download: next row
    "request",      \* download: ask the next device
    "data",         \* download: waiting for the chunk
    "targets",      \* delete: has the file's row
    "notify",       \* delete: commands to the devices
    "deletion", "locations", "chunks", "file",  \* delete: its statements
    "answer",       \* upload, delete: the last write is done
    "ok",           \* answered 200
    "notfound",     \* answered 404
    "unavailable",  \* answered 503 or 504
    "failed",       \* answered 500
    "broken",       \* http.Error after the body had begun
    "lost" }        \* the server stopped

Final == {"ok", "notfound", "unavailable", "failed", "broken", "lost"}

Pieces == [chunk : Chunks, data : {"whole", "part", "none"}]

TypeOK ==
  /\ CatalogTypeOK
  /\ AgentTypeOK
  /\ online \subseteq Devices
  /\ pc \in [Handlers -> Phases]
  /\ devices \in [Uploads -> Seq(Devices)]
  /\ sequence \in [Uploads -> Nat]
  /\ tries \in [Uploads -> Nat]
  /\ rows \in [Downloads -> SUBSET [chunk : Chunks, sequence : Nat]]
  /\ candidates \in [Downloads -> SUBSET Devices]
  /\ body \in [Downloads -> Seq(Pieces)]
  /\ targets \in [Deletes -> SUBSET (Chunks \X Devices)]
  /\ ids \in [Deletes -> SUBSET Chunks]
  /\ refused \subseteq Handlers
  /\ faults \in 0..MaxFaults

Init ==
  /\ CatalogInit
  /\ AgentInit
  /\ online = {}
  /\ pc = [h \in Handlers |-> "idle"]
  /\ devices = [u \in Uploads |-> <<>>]
  /\ sequence = [u \in Uploads |-> 0]
  /\ tries = [u \in Uploads |-> 0]
  /\ rows = [w \in Downloads |-> {}]
  /\ candidates = [w \in Downloads |-> {}]
  /\ body = [w \in Downloads |-> <<>>]
  /\ targets = [x \in Deletes |-> {}]
  /\ ids = [x \in Deletes |-> {}]
  /\ refused = {}
  /\ faults = 0

-----------------------------------------------------------------------------
(* What the handlers share.                                                *)

GoTo(h, phase) == pc' = [pc EXCEPT ![h] = phase]

\* injectRelayMessage returned true.
Inject(h, d, type, c) ==
  /\ inbox' = [inbox EXCEPT ![d] = @ \cup {[type |-> type, chunk |-> c, by |-> h]}]
  /\ UNCHANGED <<answers, sentOn>>

\* waitForRelayData returned a message.
TakeAnswer(a) ==
  /\ answers' = answers \ {a}
  /\ UNCHANGED <<inbox, sentOn>>

\* The database refuses a statement of the request.
Refusal(h) ==
  /\ faults < MaxFaults
  /\ faults' = faults + 1
  /\ refused' = refused \cup {h}

\* A write whose error nobody looks at.
Exec(h, statement) ==
  \/ statement /\ UNCHANGED faultVars
  \/ Refusal(h) /\ UNCHANGED catalogVars

\* A device registers, is claimed or sends a heartbeat.
ComeOnline(d) ==
  /\ d \notin online
  /\ online' = online \cup {d}
  /\ UNCHANGED <<catalogVars, relayVars, diskVars, loopVars, pc, requestVars, faultVars>>

-----------------------------------------------------------------------------
(* UploadFile.                                                             *)

\* The chunk the upload is at, and the device whose turn it is: the rotation
\* starts at the chunk's own index.
NextChunk(u) == Content[u][sequence[u] + 1]
CurrentDevice(u) == devices[u][((sequence[u] + tries[u]) % Len(devices[u])) + 1]

\* No device is online: 503 before anything is written.
UploadRefused(u) ==
  /\ pc[u] = "idle"
  /\ online = {}
  /\ GoTo(u, "unavailable")
  /\ UNCHANGED <<catalogVars, relayVars, diskVars, uploadVars>>

\* The devices are read once, for the whole upload; nobody else knows the id of
\* the row that is then inserted.
UploadBegin(u) ==
  /\ pc[u] = "idle"
  /\ online # {}
  /\ \E order \in SetToSeqs(online) : devices' = [devices EXCEPT ![u] = order]
  /\ InsertFile(u)
  /\ GoTo(u, "chunk")
  /\ UNCHANGED <<relayVars, diskVars, sequence, tries>>

\* The chunk's row is written before the chunk is offered to anyone.
UploadChunk(u) ==
  /\ pc[u] = "chunk"
  /\ sequence[u] < Len(Content[u])
  /\ Exec(u, InsertChunk(NextChunk(u), u, sequence[u]))
  /\ tries' = [tries EXCEPT ![u] = 0]
  /\ GoTo(u, "device")
  /\ UNCHANGED <<relayVars, diskVars, devices, sequence>>

TryNextDevice(u) ==
  /\ tries' = [tries EXCEPT ![u] = @ + 1]
  /\ GoTo(u, "device")

\* An agent's turn: the STORE is in its inbox.
UploadStore(u) ==
  /\ pc[u] = "device"
  /\ tries[u] < Len(devices[u])
  /\ CurrentDevice(u) \in Agents
  /\ Inject(u, CurrentDevice(u), "STORE", NextChunk(u))
  /\ GoTo(u, "ack")
  /\ UNCHANGED <<catalogVars, diskVars, uploadVars>>

\* Google Drive's turn: the chunk is uploaded directly.
UploadToDrive(u) ==
  /\ pc[u] = "device"
  /\ tries[u] < Len(devices[u])
  /\ CurrentDevice(u) \notin Agents
  /\ stored' = [stored EXCEPT ![CurrentDevice(u)][NextChunk(u)] = "whole"]
  /\ saved' = saved \cup {<<NextChunk(u), CurrentDevice(u)>>}
  /\ GoTo(u, "record")
  /\ UNCHANGED <<catalogVars, relayVars, uploadVars>>

\* The injection was dropped, or Google Drive refused the chunk.
UploadDeviceFails(u) ==
  /\ pc[u] = "device"
  /\ tries[u] < Len(devices[u])
  /\ TryNextDevice(u)
  /\ UNCHANGED <<catalogVars, relayVars, diskVars, devices, sequence>>

\* Any acknowledgement of this chunk will do: it names no device.
UploadAck(u) ==
  /\ pc[u] = "ack"
  /\ \E a \in answers : a.key = <<"ack", NextChunk(u)>> /\ TakeAnswer(a)
  /\ GoTo(u, "record")
  /\ UNCHANGED <<catalogVars, diskVars, uploadVars>>

\* The clean-up goroutine of an earlier acknowledgement of this chunk closes
\* the channel: waitForRelayData returns no data and no error.
UploadWoken(u) ==
  /\ pc[u] = "ack"
  /\ <<"ack", NextChunk(u)>> \in sentOn
  /\ GoTo(u, "record")
  /\ UNCHANGED <<catalogVars, relayVars, diskVars, uploadVars>>

\* A retry that goes to the same device again.
UploadAckTimeoutSame(u) ==
  /\ pc[u] = "ack"
  /\ GoTo(u, "device")
  /\ UNCHANGED <<catalogVars, relayVars, diskVars, uploadVars>>

UploadAckTimeout(u) ==
  /\ pc[u] = "ack"
  /\ TryNextDevice(u)
  /\ UNCHANGED <<catalogVars, relayVars, diskVars, devices, sequence>>

\* The device's location is recorded and the next chunk is due.
UploadRecord(u) ==
  /\ pc[u] = "record"
  /\ Exec(u, InsertLocation(NextChunk(u), CurrentDevice(u)))
  /\ sequence' = [sequence EXCEPT ![u] = @ + 1]
  /\ GoTo(u, "chunk")
  /\ UNCHANGED <<relayVars, diskVars, devices, tries>>

\* Every device was tried: 503, and the rows written so far stay.
UploadUnavailable(u) ==
  /\ pc[u] = "device"
  /\ tries[u] = Len(devices[u])
  /\ GoTo(u, "unavailable")
  /\ UNCHANGED <<catalogVars, relayVars, diskVars, uploadVars>>

\* End of the file: the row gets its size.
UploadCommit(u) ==
  /\ pc[u] = "chunk"
  /\ sequence[u] = Len(Content[u])
  /\ Exec(u, SetSize(u))
  /\ GoTo(u, "answer")
  /\ UNCHANGED <<relayVars, diskVars, uploadVars>>

\* The client gets its 200, whatever became of the last statement.
UploadAnswer(u) ==
  /\ pc[u] = "answer"
  /\ GoTo(u, "ok")
  /\ UNCHANGED <<catalogVars, relayVars, diskVars, uploadVars>>

\* What no step of an upload changes.
UploadFrame == UNCHANGED <<loopVars, online, downloadVars, deleteVars>>

UploadWrites(u) == UploadChunk(u) \/ UploadRecord(u) \/ UploadCommit(u)

UploadActs(u) ==
  \/ UploadStore(u)
  \/ UploadToDrive(u)
  \/ UploadDeviceFails(u)
  \/ UploadAck(u)
  \/ UploadWoken(u)
  \/ UploadAckTimeout(u)
  \/ UploadUnavailable(u)
  \/ UploadAnswer(u)

UploadStep(u) == UploadWrites(u) \/ (UploadActs(u) /\ UNCHANGED faultVars)

-----------------------------------------------------------------------------
(* DownloadFile.                                                           *)

\* A Scan that takes a NULL size.
DownloadBeginUnsized(w) ==
  /\ pc[w] = "idle"
  /\ files[FileOf[w]] # "absent"
  /\ GoTo(w, "rows")
  /\ UNCHANGED <<relayVars, downloadVars>>

\* No row, or a row whose size is NULL, which Scan rejects: 404.
DownloadRefused(w) ==
  /\ pc[w] = "idle"
  /\ files[FileOf[w]] # "committed"
  /\ GoTo(w, "notfound")
  /\ UNCHANGED <<relayVars, downloadVars>>

DownloadBegin(w) ==
  /\ pc[w] = "idle"
  /\ files[FileOf[w]] = "committed"
  /\ GoTo(w, "rows")
  /\ UNCHANGED <<relayVars, downloadVars>>

\* A second statement reads the chunks: a snapshot for the whole download.
DownloadRows(w) ==
  /\ pc[w] = "rows"
  /\ rows' = [rows EXCEPT ![w] =
       {[chunk |-> c, sequence |-> chunks[c].sequence] : c \in ChunksOf(FileOf[w])}]
  /\ GoTo(w, "locate")
  /\ UNCHANGED <<relayVars, candidates, body>>

\* It fails: 500.
DownloadRowsFail(w) ==
  /\ pc[w] = "rows"
  /\ Refusal(w)
  /\ GoTo(w, "failed")
  /\ UNCHANGED <<relayVars, downloadVars>>

\* Rows read without ORDER BY.
FirstRowUnordered(w) == CHOOSE r \in rows[w] : \A q \in rows[w] : r.sequence >= q.sequence

\* ORDER BY sequence ASC.
FirstRow(w) == CHOOSE r \in rows[w] : \A q \in rows[w] : r.sequence <= q.sequence

\* The locations of the next chunk are read when its turn comes; there are none
\* if that fails.
DownloadLocate(w) ==
  /\ pc[w] = "locate"
  /\ rows[w] # {}
  /\ \/ /\ candidates' = [candidates EXCEPT ![w] =
                           {d \in online : <<FirstRow(w).chunk, d>> \in locations}]
        /\ UNCHANGED faultVars
     \/ candidates' = [candidates EXCEPT ![w] = {}] /\ Refusal(w)
  /\ GoTo(w, "request")
  /\ UNCHANGED <<relayVars, rows, body>>

\* An agent is sent a RETRIEVE.
DownloadRequest(w) ==
  /\ pc[w] = "request"
  /\ \E d \in candidates[w] \cap Agents :
       /\ Inject(w, d, "RETRIEVE", FirstRow(w).chunk)
       /\ candidates' = [candidates EXCEPT ![w] = @ \ {d}]
  /\ GoTo(w, "data")
  /\ UNCHANGED <<rows, body>>

\* The injection was dropped, or Google Drive failed: on to the next device.
DownloadDeviceFails(w) ==
  /\ pc[w] = "request"
  /\ \E d \in candidates[w] : candidates' = [candidates EXCEPT ![w] = @ \ {d}]
  /\ UNCHANGED <<relayVars, pc, rows, body>>

\* What was received is written as it is, and the next row is due.
WriteChunk(w, data) ==
  /\ body' = [body EXCEPT ![w] = Append(@, [chunk |-> FirstRow(w).chunk, data |-> data])]
  /\ rows' = [rows EXCEPT ![w] = @ \ {FirstRow(w)}]
  /\ GoTo(w, "locate")

DownloadFromDrive(w) ==
  /\ pc[w] = "request"
  /\ \E d \in candidates[w] \ Agents :
       stored[d][FirstRow(w).chunk] # "none" /\ WriteChunk(w, stored[d][FirstRow(w).chunk])
  /\ UNCHANGED <<relayVars, candidates>>

\* A handler that takes any chunk for the one it waits for.
DownloadDataAny(w) ==
  /\ pc[w] = "data"
  /\ \E a \in answers : /\ a.key[1] = "chunk"
                        /\ TakeAnswer(a)
                        /\ body' = [body EXCEPT ![w] = Append(@, [chunk |-> a.key[2], data |-> a.data])]
                        /\ rows' = [rows EXCEPT ![w] = @ \ {FirstRow(w)}]
                        /\ GoTo(w, "locate")
  /\ UNCHANGED candidates

DownloadData(w) ==
  /\ pc[w] = "data"
  /\ \E a \in answers : /\ a.key = <<"chunk", FirstRow(w).chunk>>
                        /\ TakeAnswer(a)
                        /\ WriteChunk(w, a.data)
  /\ UNCHANGED candidates

\* The clean-up goroutine of an earlier answer closes the channel: nil data.
DownloadWoken(w) ==
  /\ pc[w] = "data"
  /\ <<"chunk", FirstRow(w).chunk>> \in sentOn
  /\ WriteChunk(w, "none")
  /\ UNCHANGED <<relayVars, candidates>>

DownloadTimeout(w) ==
  /\ pc[w] = "data"
  /\ GoTo(w, "request")
  /\ UNCHANGED <<relayVars, downloadVars>>

\* No device is left for the chunk: http.Error, which is a status of its own
\* only while nothing has been written.
DownloadExhausted(w) ==
  /\ pc[w] = "request"
  /\ candidates[w] = {}
  /\ GoTo(w, IF body[w] = <<>> THEN "unavailable" ELSE "broken")
  /\ UNCHANGED <<relayVars, downloadVars>>

DownloadEnd(w) ==
  /\ pc[w] = "locate"
  /\ rows[w] = {}
  /\ GoTo(w, "ok")
  /\ UNCHANGED <<relayVars, downloadVars>>

\* What no step of a download changes.
DownloadFrame == UNCHANGED <<catalogVars, diskVars, loopVars, online, uploadVars, deleteVars>>

DownloadActs(w) ==
  \/ DownloadRows(w)
  \/ DownloadRequest(w)
  \/ DownloadDeviceFails(w)
  \/ DownloadFromDrive(w)
  \/ DownloadData(w)
  \/ DownloadWoken(w)
  \/ DownloadTimeout(w)
  \/ DownloadExhausted(w)
  \/ DownloadEnd(w)

DownloadStep(w) ==
  \/ DownloadActs(w) /\ UNCHANGED faultVars
  \/ DownloadRowsFail(w)
  \/ DownloadLocate(w)

-----------------------------------------------------------------------------
(* DeleteFile.                                                             *)

DeleteRefused(x) ==
  /\ pc[x] = "idle"
  /\ files[FileOf[x]] = "absent"
  /\ GoTo(x, "notfound")
  /\ UNCHANGED <<catalogVars, relayVars, diskVars, deleteVars>>

\* Any row will do, also one whose upload has not finished.
DeleteBegin(x) ==
  /\ pc[x] = "idle"
  /\ files[FileOf[x]] # "absent"
  /\ GoTo(x, "targets")
  /\ UNCHANGED <<catalogVars, relayVars, diskVars, deleteVars>>

\* A second statement finds the locations, or none if it fails.
DeleteTargets(x) ==
  /\ pc[x] = "targets"
  /\ \/ /\ targets' = [targets EXCEPT ![x] = {l \in locations : l[1] \in ChunksOf(FileOf[x])}]
        /\ UNCHANGED faultVars
     \/ targets' = [targets EXCEPT ![x] = {}] /\ Refusal(x)
  /\ GoTo(x, "notify")
  /\ UNCHANGED <<catalogVars, relayVars, diskVars, ids>>

\* The device is told, if its inbox has room: the result is not looked at.
DeleteNotify(x) ==
  /\ pc[x] = "notify"
  /\ \E l \in targets[x] :
       /\ targets' = [targets EXCEPT ![x] = @ \ {l}]
       /\ \/ UNCHANGED <<relayVars, stored>>
          \/ l[2] \in Agents /\ Inject(x, l[2], "DELETE", l[1]) /\ UNCHANGED stored
          \/ /\ l[2] \notin Agents
             /\ stored' = [stored EXCEPT ![l[2]][l[1]] = "none"]
             /\ UNCHANGED relayVars
  /\ UNCHANGED <<catalogVars, saved, pc, ids>>

\* A third collects the chunks for the agents that are offline, or none.
DeleteCollect(x) ==
  /\ pc[x] = "notify"
  /\ targets[x] = {}
  /\ \/ ids' = [ids EXCEPT ![x] = ChunksOf(FileOf[x])] /\ UNCHANGED faultVars
     \/ ids' = [ids EXCEPT ![x] = {}] /\ Refusal(x)
  /\ GoTo(x, "deletion")
  /\ UNCHANGED <<catalogVars, relayVars, diskVars, targets>>

\* The handler's writes, one after the other, of which three may fail unseen.
DeleteStatement(x, from, statement, to) ==
  /\ pc[x] = from
  /\ Exec(x, statement)
  /\ GoTo(x, to)
  /\ UNCHANGED <<relayVars, diskVars, deleteVars>>

DeleteWrites(x) ==
  \/ DeleteStatement(x, "deletion", InsertDeletion(FileOf[x], ids[x]), "locations")
  \/ DeleteStatement(x, "locations", DeleteLocationsOf(FileOf[x]), "chunks")
  \/ DeleteStatement(x, "chunks", DeleteChunksOf(FileOf[x]), "file")

\* The last write; the answer is 500 if it fails.
DeleteLast(x) ==
  /\ pc[x] = "file"
  /\ \/ DeleteFileRow(FileOf[x]) /\ GoTo(x, "answer") /\ UNCHANGED faultVars
     \/ Refusal(x) /\ GoTo(x, "failed") /\ UNCHANGED catalogVars
  /\ UNCHANGED <<relayVars, diskVars, deleteVars>>

DeleteAnswer(x) ==
  /\ pc[x] = "answer"
  /\ GoTo(x, "ok")
  /\ UNCHANGED <<catalogVars, relayVars, diskVars, deleteVars>>

\* What no step of a delete changes.
DeleteFrame == UNCHANGED <<loopVars, online, uploadVars, downloadVars>>

DeleteStep(x) ==
  \/ DeleteTargets(x)
  \/ DeleteNotify(x) /\ UNCHANGED faultVars
  \/ DeleteCollect(x)
  \/ DeleteWrites(x)
  \/ DeleteLast(x)
  \/ DeleteAnswer(x) /\ UNCHANGED faultVars

-----------------------------------------------------------------------------
(* The whole service.                                                      *)

Received(h) ==
  \/ h \in Uploads /\ (UploadRefused(h) \/ UploadBegin(h)) /\ UploadFrame
  \/ h \in Downloads /\ (DownloadRefused(h) \/ DownloadBegin(h)) /\ DownloadFrame
  \/ h \in Deletes /\ (DeleteRefused(h) \/ DeleteBegin(h)) /\ DeleteFrame

\* The first statement of a request fails: an upload is answered 503 or, if it
\* is the insert, 500; to the others no row means 404, whatever the reason.
BeginFails(h) ==
  /\ pc[h] = "idle"
  /\ \E phase \in IF h \in Uploads THEN {"unavailable", "failed"} ELSE {"notfound"} : GoTo(h, phase)
  /\ Refusal(h)
  /\ UNCHANGED <<catalogVars, relayVars, diskVars, loopVars, online, requestVars>>

Begin(h) == (Received(h) /\ UNCHANGED faultVars) \/ BeginFails(h)

Step(h) ==
  \/ h \in Uploads /\ UploadStep(h) /\ UploadFrame
  \/ h \in Downloads /\ DownloadStep(h) /\ DownloadFrame
  \/ h \in Deletes /\ DeleteStep(h) /\ DeleteFrame

AgentActs(d) == AgentStep(d) /\ UNCHANGED <<online, pc, requestVars, faultVars>>

AgentFails(d) ==
  /\ faults < MaxFaults
  /\ faults' = faults + 1
  /\ AgentRestart(d)
  /\ UNCHANGED <<online, pc, requestVars, refused>>

\* The server process stops and is started again (gendrive.service,
\* Restart=always): the database stays, the relay's memory and the requests
\* in flight do not.
ServerRestart ==
  /\ faults < MaxFaults
  /\ faults' = faults + 1
  /\ pc' = [h \in Handlers |-> IF pc[h] \in Final \cup {"idle"} THEN pc[h] ELSE "lost"]
  /\ inbox' = [d \in Agents |-> {}]
  /\ answers' = {}
  /\ sentOn' = {}
  /\ UNCHANGED <<catalogVars, diskVars, loopVars, online, requestVars, refused>>

\* Every request was made and has ended, and the agents are polling.
Quiet ==
  /\ \A h \in Handlers : pc[h] \in Final
  /\ \A d \in Agents : apc[d] = "polling" /\ inbox[d] = {}
  /\ UNCHANGED vars

Next ==
  \/ \E h \in Handlers : Begin(h) \/ Step(h)
  \/ \E d \in Agents : AgentActs(d) \/ AgentFails(d)
  \/ \E d \in Devices : ComeOnline(d)
  \/ ServerRestart
  \/ Quiet

Spec == Init /\ [][Next]_vars

\* The server's goroutines run, and their timers fire.  Nothing is assumed of
\* the agents, which may be switched off, nor of the clients.
FairSpec == Spec /\ \A h \in Handlers : WF_vars(Step(h))

-----------------------------------------------------------------------------
(* Properties.                                                             *)

\* An upload that was answered 200 had each of its chunks saved on some
\* device, whatever timed out, was retried, or was acknowledged late: no
\* acknowledgement exists before a save (upload.go:100-131, receiver.go:91-113).
CommittedWasSaved ==
  \A f \in Files : pc[f] = "ok" =>
    \A i \in 1..Len(Content[f]) : \E d \in Devices : <<Content[f][i], d>> \in saved

\* No delete of the file has begun.
Undeleted(f) == \A x \in Deletes : FileOf[x] = f => pc[x] = "idle"

WholeSomewhere(f) ==
  pc[f] = "ok" /\ Undeleted(f) =>
    \A i \in 1..Len(Content[f]) : \E d \in Devices : stored[d][Content[f][i]] = "whole"

\* What an upload was answered 200 for is whole on some device until a delete
\* of the file begins: no time-out, late STORE, torn write, or deletion of
\* another file that is notified or synced takes it away (upload.go:100-131,
\* store.go:31-34, agent/main.go:108-112, download.go:189-231).
CommittedIsStored == \A f \in Files : WholeSomewhere(f)

\* The bytes of a piece; a torn chunk is shorter than the whole one.
Bytes(piece) ==
  CASE piece.data = "whole" -> Length[piece.chunk]
    [] piece.data = "part"  -> Length[piece.chunk] \div 2
    [] piece.data = "none"  -> 0

Size(f) == FoldSeq(LAMBDA c, n : Length[c] + n, 0, Content[f])
Written(w) == FoldSeq(LAMBDA piece, n : Bytes(piece) + n, 0, body[w])

\* The client got a 200 and as many bytes as Content-Length promised, so that
\* nothing tells it that anything is wrong, even if the server stopped then.
ClientAccepts(w) ==
  \/ pc[w] \in {"ok", "lost"} /\ Written(w) = Size(FileOf[w])
  \/ pc[w] = "broken" /\ Written(w) + ErrorLength = Size(FileOf[w])

\* The file a client would put together from all of its chunks.
WholeFile(f) == [i \in 1..Len(Content[f]) |-> [chunk |-> Content[f][i], data |-> "whole"]]

\* A download the client accepts is the file that was uploaded, although no
\* hash is checked: torn chunks, empty wake-ups, answers meant for others and
\* deletions in between can only make it too short (download.go:57-134).
DownloadExact ==
  \A w \in Downloads : ClientAccepts(w) => body[w] = WholeFile(FileOf[w])

\* What those who make the requests see of them.
Succeeded(h) == IF h \in Downloads THEN ClientAccepts(h) ELSE pc[h] = "ok"

AnswerSeen ==
  [h \in Handlers |->
     IF pc[h] = "idle" THEN "none"
     ELSE IF pc[h] \notin Final THEN "open"
     ELSE IF Succeeded(h) THEN "yes" ELSE "no"]

FilesKnown == {f \in Files : files[f] # "absent"}
FilesKept == {f \in Files : files[f] = "committed"}
GotSeen == [w \in Downloads |-> IF ClientAccepts(w) THEN body[w] ELSE <<>>]

\* The service implements a store of whole texts: an upload that was answered
\* 200 keeps its file until a delete of it drops the row, unless the database
\* refused a statement of it; a download is refused only for a file that is not
\* kept and otherwise fails visibly or gets exactly the file; and a deleted file
\* never comes back, whatever requests overlap, whatever statements fail and
\* wherever the server stops, be it between the last write and the answer
\* (upload.go:48-145, download.go:34-135, 174-256).
Store == INSTANCE FileStore WITH
  Text    <- [f \in Files |-> WholeFile(f)],
  Nothing <- <<>>,
  known   <- FilesKnown,
  kept    <- FilesKept,
  answer  <- AnswerSeen,
  got     <- GotSeen

StoreSpec == Store!Spec

\* Once a delete was answered 200 its file stays deleted, also if an upload of
\* it was still running (download.go:248, upload.go:142).
DeletedStaysDeleted ==
  \A x \in Deletes : pc[x] = "ok" => files[FileOf[x]] = "absent"

\* Every request received is answered, unless the server stops: no agent can
\* keep a handler for ever (upload.go:115, download.go:118).
EveryRequestEnds ==
  \A h \in Handlers : pc[h] \notin Final \cup {"idle"} ~> pc[h] \in Final

\* What download needs to reassemble the file: a row for each chunk, in its place.
Complete(f) ==
  files[f] = "committed" /\ Undeleted(f) /\ f \notin refused =>
    \A i \in 1..Len(Content[f]) :
      chunks[Content[f][i]] = [file |-> f, sequence |-> i - 1]

\* A file with a size has a row for each of its chunks, in its place, until a
\* delete of it begins, unless the database refused a statement of its upload
\* (upload.go:84-85, README.md:82).
CommittedIsComplete == \A f \in Files : Complete(f)

=============================================================================
