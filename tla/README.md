# GenDrive in TLA+

A verification project for GenDrive: a control server that splits uploaded
files into chunks, hands the chunks to agents on the user's machines (and to
Google Drive), and reassembles them for download. The modules here model the
parts of the server and of the agent in which several goroutines, several
requests and several machines act on the same state. TLC checks them on small
instances, and TLAPS proves the theorems listed below for all values of the
constants.

## The system

| Component | State | Operations | Talks to |
|---|---|---|---|
| Relay (`server/api/relay.go`, parts of `upload.go`, `download.go`, `rebalance.go`) | the map `relayChannels` under `relayLock`, the Go channels in it, a sleeping clean-up goroutine for some | `RelaySend`, `RelayRecv`, `injectRelayMessage`, `waitForRelayData`, the listener of `MoveChunk` | agents over HTTP; every handler below |
| File catalog (`server/db/db.go`) | SQLite tables `files`, `chunks`, `chunk_locations`, `deleted_files` | one autocommitted statement at a time | every handler below |
| Upload, download, delete (`upload.go`, `download.go`) | the locals of each request's goroutine | `UploadFile`, `DownloadFile`, `DeleteFile` | catalog, relay, Google Drive |
| Agent (`agent/bg/receiver.go`, `agent/storage/store.go`) | one chunk file per hash; the command it handles | poll, STORE, RETRIEVE, DELETE | relay (poll, answers), catalog (location reports) |
| Rebalance (`rebalance.go`) | the plan: loads, a copy of the locations, two loops | `TriggerRebalance`, `MoveChunk` | catalog, relay |
| Deletion sync (`sync.go`, `agent/main.go`) | `deleted_files`; the agent's `lastSync` and `config.json` | `GetDeletions`, the sync goroutine | catalog, the agent's disk |
| Device registry (`handlers.go`, `devices.go`) | table `devices` | register, heartbeat, peers, claim, delete | triggers rebalances; catalog (a removal) |
| Accounts (`auth.go`), identity (`agent/identity`, `agent/main.go`) | users, sessions in memory; `identity.json`, a claim token for each start | signup, login; load or generate, register, run | the registry |
| Google Drive manager (`gdrive.go`), the agent's drive store (`agent/storage/gdrive_store.go`) | tokens, a cached folder id; folders and files at Google | connect; save, get, delete of a chunk | Google's API; called by the file handlers and the receiver |

What is hard about it: `relayLock` covers the map and not the channel
operations; a goroutine that sleeps 30 or 60 s acts on a key whose channel may
have changed; handlers run statement by statement without a transaction, with
waits of up to 30 s between two statements, most of whose errors are ignored;
agents answer late, twice or never,
and their answers name a chunk and no device; both sides crash; times are whole
seconds; a drive lets two files have one name. `PROJECT.json` lists the hazards
line by line, with the properties that are about them.

## Modules

```
Mailbox         what the relay promises            (abstract)
Relay           the relay itself                   implements Mailbox
  RelayProofs   its theorems        MCRelay        its instances
FileStore       what clients are promised          (abstract)
Catalog         tables and statements
Agent           agents over a mailbox              extends Catalog
FileService     upload, download, delete           extends Agent, implements FileStore
  AgentProofs   types of the agents' steps; sums over finite sets
  FileServiceProofs its theorems    MCFileService  its instances
  KeptChunksProofs  that stored chunks are kept
Rebalance       plan and moves                     extends Agent
  RebalanceProofs its theorems      MCRebalance    its instances
DeletionSync    deletion events and the agent's sync
  DeletionSyncProofs its theorems
Registry        devices, accounts, identities, starts of agents
  RegistryProofs its theorems
Drive           chunks in Google Drive, from the server and from agents
  DriveProofs   its theorems        MCDrive        its instances
```

### Relay and Mailbox

A call of one of the five operations is a process that runs once: `idle`, then
`select` after its critical section, then perhaps `cleanup` (it received, and is
about to delete its key), then an end. The critical section (`FindOrMake`,
`MoveChunkListen`) is one step since it never blocks and `relayLock` is held
throughout; the select is a second step (`Push`, `Receive`, a time-out, or what
Go does on a closed channel); the deletion of the key is a third (`Forget`). A
channel is named by the call that made it. `cleaners` are the calls whose
clean-up goroutine still sleeps; `Cleanup` deletes whatever channel the key has
by then, and closes it if the creator was `RelaySend`. Sleeps and timers may
end at any moment, a timer only when the channel operation cannot proceed.

`Mailbox` is what the code that uses the relay can rely on: accepted messages
are taken at most once, under their own key, in no order, perhaps never; and a
read of a server key may return nothing. `MailboxSpec` in `Relay` is that
specification under the mapping *posted = the sends that were accepted, got =
what receivers hold*. `Agent`, `FileService` and `Rebalance` use the relay only
through these promises: a message posted is an element of `inbox` or `answers`,
losing it is not taking it, and `UploadWoken`, `DownloadWoken` and the second
disjunct of `MoveData` are the empty wake-ups, possible only where there was an
earlier `RelaySend` (`sentOn`), whose clean-up is what closes the channel.

### Catalog and Agent

`Catalog` has one action per SQL statement. A chunk's id is the hash of its
bytes, so chunks are contents and `chunks` has one row for each. Foreign keys
are declared in the schema and not enabled on the connection, so the model does
not enforce them. `Agent` is the receiver loop: `Poll`, then `SaveChunk` /
`ReportChunkLocation` / `SendAck`, or `HandleRetrieve`, or `HandleDelete`.
Writes may fail or be torn (`SaveChunkFails`, `AgentRestart`): a chunk file is
absent, a part, or whole. A DELETE may fail, too, and
is logged. `SyncDeletion` is the sync goroutine beside the loop:
any id of any deletion the catalog has recorded is removed, at any time, any
number of times; which ones are fetched when is `DeletionSync`'s business. A
device in `Devices \ Agents` is a Google Drive, which shares `stored` and
`saved`; what happens inside its operations is `Drive`'s.

### FileService

Each request is a process whose `pc` names the place in the handler. A step is
what happens between two points at which others can act: one statement, one
injection, one wait that ends. `Begin(h)` is the client's doing, `Step(h)` the
server's. `UploadBegin` reads the devices once, in any order; `CurrentDevice`
is the rotation of line 98; a download's `rows` are read by one statement and
its `candidates` chunk by chunk; a delete reads its row and then its locations,
notifies, collects, and makes its four writes one by one; an upload or a delete
whose last write is done is at `answer` until the client has its 200, so a stop
may come between the two. `ServerRestart` keeps the tables and drops the relay's
memory and the requests in flight.

The database may refuse a statement (it is locked, or its disk is full):
`Refusal`, with what the code makes of it, which is different everywhere. The
rows of chunks and locations, an upload's size and three of a delete's writes
are `Exec`s: nobody looks at the error, and the handler goes on (`upload.go:86`,
`upload.go:142`, `download.go:235-246`). A delete that cannot read its locations
notifies nobody, and a download that cannot read them finds no peers. The rest
is answered: `BeginFails`, `DownloadRowsFail`, `DeleteLast`. `refused` is a
history variable, the requests this has happened to; `CommittedIsComplete` and
the store excuse these and no others, since nothing less is true of the code.

`FileStore` is what those who make the requests can rely on, with no chunks,
devices, messages or tables in it: a set of files that are kept, an answer for
each request, and what each download got. `StoreSpec` in `FileService` is that
specification under the mapping *known = the files with a row, kept = those with
a size, answer = where the handler has got, got = the body, if the client accepts
it*. An upload keeps its file (`Keep`) and is answered yes (`Store`) in two
steps, a delete drops it (`Drop`) and is answered yes (`Remove`) in two, and the
server may stop between them: what was not answered may have happened. `Store`
asks that the file is kept by then, or was deleted, or that a statement of the
upload was refused. A client accepts
a body as long as `Content-Length` says, also of a server that stopped after it
had written the last byte (`pc` is `lost`), and one that the text of an error
fills up (`broken`). Every statement, message, time-out and agent's step in
between is a stutter of the store.

### Rebalance

`RebalanceBegin` and `RebalanceCount` are the two queries; `RebalanceDevice`,
`RebalanceChunk`, `RebalanceNextDevice`, `RebalanceEnd` the nested loops over Go
maps, in any order; the six `Move...` actions are `MoveChunk`. The load and the
count are separate: the loop compares with the count of its device as it was
when the outer loop reached it. `999999`, the initial lowest load, is above
every load of an instance and left out. Nobody looks at what the INSERT and the
DELETE of a move return (`rebalance.go:163`, `173`): `MoveInsert` and
`MoveForget` may change nothing and count the move all the same; `refused` is
the history of it. What the source sends may be torn, or nothing at all; the
target names what it gets by its hash, so `Sent` is another chunk then
(`TornOf`, `EmptyChunk`), which the target saves and reports; `Uploaded` are the
chunks of the files. It starts from any placement of the
chunks of finished uploads on the devices `Holders`. Any number of rebalances
may run. `crossed` is a history variable: the chunks whose location one move
deleted after another had inserted it and before that one deleted its own, which
is how two rebalances lose a chunk between them.

### DeletionSync

Times are seconds. `Stamp` and `Record` are the two moments of line 236 of
`download.go`; `Fetch`, `CarryOut`, `Persist`, `Wake` are the agent's loop,
`PersistFails` is a write whose error is ignored, `Crash` may tear `config.json`, `AgentStart` reads it or falls back to a day
ago (`Window`). `late` is a history variable: the deletions that were recorded
when the agent had already been told of one of the same or a later second, and
those older than the window of an agent that starts without a `config.json` it
can read. These it never learns of; the properties are about all others.

### Registry

An agent's process is `off`, `generating` (identity.json exists and is empty),
`registering`, `opening` (it makes its store) or `running`; `identity` is its
file. Each start has a claim token, the number of the start, and one
registration, `register[d][n]`, which walks through `RegisterDevice` statement by
statement, on its own: the server may carry it out when the agent has given up
or been started again. `GoOn` is the registration's answer or its time-out,
since the agent goes on either way. `OpenStore` and `OpenStoreFails` are lines
62 to 77 of `main.go`; in gdrive mode the store may also be waited for without
end, so nothing obliges an agent to run. The rebalance of a registration is here
only what others see of it, locations that come and go (`RegisterMove`), until
it returns (`RegisterRebalance`); that it does return is a property of
`Rebalance`. Statements may fail: a registration's is answered 500
(`RegisterFails`), the first of a removal is ignored, the second answered 500.
`ClaimDevice` is one statement, `DeleteDevice` a check and two. `fresh` is
whether `last_seen` is within 30 s, `Lapse` that it no longer is, and `Peers`
what `GetPeers` then shows. Uploads appear as `UploadChooses` and
`UploadRecords`, which put locations behind a removal's back.

### Drive

A call of the server's manager or of an agent's store is a process that sends
its requests to Google one by one: list folders, make one, find the chunk's
file, remove it, create it, get it. Files and folders are named by the call
that made them. `cache` is `FolderID`: the server has one for all users, read
and written without a lock (`ReadTorn` is the half-written string), an agent has
one that is set before its calls. `StartAgent` and `BeginAgent` are serialised
as the agent is: its store exists before its receiver, and the sync goroutine
runs beside the receiver. `Fails` is a request that fails, carried out or not,
with what the code makes of the error (`AfterError`: a save goes on, the
server's `DeleteChunk` returns nil). A token that cannot be saved is logged and
the drive's device is there all the same (`SaveToken`). `Copies`, `FoldersFor` and `Visible` are
Google's side: a list has no order, names are not unique, the folders of
another account are not found.

## Runs

| Run | Instance | Shows |
|---|---|---|
| `relay_safety` | inbox of room 1 with 2 senders and 2 polls; a server key with 2 answers and a wait | types; no double close; no panic of an injection; implements `Mailbox` |
| `relay_live` | a server key with 2 answers, a wait, a move | every call ends; the key leaves the map |
| `fs_download` | 1 upload of 2 chunks, 1 download, 2 agents | types; what a client accepts is what was uploaded; a file with a size has its rows; a 200 was saved; implements `FileStore` |
| `fs_delete` | the same with 1 agent and its sync, a drive, and 1 delete | no wrong bytes; a delete is not undone; a chunk of a 200 stays whole somewhere until a delete begins |
| `fs_live` | 1 chunk, 1 agent, all three requests, 2 faults (restarts, refused statements) | every request ends; implements `FileStore`; a file with a size has its rows, if no statement of its upload was refused |
| `fs_repeat` | 2 uploads of one content | **violation**: the second has no chunk row |
| `rebalance_moves` | 2 chunks in any placement on 2 agents, a new drive, 2 rebalances, torn chunks, 1 refused statement | moves go downhill; every chunk that no two moves crossed, and whose inserts were not refused, stays located; loads are the catalog's until another rebalance begins; each step of a rebalance brings it closer to its end and it can always take one |
| `rebalance_loss` | 2 chunks on 1 of 2 agents | **violation**: a moved chunk is nowhere |
| `sync_timely` | 3 deletions in any order over 4 seconds, a window of 2, 2 crashes or failed writes | config.json is never ahead; every deletion that is not late arrives |
| `sync_skips` | 2 deletions in one second | **violation**: one never arrives |
| `registry` | 1 agent started twice, 2 users, 1 removal, 1 restart of the server | the server knows no id its agent can lose; registering keeps owners; peers notice who is off |
| `drive_calls` | 2 callbacks, 3 saves and a delete on the server for 2 accounts; or 2 agents on one account with a save, a download and a sync; 1 failing request, 1 restart | what a save stored stays; duplicates need overlapping saves; a delete leaves nothing behind |

**Bounds.** Calls of the relay run once, and two of a kind suffice for every race
over one key: one that is late and one it hits; a buffer of one is full with one
message. In `FileService` two chunks make an order and a body that can stop
half-way; two devices make a retry; a file and a delete of it make every race
between two handlers over one file. `MaxFaults` bounds restarts and refused
statements together; `fs_download` and `fs_delete` have none (an agent's torn
writes come from failed saves there) and `fs_live` has two: a refused statement
and a restart after it, in any two places. `StoreSpec` is checked where its steps
differ: two chunks and two devices in `fs_download`, a delete and faults in
`fs_live`. The theorems have no bound on any of these. In `sync_timely` a run is
longer than `Window`, so that an agent can be away for too long. `Length` makes
all chunks equally long and `ErrorLength` is shorter than what a torn or missing
chunk lacks: `http.Error` after the first chunk writes its text into the body, and
were a missing last chunk as long as that text, the client would accept it
(`download.go:129`). `MCView` in the two larger runs of `FileService` leaves out
what no request is left to read: answers nobody will wait for, the variables of
requests that have ended, what was ever saved once all uploads have ended (but for
the verdict of `CommittedWasSaved`), what is stored once nobody can read it, and
who is online once the uploads have planned. In the rebalance run it leaves out
acknowledgements, what was ever saved and dead local variables, which nothing
reads, and `MCSymmetry` exchanges the two chunks, which are of one file and which
no step tells apart. Two rebalances over everything that one may meet are too many
states: `MCTogether` lets the second begin where two moves can cross, when the
first has found both chunks on one agent, and from then on keeps the drive
offline, lets the agents finish what they were sent before a rebalance goes on,
and has a move that has an answer take it. The first one alone meets every other
placement, delay and time-out, a late answer and an empty wake-up, except that
where both agents have all the chunks (and nothing can move but to the drive)
`MCDevices` leaves two devices online; the two together meet every order of their
own steps, and they do cross (without the exception for `crossed`, TLC finds the
lost location). `MCFaults` keeps what else goes wrong apart: where the first
rebalance read no replicas, which is where `LoadsMatchCatalog` speaks, one agent
at a time is sent fragments, or one statement is refused; one fragment stands for
all (`MCTornOf`), as no step tells fragments from each other.

`NeverStuck` and `RebalancesConverge` together are why the rebalance that a
registration waits for ends: the first is `ENABLED Step(r)` of every rebalance
that has begun, and the second a measure of three parts that each step lowers,
devices to visit, chunks to see, and what is left of the move at hand. Neither
needs fairness, and a retry, a plan that goes back to a device it has left or a
wait for an agent breaks one of them. In `Registry` a second start is what races
with a registration of the first, a second user with a claim, and devices do not
interact, so one is enough; a restart of the server ends requests half-way.
`MCSpec` of `MCDrive` lets one of three groups of calls run in a behaviour, since
the groups share nothing but the bounds: one user with two saves and a delete, two
users, two agents. Calls end for good, so `drive_calls` does not look for
deadlocks.

**Fairness.** `Relay`: every started call and every clean-up goroutine is
scheduled, and timers fire; the lock is never held across a blocking operation.
`FileService`: weak fairness of each request's own steps, nothing of agents or
clients. `DeletionSync`: the agent's goroutine runs and is started again,
inserts commit, and a request repeated for ever is answered some time (strong
fairness of `Fetch`). `Registry`: the 30 s of an agent that is off pass; no
handler need go on, and nobody need start an agent or send a heartbeat.

## What the violations say

* `fs_repeat`: `INSERT OR IGNORE` keyed by the content's hash. A file that
  shares a block with another, or repeats one, is answered 200 and cannot be
  downloaded; so is a retry of an upload that failed half-way.
* `rebalance_loss`: `MoveChunk` looks at no result after the retrieval. Moves
  to a Google Drive lose the chunk always, since nothing polls its inbox.
* `sync_skips`: `deleted_at > since` over whole seconds.

Also seen while modelling, and not stated as a property: an upload is answered
200 although the insert of a chunk's row or the update of the size failed, and
the file cannot be downloaded (`upload.go:86`, `upload.go:142`); a move whose
insert failed still deletes the source's location, and its chunk
(`rebalance.go:163-173`); a move of a torn or empty chunk stores it on the
target under another name, for good; the clean-up of a send
long over closes whatever channel its key has, so a receiver of a later one is
handed nil, which an upload takes for an acknowledgement and a download for an
empty chunk (`relay.go:66`); an acknowledgement names no device, so a slow
device's is counted for the next one, and a location is recorded of a chunk that
device never saved (`upload.go:117`); a registration that is carried out late
overwrites the claim token of a newer start, so the token on the screen claims
nothing; an upload that chose a device before it was removed leaves locations
without a device (`devices.go:85`); the cached folder of one user is used for the
calls of all (`gdrive.go:251`), which then fail; a poll deletes an inbox
with the backlog in its buffer (`relay.go:116`); a delete during an upload
leaves chunk rows without a file, and its record misses them
(`upload.go:84`, `download.go:221-246`); two rebalances at once can delete both
locations of a chunk (`rebalance.go:173`, the exception in `ChunksStayLocated`); an agent in a zone east of UTC never syncs
(`client.go:189`, the `+` is not escaped).

## Proofs

Every theorem is of the form `Spec => []P` or, for the two refinements,
`Spec => AbstractSpec`, for all values of the constants that meet the modules'
assumptions, and rests on an invariant that every step keeps. What is beyond the
assumptions is a named hypothesis of the theorem: `ErrorIsShort` (two theorems),
`FragmentsAreNew` (one) and `Private = Files` (two, each the corollary of one
without it).

`RelayProofs`, for any calls, keys and buffer size:

* `TypeCorrect`, `NoDoubleClose`, `InboxSendsNeverPanic`: the invariants
  `TypeOK`, `MappedChannelsAreOpen`, `InjectorsNeverPanic`;
* `RelayImplementsMailbox`: `Spec => MailboxSpec`.

The inductive invariant `Inv` adds what these need: a call's channel belongs to
its key (`KeysAgree`), a channel in use was made by a call that started
(`MadeChannels`), only channels of server keys are ever closed
(`OnlyServerChannelsClose`), and for the mailbox that a buffered message was
accepted, is held by nobody and is buffered once (`BufferedIsSent`,
`BufferedOnce`, `ReceivedWasSent`, `NothingYet`). `MappedChannelsAreOpen` alone
is not inductive: a freshly mapped channel must be known never to have been
closed, which is what `MadeChannels` gives.

`AgentProofs` holds what the two modules on top of `Agent` share: that the
agents' steps keep the types, and facts about the recursive sums over
finite sets (one exists, it is unique, adding an element adds its value). They
are proved by induction from the least natural that fails, since the library's
induction theorem takes an operator and cannot be used.

`FileServiceProofs`, for any files, contents, devices, requests and number of
restarts:

* `TypeCorrect`: `TypeOK`. It needs that an upload is within its file
  (`UploadAt`), that a download which asks for a chunk has a row (`DownloadAt`),
  that `ORDER BY` finds a first row (`LeastNatural`), and that `SELECT` gives a
  non-empty order of devices;
* `AnsweredWasSaved`: `CommittedWasSaved`. `SavedInv` follows the chunk through
  whoever holds that it is stored: the agent about to acknowledge it, an
  acknowledgement in the relay or the key of one that was (for the empty
  wake-up), and the upload that records or has counted it;
* `DeletedForGood`: `DeletedStaysDeleted`. `DeletedInv` adds that a file has no
  row before its upload begins, and that a delete which found a row is of an
  upload that began: no later statement makes a row (`GoneAtAnswer`);
* `PrivateFilesHaveTheirRows`: `CommittedIsComplete` for every file in `Private`,
  that is, one that repeats no chunk, its own or another file's, whatever the
  other files share; `fs_repeat` refutes it for the rest. `RowsInv` says that
  the row of a private file's chunk is where its content belongs, and that an
  upload's counted chunks, and the one it offers, have theirs until a delete of
  the file begins, unless a statement of the upload was refused. `CommittedHasItsRows` is the corollary for all files, if all
  are private;
* `DownloadsAreExact`: `DownloadExact`, under `ErrorIsShort` (the text of an
  error is shorter than what any torn or missing chunk lacks). `BodyInv` says
  that a download is past some first chunks of its file (`Past`): either its
  body is these, whole, or it is behind their bytes (`Before`) by more than the
  text of an error, and what is behind stays behind. It needs no private
  files: rows are in place whatever is missing;
* `FileServiceImplementsStore`: `Spec => StoreSpec`, under `ErrorIsShort`. The
  steps that clients see are `UploadSeen`, `DownloadSeen`, `DeleteSeen` and
  `RestartSeen`, and `StepsSeen` says that there are no others; each is then
  a step of the store, or none; a write and the answer after it are two. Besides
  the invariants above, that downloads are exact and removed files stay removed,
  the argument needs `KeptAtAnswer`: an upload that is about to be answered 200
  has its file kept, or deleted, or one of its statements was refused.

`KeptChunksProofs` proves `PrivateFilesStayStored`, that is `CommittedIsStored`
for every private file, and `CommittedStaysStored`, the corollary for all files.
An upload goes round the devices it has read, which are
distinct, so it offers a chunk to each at most once (`SentWasOffered`,
`StoresOnce`), and no STORE is left that could tear a saved copy; and every
removal, be it a command, a collected id or a recorded deletion, comes from
rows of a file whose delete has begun (`RemovalsOfDeleted`).

`RebalanceProofs`, for any chunks, devices, placements and number of
rebalances:

* `TypeCorrect` and `MovesGoDownhill`: `TypeOK`, `MovesDownhill`. The lowest
  load is at most the quotient of the sum by the number of devices, and the
  source's count is above it; so the target differs from the source and no
  load goes below zero;
* `RebalancesComeToAnEnd`: `RebalancesConverge`, action by action. With it, and
  finitely many devices and chunks, a rebalance takes finitely many steps;
* `ChunksKeepALocation`: `ChunksStayLocated`. A chunk that is about to lose a
  location has one where it goes (`LocatedInv`), unless its insert was refused,
  and it is only a crossing move that takes that one away; a delete that is
  refused only leaves a location more;
* `LoadsAreCounted`: `LoadsMatchCatalog`. `LoadsInv` says that, until another
  rebalance begins (`Only`), a chunk is moved at most once, that an agent's
  report of a moved chunk is of a location the rebalance inserts itself, and
  that the location a chunk arrives at was not counted for it before. Under
  `FragmentsAreNew`, that what is left of a torn chunk is no chunk of a file,
  its report counts for none; were it one, the count would be off by its report.

`RegistryProofs`, for any devices, users, removals and starts: `TypeCorrect`
(`TypeOK`), `IdentitiesAreKept` (`IdentityIsKept`: a registration is sent only
once identity.json is written, `SentInv`), `OwnersAreKept` (`OwnerIsKept`, an
action property).

`DriveProofs`, for any calls, accounts, failures and restarts: `TypeCorrect`;
`SavesAreKept` (`SavedIsKept`: a call that is about to remove a file has found
a copy of its own chunk in its own folder, `FileInv`); `DuplicatesOverlap` and
`DeletesLeaveNothing` (`DuplicatesNeedOverlap`, `DeletedIsGone`: while saves
come one after another and nothing fails, a save or delete that is at work
knows all copies there are, `SavesAlone`, `DeletesAlone`).

`DeletionSyncProofs`, for any deletions, window, run length and number of
crashes:

* `TypeCorrect`: `TypeOK`;
* `ConfigIsNeverAhead`: `ConfigIsCarriedOut`. `ConfigIsBehind` is the property
  for what is recorded but not carried out; it is not inductive without
  `UnseenIsLater` (what the agent has not fetched and is not late is later than
  `lastSync` and than all of its batch). A new row keeps that because what the
  agent goes by is the second of a deletion it has carried out
  (`LastSyncIsKnown`, `ConfigIsKnown`), or, in an agent that started from its
  window, before every second that can still be recorded in time.

Only model-checked: every liveness property and `NeverStuck`, since fairness and
ENABLED are out of the prover's reach. All other properties of the passing runs
are proved.

## Not modelled

`CreateFileMetadata` and `GetFileMetadata`, and the client functions for them,
which no program calls; the reads `GetMyDevices` and `GetFiles`; the redirect of
`HandleAuth`; the authorisation dialogue, `HasChunk` and `GetTotalUsage` of the
agent's drive store; passwords, cookies and keys; static pages and the
installer. `agent/files/manager.go` does not compile and `agent/uiserver` is
imported by no program. HTTP itself is modelled by its outcomes: a call is
carried out and answered, or its answer is lost.

## Plan

1. Done: relay, catalog, agent, file service, rebalance, deletion sync,
   registry with accounts and identities, Google Drive from both sides; a proof
   of every safety property the passing runs check.
2. Left: a composition of file service and rebalance over one catalog (an
   upload or a delete while a chunk of the file is moved), and what a file that
   shares chunks can still rely on (a second STORE that tears the first file's
   copy, a stale deletion that removes a chunk uploaded again).
