-------------------------- MODULE KeptChunksProofs --------------------------
(***************************************************************************)
(* What an upload was answered 200 for stays whole on the devices that     *)
(* saved it until a delete of the file begins, for every set of files,     *)
(* chunks, devices and requests, if the file is private: it repeats no     *)
(* chunk, its own or another file's.                                       *)
(*                                                                         *)
(* Two things could take a saved chunk away.  A second STORE of it to the  *)
(* same device could tear it: an upload offers a chunk to each device at   *)
(* most once, since it goes round the devices it read at its start, so     *)
(* there is never a STORE left where the chunk has been saved.  And a      *)
(* removal could reach it: every command, collected id and recorded        *)
(* deletion comes from the rows of a file whose delete has begun.          *)
(***************************************************************************)
EXTENDS FileServiceProofs

-----------------------------------------------------------------------------
(* The rotation.                                                           *)

\* Within n steps of a rotation of n places no place comes twice.
LEMMA RotationIsInjective ==
  ASSUME NEW n \in Nat \ {0}, NEW k \in Nat, NEW l \in Nat, k < l, l - k < n
  PROVE  k % n # l % n
<1> DEFINE p == k \div n
           q == l \div n
<1>1. p \in Int /\ q \in Int
  OBVIOUS
<1>9. k % n \in 0..(n - 1) /\ l % n \in 0..(n - 1)
  OBVIOUS
<1>2. k = n * p + (k % n)
  OBVIOUS
<1>8. l = n * q + (l % n)
  OBVIOUS
<1>3. SUFFICES ASSUME k % n = l % n PROVE FALSE
  OBVIOUS
<1>4. l - k = n * q - n * p
  BY <1>1, <1>2, <1>8, <1>9, <1>3
<1>5. CASE q <= p
  <2>1. n * q <= n * p
    BY <1>1, <1>5
  <2>2. QED
    BY <1>1, <1>4, <2>1
<1>6. CASE q >= p + 1
  <2>1. n * q >= n * (p + 1) /\ n * (p + 1) = n * p + n
    BY <1>1, <1>6
  <2>2. QED
    BY <1>1, <1>4, <2>1
<1>7. QED
  BY <1>1, <1>5, <1>6

\* The device of an upload's try number t for the chunk it is at.
DeviceOfTry(u, t) == devices[u][((sequence[u] + t) % Len(devices[u])) + 1]

\* An upload's devices are different ones.
DevicesOnce ==
  \A u \in Uploads : \A i, j \in 1..Len(devices[u]) : devices[u][i] = devices[u][j] => i = j

\* The device has, or has had, its turn for chunk number i of the upload.
Offered(u, i, d) ==
  \/ i <= sequence[u]
  \/ /\ i = sequence[u] + 1
     /\ pc[u] \notin {"idle", "chunk"}
     /\ \E t \in 0..tries[u] : DeviceOfTry(u, t) = d /\ (pc[u] = "device" => t < tries[u])

\* The device whose turn it is has not had it before.
LEMMA TurnIsNew ==
  ASSUME TypeInv, DevicesOnce, NEW u \in Uploads, pc[u] = "device", tries[u] < Len(devices[u])
  PROVE  ~ Offered(u, sequence[u] + 1, CurrentDevice(u))
<1> DEFINE n == Len(devices[u])
<1>1. n \in Nat \ {0} /\ sequence[u] \in Nat /\ tries[u] \in Nat
  BY DEF TypeInv, RequestTypeOK
<1>2. ASSUME NEW t \in 0..tries[u], t < tries[u] PROVE DeviceOfTry(u, t) # CurrentDevice(u)
  <2> DEFINE k == sequence[u] + t
             l == sequence[u] + tries[u]
  <2>1. k \in Nat /\ l \in Nat /\ k < l /\ l - k < n
    BY <1>1, <1>2
  <2>2. k % n # l % n
    BY <1>1, <2>1, RotationIsInjective
  <2> HIDE DEF k, l, n
  <2>3. k % n \in 0..(n - 1) /\ l % n \in 0..(n - 1)
    BY <1>1, <2>1
  <2>4. (k % n) + 1 \in 1..n /\ (l % n) + 1 \in 1..n /\ (k % n) + 1 # (l % n) + 1
    BY <1>1, <2>2, <2>3
  <2>5. devices[u][(k % n) + 1] # devices[u][(l % n) + 1]
    BY <2>4 DEF DevicesOnce, n
  <2>6. QED
    BY <2>5 DEF DeviceOfTry, CurrentDevice, k, l, n
<1>3. QED
  BY <1>1, <1>2 DEF Offered

\* SELECT names each device once.
LEMMA OrdersNameOnce ==
  ASSUME NEW S \in SUBSET Devices, NEW order \in SetToSeqs(S)
  PROVE  \A i, j \in 1..Len(order) : order[i] = order[j] => i = j
<1>1. IsFiniteSet(S) /\ Cardinality(S) \in Nat
  BY FS_Subset, RequestsAssumption, FS_CardinalityType
<1>2. /\ order \in [1..Cardinality(S) -> S]
      /\ \A i, j \in 1..Cardinality(S) : i # j => order[i] # order[j]
  BY DEF SetToSeqs
<1>3. DOMAIN order = 1..Cardinality(S) /\ Len(order) = Cardinality(S)
  BY <1>1, <1>2
<1>4. QED
  BY <1>2, <1>3

\* A turn that came stays on record.
LEMMA OfferedGrows ==
  ASSUME TypeInv, [Next]_vars, NEW u \in Uploads, NEW i \in Nat \ {0}, NEW d, Offered(u, i, d)
  PROVE  Offered(u, i, d)'
<1>1. /\ sequence[u] \in Nat /\ tries[u] \in Nat /\ Len(Content[u]) \in Nat
      /\ pc \in [Handlers -> Phases] /\ u \in Handlers
      /\ sequence \in [Uploads -> Nat] /\ tries \in [Uploads -> Nat]
  BY ConstantFacts DEF TypeInv, RequestTypeOK
<1>2. CASE i <= sequence[u]
  <2>1. sequence'[u] \in {sequence[u], sequence[u] + 1}
    <3>1. CASE ~ ((UploadRefused(u) \/ UploadBegin(u) \/ UploadStep(u)) /\ UploadFrame)
      BY <3>1, OthersKeepUploads
    <3>2. CASE UploadRefused(u) \/ UploadBegin(u) \/ UploadStep(u)
      <4>1. sequence' = sequence \/ sequence' = [sequence EXCEPT ![u] = @ + 1]
        BY <3>2 DEF UploadRefused, UploadBegin, UploadStep, UploadWrites, UploadActs, UploadChunk, UploadStore,
           UploadToDrive, UploadDeviceFails, UploadAck, UploadWoken, UploadAckTimeout, UploadRecord,
           UploadUnavailable, UploadCommit, UploadAnswer, uploadVars
      <4>2. QED
        BY <1>1, <4>1
    <3>3. QED
      BY <3>1, <3>2
  <2>2. i <= sequence'[u]
    BY <1>1, <1>2, <2>1
  <2>3. QED
    BY <2>2 DEF Offered
<1>3. ASSUME i = sequence[u] + 1, pc[u] \notin {"idle", "chunk"},
             NEW t \in 0..tries[u], DeviceOfTry(u, t) = d, pc[u] = "device" => t < tries[u]
      PROVE  Offered(u, i, d)'
  <2>1. ASSUME UNCHANGED <<sequence[u], devices[u]>>, pc'[u] \notin {"idle", "chunk"},
               \/ tries'[u] = tries[u] /\ (pc'[u] = "device" => pc[u] = "device")
               \/ tries'[u] = tries[u] + 1
        PROVE  Offered(u, i, d)'
    <3>1. DeviceOfTry(u, t)' = d
      BY <1>3, <2>1 DEF DeviceOfTry
    <3>2. t \in 0..tries'[u] /\ (pc'[u] = "device" => t < tries'[u])
      BY <1>1, <1>3, <2>1
    <3>3. QED
      BY <1>3, <2>1, <3>1, <3>2 DEF Offered
  <2>2. CASE ~ ((UploadRefused(u) \/ UploadBegin(u) \/ UploadStep(u)) /\ UploadFrame)
    BY <1>3, <2>1, <2>2, OthersKeepUploads
  <2>3. CASE \/ UploadStore(u) \/ UploadToDrive(u) \/ UploadAck(u) \/ UploadWoken(u)
             \/ UploadUnavailable(u) \/ UploadAnswer(u)
    <3>1. UNCHANGED uploadVars /\ \E s \in {"ack", "record", "unavailable", "ok"} : GoTo(u, s)
      BY <2>3 DEF UploadStore, UploadToDrive, UploadAck, UploadWoken, UploadUnavailable, UploadAnswer
    <3>2. QED
      BY <1>1, <2>1, <3>1 DEF GoTo, uploadVars
  <2>4. CASE UploadDeviceFails(u) \/ UploadAckTimeout(u)
    <3>1. /\ GoTo(u, "device") /\ tries' = [tries EXCEPT ![u] = @ + 1]
          /\ UNCHANGED <<devices, sequence>>
      BY <2>4 DEF UploadDeviceFails, UploadAckTimeout, TryNextDevice
    <3>2. QED
      BY <1>1, <2>1, <3>1 DEF GoTo
  <2>5. CASE UploadRecord(u)
    <3>1. sequence' = [sequence EXCEPT ![u] = @ + 1]
      BY <2>5 DEF UploadRecord
    <3>2. i <= sequence'[u]
      BY <1>1, <1>3, <3>1
    <3>3. QED
      BY <3>2 DEF Offered
  <2>6. CASE UploadRefused(u) \/ UploadBegin(u) \/ UploadChunk(u) \/ UploadCommit(u)
    BY <1>3, <2>6 DEF UploadRefused, UploadBegin, UploadChunk, UploadCommit
  <2>7. QED
    BY <2>2, <2>3, <2>4, <2>5, <2>6 DEF UploadStep, UploadWrites, UploadActs
<1>4. QED
  BY <1>2, <1>3 DEF Offered

\* An upload reads its devices once.
LEMMA NextDevicesOnce ==
  ASSUME TypeInv, DevicesOnce, [Next]_vars
  PROVE  DevicesOnce'
<1>1. SUFFICES ASSUME NEW u \in Uploads
               PROVE  \A i, j \in 1..Len(devices'[u]) : devices'[u][i] = devices'[u][j] => i = j
  BY DEF DevicesOnce
<1>2. CASE devices'[u] = devices[u]
  BY <1>2 DEF DevicesOnce
<1>3. CASE UploadBegin(u)
  <2>1. online \in SUBSET Devices /\ devices \in [Uploads -> Seq(Devices)]
    BY DEF TypeInv, RequestTypeOK
  <2>2. PICK order \in SetToSeqs(online) : devices' = [devices EXCEPT ![u] = order]
    BY <1>3 DEF UploadBegin
  <2>3. devices'[u] = order
    BY <2>1, <2>2
  <2>4. QED
    BY <2>1, <2>3, OrdersNameOnce
<1>4. CASE UploadRefused(u) \/ UploadStep(u)
  <2>1. devices' = devices
    BY <1>4 DEF UploadRefused, UploadStep, UploadWrites, UploadActs, UploadChunk, UploadStore, UploadToDrive,
       UploadDeviceFails, UploadAck, UploadWoken, UploadAckTimeout, UploadRecord, UploadUnavailable,
       UploadCommit, UploadAnswer, uploadVars
  <2>2. QED
    BY <1>2, <2>1
<1>5. QED
  BY <1>2, <1>3, <1>4, OthersKeepUploads

-----------------------------------------------------------------------------
(* The invariant.                                                          *)

\* A command for the chunk is in the agent's inbox, or is being carried out.
InInbox(d, type, c) == \E m \in inbox[d] : m.type = type /\ m.chunk = c
Carries(d, type, c) == apc[d] = "handling" /\ task[d].type = type /\ task[d].chunk = c

\* Something will remove the chunk from a device, or may.
Removing(c) ==
  \/ \E d \in Agents : InInbox(d, "DELETE", c) \/ Carries(d, "DELETE", c)
  \/ \E x \in Deletes : c \in ids[x] \/ \E d \in Devices : <<c, d>> \in targets[x]
  \/ \E r \in deletions : c \in r.ids

RemovalsOfDeleted ==
  \A f \in Private : Undeleted(f) => \A i \in 1..Len(Content[f]) : ~ Removing(Content[f][i])

\* A chunk is sent and saved only where its upload offered it.
Sent(c, d) ==
  \/ d \in Agents /\ (InInbox(d, "STORE", c) \/ Carries(d, "STORE", c))
  \/ <<c, d>> \in saved

SentWasOffered ==
  \A f \in Private : \A i \in 1..Len(Content[f]) : \A d \in Devices :
    Sent(Content[f][i], d) => Offered(f, i, d)

PrivateChunks == {c \in Chunks : \E f \in Private : \E i \in 1..Len(Content[f]) : c = Content[f][i]}

\* One STORE of a chunk to a device: in the inbox, carried out, or done.
StoresOnce ==
  \A d \in Agents : \A c \in PrivateChunks :
    /\ \A m, n \in inbox[d] :
         m.type = "STORE" /\ n.type = "STORE" /\ m.chunk = c /\ n.chunk = c => m = n
    /\ InInbox(d, "STORE", c) => ~ Carries(d, "STORE", c) /\ <<c, d>> \notin saved
    /\ Carries(d, "STORE", c) => <<c, d>> \notin saved

SavedIsWhole ==
  \A f \in Private : Undeleted(f) =>
    \A i \in 1..Len(Content[f]), d \in Devices :
      <<Content[f][i], d>> \in saved => stored[d][Content[f][i]] = "whole"

KeptInv == DevicesOnce /\ RemovalsOfDeleted /\ SentWasOffered /\ StoresOnce /\ SavedIsWhole

LEMMA InitKept == Init => KeptInv
<1> SUFFICES ASSUME Init PROVE KeptInv
  OBVIOUS
<1>1. /\ \A d \in Agents : inbox[d] = {} /\ apc[d] = "polling"
      /\ saved = {} /\ deletions = {}
      /\ \A x \in Deletes : ids[x] = {} /\ targets[x] = {}
      /\ \A u \in Uploads : devices[u] = <<>>
  BY DEF Init, AgentInit, CatalogInit
<1>2. DevicesOnce
  BY <1>1 DEF DevicesOnce
<1>3. \A c : ~ Removing(c) /\ \A d : ~ Sent(c, d)
  BY <1>1 DEF Removing, Sent, InInbox, Carries
<1>4. StoresOnce
  BY <1>1 DEF StoresOnce, InInbox, Carries
<1>5. QED
  BY <1>1, <1>2, <1>3, <1>4 DEF KeptInv, RemovalsOfDeleted, SentWasOffered, SavedIsWhole

-----------------------------------------------------------------------------
(* What a step does to the commands, the disks and the deletions.          *)

\* A command that is new in an inbox.
Posted(d, m) ==
  \/ m.type = "RETRIEVE"
  \/ \E u \in Uploads : /\ UploadStore(u)
                        /\ d = CurrentDevice(u)
                        /\ m = [type |-> "STORE", chunk |-> NextChunk(u), by |-> u]
  \/ m.type = "DELETE" /\ \E x \in Deletes : <<m.chunk, d>> \in targets[x]

\* An agent that handles a command did so before, or has just taken it.
Takes(d) ==
  apc'[d] = "handling" =>
    \/ apc[d] = "handling" /\ task'[d] = task[d]
    \/ task'[d] \in inbox[d] /\ inbox'[d] = inbox[d] \ {task'[d]}

\* A chunk on a device changes only for the better, or for a reason.
Disturbs(d, c) == (d \in Agents /\ Carries(d, "STORE", c)) \/ Removing(c)

\* A chunk that is new among the saved.
Saves(c, d) ==
  /\ stored'[d][c] = "whole"
  /\ \/ d \in Agents /\ Carries(d, "STORE", c) /\ apc'[d] # "handling"
     \/ d \notin Agents /\ \E u \in Uploads : UploadToDrive(u) /\ c = NextChunk(u) /\ d = CurrentDevice(u)

Facts ==
  /\ \A d \in Agents : \A m \in inbox'[d] : m \in inbox[d] \/ Posted(d, m)
  /\ \A d \in Agents : Takes(d)
  /\ \A d \in Devices, c \in Chunks :
       stored'[d][c] = stored[d][c] \/ stored'[d][c] = "whole" \/ Disturbs(d, c)
  /\ \A d \in Devices, c \in Chunks : <<c, d>> \in saved' => <<c, d>> \in saved \/ Saves(c, d)

\* What leaves the inboxes, the loops and the disks alone.
LEMMA QuietFacts ==
  ASSUME UNCHANGED <<inbox, loopVars, stored, saved>>
  PROVE  Facts
  BY DEF Facts, Takes, loopVars

\* An injection is all there is.
LEMMA InjectFacts ==
  ASSUME TypeInv, NEW h, NEW e, NEW type, NEW c, Inject(h, e, type, c),
         Posted(e, [type |-> type, chunk |-> c, by |-> h]), UNCHANGED <<loopVars, stored, saved>>
  PROVE  Facts
<1>1. inbox' = [inbox EXCEPT ![e] = @ \cup {[type |-> type, chunk |-> c, by |-> h]}] /\ DOMAIN inbox = Agents
  BY DEF Inject, TypeInv, AgentTypeOK
<1>2. \A d \in Agents : \A m \in inbox'[d] : m \in inbox[d] \/ Posted(d, m)
  BY <1>1
<1>3. QED
  BY <1>2 DEF Facts, Takes, loopVars

LEMMA RequestFacts ==
  ASSUME TypeInv, NEW h \in Handlers, Begin(h) \/ Step(h)
  PROVE  Facts
<1>1. ASSUME h \in Uploads, UploadRefused(h) \/ UploadBegin(h) \/ UploadStep(h), UploadFrame PROVE Facts
  <2>1. UNCHANGED loopVars
    BY <1>1 DEF UploadFrame
  <2>2. CASE UploadStore(h)
    <3>1. /\ Inject(h, CurrentDevice(h), "STORE", NextChunk(h)) /\ UNCHANGED <<stored, saved>>
      BY <2>2 DEF UploadStore, diskVars
    <3>2. Posted(CurrentDevice(h), [type |-> "STORE", chunk |-> NextChunk(h), by |-> h])
      BY <1>1, <2>2 DEF Posted
    <3>3. QED
      BY <2>1, <3>1, <3>2, InjectFacts
  <2>3. CASE UploadToDrive(h)
    <3>1. /\ stored' = [stored EXCEPT ![CurrentDevice(h)][NextChunk(h)] = "whole"]
          /\ saved' = saved \cup {<<NextChunk(h), CurrentDevice(h)>>}
          /\ CurrentDevice(h) \notin Agents /\ inbox' = inbox
      BY <2>3 DEF UploadToDrive, relayVars
    <3>2. stored \in [Devices -> [Chunks -> {"none", "part", "whole"}]]
      BY DEF TypeInv, AgentTypeOK
    <3>3. \A d \in Devices, c \in Chunks :
            /\ stored'[d][c] = stored[d][c] \/ stored'[d][c] = "whole"
            /\ d = CurrentDevice(h) /\ c = NextChunk(h) => stored'[d][c] = "whole"
      BY <3>1, <3>2
    <3>4. \A d \in Devices, c \in Chunks : <<c, d>> \in saved' => <<c, d>> \in saved \/ Saves(c, d)
      BY <1>1, <2>3, <3>1, <3>3 DEF Saves
    <3>5. QED
      BY <2>1, <3>1, <3>3, <3>4 DEF Facts, Takes, loopVars
  <2>4. CASE UploadRefused(h) \/ UploadBegin(h) \/ UploadChunk(h) \/ UploadDeviceFails(h) \/ UploadAck(h)
             \/ UploadWoken(h) \/ UploadAckTimeout(h) \/ UploadRecord(h) \/ UploadUnavailable(h)
             \/ UploadCommit(h) \/ UploadAnswer(h)
    <3>1. UNCHANGED <<inbox, stored, saved>>
      BY <2>4 DEF UploadRefused, UploadBegin, UploadChunk, UploadDeviceFails, UploadAck, UploadWoken,
         UploadAckTimeout, UploadRecord, UploadUnavailable, UploadCommit, UploadAnswer, TakeAnswer,
         relayVars, diskVars
    <3>2. QED
      BY <2>1, <3>1, QuietFacts
  <2>5. QED
    BY <1>1, <2>2, <2>3, <2>4 DEF UploadStep, UploadWrites, UploadActs
<1>2. ASSUME h \in Downloads, DownloadRefused(h) \/ DownloadBegin(h) \/ DownloadStep(h), DownloadFrame
      PROVE  Facts
  <2>1. UNCHANGED <<loopVars, stored, saved>>
    BY <1>2 DEF DownloadFrame, diskVars
  <2>2. CASE DownloadRequest(h)
    <3>1. PICK d : Inject(h, d, "RETRIEVE", FirstRow(h).chunk)
      BY <2>2 DEF DownloadRequest
    <3>2. Posted(d, [type |-> "RETRIEVE", chunk |-> FirstRow(h).chunk, by |-> h])
      BY DEF Posted
    <3>3. QED
      BY <2>1, <3>1, <3>2, InjectFacts
  <2>3. CASE ~ DownloadRequest(h)
    <3>1. inbox' = inbox
      BY <1>2, <2>3 DEF DownloadRefused, DownloadBegin, DownloadStep, DownloadActs, DownloadRows,
         DownloadRowsFail, DownloadLocate, DownloadDeviceFails, DownloadFromDrive, DownloadData,
         DownloadWoken, DownloadTimeout, DownloadExhausted, DownloadEnd, TakeAnswer, relayVars
    <3>2. QED
      BY <2>1, <3>1, QuietFacts
  <2>4. QED
    BY <2>2, <2>3
<1>3. ASSUME h \in Deletes, DeleteRefused(h) \/ DeleteBegin(h) \/ DeleteStep(h), DeleteFrame PROVE Facts
  <2>1. UNCHANGED loopVars
    BY <1>3 DEF DeleteFrame
  <2>2. CASE DeleteNotify(h)
    <3>1. PICK l \in targets[h] :
            \/ UNCHANGED <<relayVars, stored>>
            \/ l[2] \in Agents /\ Inject(h, l[2], "DELETE", l[1]) /\ UNCHANGED stored
            \/ stored' = [stored EXCEPT ![l[2]][l[1]] = "none"] /\ UNCHANGED relayVars
      BY <2>2 DEF DeleteNotify
    <3>2. saved' = saved
      BY <2>2 DEF DeleteNotify
    <3>3. l[1] \in Chunks /\ l[2] \in Devices /\ l = <<l[1], l[2]>>
      BY <1>3 DEF TypeInv, RequestTypeOK
    <3>4. CASE UNCHANGED <<relayVars, stored>>
      BY <2>1, <3>2, <3>4, QuietFacts DEF relayVars
    <3>5. CASE l[2] \in Agents /\ Inject(h, l[2], "DELETE", l[1]) /\ UNCHANGED stored
      <4>1. Posted(l[2], [type |-> "DELETE", chunk |-> l[1], by |-> h])
        BY <1>3, <3>1, <3>3 DEF Posted
      <4>2. QED
        BY <2>1, <3>2, <3>5, <4>1, InjectFacts
    <3>6. CASE stored' = [stored EXCEPT ![l[2]][l[1]] = "none"] /\ UNCHANGED relayVars
      <4>1. stored \in [Devices -> [Chunks -> {"none", "part", "whole"}]]
        BY DEF TypeInv, AgentTypeOK
      <4>2. \A d \in Devices, c \in Chunks : stored'[d][c] = stored[d][c] \/ (c = l[1] /\ d = l[2])
        BY <3>6, <4>1
      <4>3. Removing(l[1])
        BY <1>3, <3>1, <3>3 DEF Removing
      <4>4. \A d \in Devices, c \in Chunks : stored'[d][c] = stored[d][c] \/ Disturbs(d, c)
        BY <4>2, <4>3 DEF Disturbs
      <4>5. QED
        BY <2>1, <3>2, <3>6, <4>4 DEF Facts, Takes, loopVars, relayVars
    <3>7. QED
      BY <3>1, <3>4, <3>5, <3>6
  <2>3. CASE ~ DeleteNotify(h)
    <3>1. UNCHANGED <<inbox, stored, saved>>
      BY <1>3, <2>3 DEF DeleteRefused, DeleteBegin, DeleteStep, DeleteTargets, DeleteCollect, DeleteWrites,
         DeleteStatement, DeleteLast, DeleteAnswer, relayVars, diskVars
    <3>2. QED
      BY <2>1, <3>1, QuietFacts
  <2>4. QED
    BY <2>2, <2>3
<1>4. CASE BeginFails(h)
  BY <1>4, QuietFacts DEF BeginFails, relayVars, diskVars
<1>5. QED
  BY <1>1, <1>2, <1>3, <1>4 DEF Begin, Received, Step

LEMMA AgentFacts ==
  ASSUME TypeInv, NEW e \in Agents, AgentStep(e) \/ AgentRestart(e)
  PROVE  Facts
<1>1. /\ stored \in [Devices -> [Chunks -> {"none", "part", "whole"}]] /\ inbox \in [Agents -> SUBSET Commands]
      /\ apc \in [Agents -> {"polling", "handling", "saved", "reported"}]
      /\ task \in [Agents -> Commands \cup {NoTask}]
  BY DEF TypeInv, AgentTypeOK
<1>2. ASSUME inbox' = inbox, NEW s \in {"polling", "saved", "reported"}, apc' = [apc EXCEPT ![e] = s],
             \E t : task' = [task EXCEPT ![e] = t]
      PROVE  /\ \A d \in Agents : \A m \in inbox'[d] : m \in inbox[d] \/ Posted(d, m)
             /\ \A d \in Agents : Takes(d)
  BY <1>1, <1>2 DEF Takes
<1>3. ASSUME NEW c, NEW v, stored' = [stored EXCEPT ![e][c] = v], v \in {"whole", stored[e][c]} \/ Disturbs(e, c)
      PROVE  \A d \in Devices, b \in Chunks :
               stored'[d][b] = stored[d][b] \/ stored'[d][b] = "whole" \/ Disturbs(d, b)
  <2>1. \A d \in Devices, b \in Chunks : stored'[d][b] = stored[d][b] \/ (d = e /\ b = c /\ stored'[d][b] = v)
    BY <1>1, <1>3
  <2>2. QED
    BY <1>3, <2>1
<1>4. \A c \in Chunks : Handling(e, "STORE") /\ task[e].chunk = c => Carries(e, "STORE", c)
  BY DEF Handling, Carries
<1>5. CASE Poll(e)
  <2>1. PICK m \in inbox[e] : inbox' = [inbox EXCEPT ![e] = @ \ {m}] /\ task' = [task EXCEPT ![e] = m]
    BY <1>5 DEF Poll
  <2>2. apc' = [apc EXCEPT ![e] = "handling"] /\ UNCHANGED <<stored, saved>>
    BY <1>5 DEF Poll, diskVars
  <2>3. \A d \in Agents : Takes(d)
    BY <1>1, <2>1, <2>2 DEF Takes
  <2>4. \A d \in Agents : inbox'[d] \subseteq inbox[d]
    BY <1>1, <2>1
  <2>5. QED
    BY <2>2, <2>3, <2>4 DEF Facts
<1>6. CASE SaveChunk(e)
  <2>1. /\ Handling(e, "STORE") /\ stored' = [stored EXCEPT ![e][task[e].chunk] = "whole"]
        /\ saved' = saved \cup {<<task[e].chunk, e>>} /\ apc' = [apc EXCEPT ![e] = "saved"]
        /\ UNCHANGED <<inbox, task>>
    BY <1>6 DEF SaveChunk, relayVars
  <2>2. task' = [task EXCEPT ![e] = task[e]]
    BY <1>1, <2>1
  <2>3. e \in Devices /\ task[e].chunk \in Chunks
    BY <2>1, ConstantFacts DEF TypeInv, HasTask, Handling, Commands
  <2>4. Saves(task[e].chunk, e)
    BY <1>1, <1>4, <2>1, <2>3 DEF Saves
  <2>5. \A d \in Devices, c \in Chunks : <<c, d>> \in saved' => <<c, d>> \in saved \/ Saves(c, d)
    BY <2>1, <2>4
  <2>6. QED
    BY <1>2, <1>3, <2>1, <2>2, <2>5 DEF Facts
<1>7. CASE SaveChunkFails(e)
  <2>1. /\ Handling(e, "STORE") /\ \E t : stored' = [stored EXCEPT ![e][task[e].chunk] = t]
        /\ apc' = [apc EXCEPT ![e] = "polling"] /\ \E t : task' = [task EXCEPT ![e] = t]
        /\ UNCHANGED <<inbox, saved>>
    BY <1>7 DEF SaveChunkFails, relayVars
  <2>2. Disturbs(e, task[e].chunk)
    BY <2>1 DEF Disturbs, Handling, Carries
  <2>3. QED
    BY <1>2, <1>3, <2>1, <2>2 DEF Facts
<1>8. CASE ReportChunkLocation(e)
  <2>1. apc' = [apc EXCEPT ![e] = "reported"] /\ UNCHANGED <<inbox, stored, saved, task>>
    BY <1>8 DEF ReportChunkLocation, relayVars, diskVars
  <2>2. task' = [task EXCEPT ![e] = task[e]]
    BY <1>1, <2>1
  <2>3. QED
    BY <1>2, <2>1, <2>2 DEF Facts
<1>9. CASE SendAck(e) \/ HandleRetrieve(e)
  <2>1. /\ apc' = [apc EXCEPT ![e] = "polling"] /\ \E t : task' = [task EXCEPT ![e] = t]
        /\ UNCHANGED <<inbox, stored, saved>>
    BY <1>9 DEF SendAck, HandleRetrieve, SendAnswer, relayVars, diskVars
  <2>2. QED
    BY <1>2, <2>1 DEF Facts
<1>10. CASE HandleDelete(e)
  <2>1. /\ Handling(e, "DELETE") /\ \E left : stored' = [stored EXCEPT ![e][task[e].chunk] = left]
        /\ apc' = [apc EXCEPT ![e] = "polling"] /\ \E t : task' = [task EXCEPT ![e] = t]
        /\ UNCHANGED <<inbox, saved>>
    BY <1>10 DEF HandleDelete, relayVars
  <2>2. Disturbs(e, task[e].chunk)
    BY <2>1 DEF Disturbs, Removing, Handling, Carries
  <2>3. QED
    BY <1>2, <1>3, <2>1, <2>2 DEF Facts
<1>11. CASE SyncDeletion(e)
  <2>1. PICK x \in deletions : \E c \in x.ids : stored' = [stored EXCEPT ![e][c] = "none"]
    BY <1>11 DEF SyncDeletion
  <2>2. PICK c \in x.ids : stored' = [stored EXCEPT ![e][c] = "none"]
    BY <2>1
  <2>3. Disturbs(e, c)
    BY DEF Disturbs, Removing
  <2>4. UNCHANGED <<inbox, saved, loopVars>>
    BY <1>11 DEF SyncDeletion, relayVars
  <2>5. QED
    BY <1>3, <2>2, <2>3, <2>4 DEF Facts, Takes, loopVars
<1>12. CASE AgentRestart(e)
  <2>1. /\ stored' = stored \/ (Handling(e, "STORE") /\ stored' = [stored EXCEPT ![e][task[e].chunk] = "part"])
        /\ apc' = [apc EXCEPT ![e] = "polling"] /\ \E t : task' = [task EXCEPT ![e] = t]
        /\ UNCHANGED <<inbox, saved>>
    BY <1>12 DEF AgentRestart, relayVars
  <2>2. Handling(e, "STORE") => Disturbs(e, task[e].chunk)
    BY DEF Disturbs, Handling, Carries
  <2>3. \A d \in Devices, b \in Chunks :
          stored'[d][b] = stored[d][b] \/ stored'[d][b] = "whole" \/ Disturbs(d, b)
    BY <1>3, <2>1, <2>2
  <2>4. QED
    BY <1>2, <2>1, <2>3 DEF Facts
<1>13. QED
  BY <1>5, <1>6, <1>7, <1>8, <1>9, <1>10, <1>11, <1>12 DEF AgentStep

LEMMA StepFacts ==
  ASSUME TypeInv, [Next]_vars
  PROVE  Facts
<1>1. CASE (\E d \in Devices : ComeOnline(d)) \/ Quiet \/ UNCHANGED vars
  BY <1>1, QuietFacts DEF ComeOnline, Quiet, vars, relayVars, diskVars
<1>2. CASE ServerRestart
  <2>1. (\A d \in Agents : inbox'[d] = {}) /\ UNCHANGED <<loopVars, stored, saved>>
    BY <1>2 DEF ServerRestart, diskVars
  <2>2. QED
    BY <2>1 DEF Facts, Takes, loopVars
<1>3. QED
  BY <1>1, <1>2, RequestFacts, AgentFacts DEF Next, AgentActs, AgentFails

\* A removal comes from another of the chunk, or from the rows of a file
\* whose delete begins or has begun.
LEMMA RemovingFrom ==
  ASSUME TypeInv, [Next]_vars, NEW c \in Chunks, Removing(c)'
  PROVE  Removing(c) \/ \E x \in Deletes : pc'[x] # "idle" /\ c \in ChunksOf(FileOf[x])
<1> DEFINE Goal == Removing(c) \/ \E x \in Deletes : pc'[x] # "idle" /\ c \in ChunksOf(FileOf[x])
<1>1. /\ targets \in [Deletes -> SUBSET (Chunks \X Devices)] /\ ids \in [Deletes -> SUBSET Chunks]
      /\ pc \in [Handlers -> Phases] /\ Deletes \subseteq Handlers
      /\ Agents \subseteq Devices
  BY ConstantFacts DEF TypeInv, RequestTypeOK
<1>2. ASSUME NEW d \in Agents, InInbox(d, "DELETE", c)' PROVE Removing(c)
  <2>1. PICK m \in inbox'[d] : m.type = "DELETE" /\ m.chunk = c
    BY <1>2 DEF InInbox
  <2>2. CASE m \in inbox[d]
    BY <2>1, <2>2 DEF Removing, InInbox
  <2>3. CASE Posted(d, m)
    <3>1. \E x \in Deletes : <<c, d>> \in targets[x]
      BY <2>1, <2>3 DEF Posted
    <3>2. QED
      BY <1>1, <3>1 DEF Removing
  <2>4. QED
    BY <2>2, <2>3, StepFacts DEF Facts
<1>3. ASSUME NEW d \in Agents, Carries(d, "DELETE", c)' PROVE Removing(c)
  <2>1. apc'[d] = "handling" /\ task'[d].type = "DELETE" /\ task'[d].chunk = c /\ Takes(d)
    BY <1>3, StepFacts DEF Carries, Facts
  <2>2. QED
    BY <2>1 DEF Takes, Removing, Carries, InInbox
<1>4. ASSUME NEW x \in Deletes, (DeleteRefused(x) \/ DeleteBegin(x) \/ DeleteStep(x)) /\ DeleteFrame
      PROVE  /\ \A y \in Deletes : c \in ids'[y] \/ (\E d \in Devices : <<c, d>> \in targets'[y]) => Goal
             /\ \A r \in deletions' : c \in r.ids => Goal
  <2>1. pc[x] # "idle" => pc'[x] # "idle"
    BY <1>1, DeletedSteps
  <2>2. CASE DeleteRefused(x) \/ DeleteBegin(x) \/ DeleteAnswer(x)
    BY <2>2 DEF DeleteRefused, DeleteBegin, DeleteAnswer, deleteVars, catalogVars, Removing
  <2>3. CASE DeleteTargets(x)
    <3>1. /\ \/ targets' = [targets EXCEPT ![x] = {l \in locations : l[1] \in ChunksOf(FileOf[x])}]
             \/ targets' = [targets EXCEPT ![x] = {}]
          /\ GoTo(x, "notify") /\ UNCHANGED <<deletions, ids>>
      BY <2>3 DEF DeleteTargets, catalogVars
    <3>2. pc'[x] # "idle"
      BY <1>1, <3>1 DEF GoTo
    <3>3. \A d : <<c, d>> \in targets'[x] => c \in ChunksOf(FileOf[x])
      BY <1>1, <3>1
    <3>4. \A y \in Deletes : y # x => targets'[y] = targets[y]
      BY <1>1, <3>1
    <3>5. QED
      BY <3>1, <3>2, <3>3, <3>4 DEF Removing
  <2>4. CASE DeleteNotify(x)
    <3>1. (\E l : targets' = [targets EXCEPT ![x] = @ \ {l}]) /\ UNCHANGED <<deletions, ids>>
      BY <2>4 DEF DeleteNotify, catalogVars
    <3>2. \A y \in Deletes : targets'[y] \subseteq targets[y]
      BY <1>1, <3>1
    <3>3. QED
      BY <3>1, <3>2 DEF Removing
  <2>5. CASE DeleteCollect(x)
    <3>1. /\ ids' = [ids EXCEPT ![x] = ChunksOf(FileOf[x])] \/ ids' = [ids EXCEPT ![x] = {}]
          /\ GoTo(x, "deletion") /\ UNCHANGED <<deletions, targets>>
      BY <2>5 DEF DeleteCollect, catalogVars
    <3>2. pc'[x] # "idle" /\ ids'[x] \subseteq ChunksOf(FileOf[x]) /\ \A y \in Deletes : y # x => ids'[y] = ids[y]
      BY <1>1, <3>1 DEF GoTo
    <3>3. QED
      BY <3>1, <3>2 DEF Removing
  <2>6. CASE DeleteWrites(x) \/ DeleteLast(x)
    <3>1. UNCHANGED <<ids, targets>>
      BY <2>6 DEF DeleteWrites, DeleteStatement, DeleteLast, deleteVars
    <3>2. deletions' = deletions \/ deletions' = deletions \cup {[file |-> FileOf[x], ids |-> ids[x]]}
      BY <2>6 DEF DeleteWrites, DeleteStatement, DeleteLast, Exec, InsertDeletion, DeleteLocationsOf,
         DeleteChunksOf, DeleteFileRow, catalogVars
    <3>3. QED
      BY <3>1, <3>2 DEF Removing
  <2>7. QED
    BY <1>4, <2>2, <2>3, <2>4, <2>5, <2>6 DEF DeleteStep
<1>5. ASSUME UNCHANGED <<deletions, targets, ids>>
      PROVE  /\ \A y \in Deletes : c \in ids'[y] \/ (\E d \in Devices : <<c, d>> \in targets'[y]) => Goal
             /\ \A r \in deletions' : c \in r.ids => Goal
  BY <1>5 DEF Removing
<1>6. \/ UNCHANGED <<deletions, targets, ids>>
      \/ \E x \in Deletes : (DeleteRefused(x) \/ DeleteBegin(x) \/ DeleteStep(x)) /\ DeleteFrame
  <2>1. ASSUME NEW u \in Uploads, UploadRefused(u) \/ UploadBegin(u) \/ UploadStep(u), UploadFrame
        PROVE  UNCHANGED <<deletions, targets, ids>>
    BY <2>1 DEF UploadFrame, deleteVars, UploadRefused, UploadBegin, UploadStep, UploadWrites, UploadActs,
       UploadChunk, UploadStore, UploadToDrive, UploadDeviceFails, UploadAck, UploadWoken, UploadAckTimeout,
       UploadRecord, UploadUnavailable, UploadCommit, UploadAnswer, Exec, InsertFile, InsertChunk,
       InsertLocation, SetSize, catalogVars
  <2>2. CASE (\E w \in Downloads : DownloadFrame) \/ ServerRestart \/ (\E d \in Devices : ComeOnline(d))
             \/ Quiet \/ UNCHANGED vars \/ \E h \in Handlers : BeginFails(h)
    BY <2>2 DEF DownloadFrame, ServerRestart, ComeOnline, BeginFails, Quiet, vars, requestVars, deleteVars, catalogVars
  <2>3. ASSUME NEW d \in Agents, AgentActs(d) \/ AgentFails(d) PROVE UNCHANGED <<deletions, targets, ids>>
    BY <2>3 DEF AgentActs, AgentFails, requestVars, deleteVars, AgentStep, AgentRestart, Poll, SaveChunk,
       SaveChunkFails, ReportChunkLocation, InsertLocation, SendAck, HandleRetrieve, HandleDelete, SyncDeletion,
       catalogVars
  <2>4. QED
    BY <2>1, <2>2, <2>3 DEF Next, Begin, Received, Step
<1>7. QED
  BY <1>2, <1>3, <1>4, <1>5, <1>6 DEF Removing

-----------------------------------------------------------------------------
(* The invariant is kept.                                                  *)

\* A chunk of a private file, and nobody else's.
LEMMA ChunkIsIn ==
  ASSUME TypeInv, NEW f \in Private, NEW i \in 1..Len(Content[f])
  PROVE  /\ Content[f][i] \in PrivateChunks /\ Content[f][i] \in Chunks /\ i \in Nat \ {0} /\ f \in Uploads
         /\ \A u \in Uploads : (UploadStore(u) \/ UploadToDrive(u)) /\ NextChunk(u) = Content[f][i] =>
              u = f /\ i = sequence[u] + 1
<1>1. Content[f] \in Seq(Chunks) /\ f \in Uploads
  BY ConstantFacts DEF Private
<1>2. ASSUME NEW u \in Uploads, UploadStore(u) \/ UploadToDrive(u), NextChunk(u) = Content[f][i]
      PROVE  u = f /\ i = sequence[u] + 1
  <2>1. pc[u] = "device"
    BY <1>2 DEF UploadStore, UploadToDrive
  <2>2. sequence[u] + 1 \in 1..Len(Content[u]) /\ u \in Files
    BY <2>1, ConstantFacts DEF TypeInv, RequestTypeOK, UploadAt
  <2>3. QED
    BY <1>2, <2>2 DEF Private, NextChunk
<1>3. QED
  BY <1>1, <1>2 DEF PrivateChunks

\* The step that offers a chunk to a device is the first to do so.
LEMMA OfferIsNew ==
  ASSUME TypeInv, DevicesOnce, [Next]_vars, NEW u \in Uploads, UploadStore(u) \/ UploadToDrive(u)
  PROVE  /\ ~ Offered(u, sequence[u] + 1, CurrentDevice(u))
         /\ Offered(u, sequence[u] + 1, CurrentDevice(u))'
<1>1. pc[u] = "device" /\ tries[u] < Len(devices[u])
  BY DEF UploadStore, UploadToDrive
<1>2. UNCHANGED <<devices, sequence, tries>> /\ \E s \in {"ack", "record"} : GoTo(u, s)
  BY DEF UploadStore, UploadToDrive, uploadVars
<1>3. tries[u] \in Nat /\ pc'[u] \in {"ack", "record"}
  BY <1>2, ConstantFacts DEF TypeInv, RequestTypeOK, GoTo
<1>4. \A t : t = tries[u] => DeviceOfTry(u, t)' = CurrentDevice(u)
  BY <1>2 DEF DeviceOfTry, CurrentDevice
<1>5. Offered(u, sequence[u] + 1, CurrentDevice(u))'
  <2>1. tries[u] \in 0..tries'[u] /\ sequence'[u] = sequence[u]
    BY <1>2, <1>3
  <2>2. \E t \in 0..tries'[u] : DeviceOfTry(u, t)' = CurrentDevice(u) /\ (pc'[u] = "device" => t < tries'[u])
    BY <1>3, <1>4, <2>1
  <2>3. CurrentDevice(u)' = CurrentDevice(u)
    BY <1>2 DEF CurrentDevice
  <2>4. QED
    BY <1>3, <2>1, <2>2, <2>3 DEF Offered
<1>6. QED
  BY <1>1, <1>5, TurnIsNew

LEMMA NextKept ==
  ASSUME TypeInv, RowsInv, KeptInv, [Next]_vars
  PROVE  KeptInv'
<1>1. DevicesOnce /\ RemovalsOfDeleted /\ SentWasOffered /\ StoresOnce /\ SavedIsWhole /\ RowsInPlace
  BY DEF KeptInv, RowsInv
<1>2. Agents \subseteq Devices
  BY ConstantFacts
<1>3. DevicesOnce'
  BY <1>1, NextDevicesOnce
<1>4. RemovalsOfDeleted'
  <2>1. SUFFICES ASSUME NEW f \in Private, Undeleted(f)', NEW i \in 1..Len(Content[f]), Removing(Content[f][i])'
                 PROVE  FALSE
    BY DEF RemovalsOfDeleted
  <2>2. ~ Removing(Content[f][i])
    BY <1>1, <2>1, UndeletedBefore DEF RemovalsOfDeleted
  <2>3. PICK x \in Deletes : pc'[x] # "idle" /\ Content[f][i] \in ChunksOf(FileOf[x])
    BY <2>1, <2>2, RemovingFrom, ChunkIsIn
  <2>4. HasRow(f, i)
    BY <1>1, <2>3 DEF RowsInPlace, ChunksOf
  <2>5. FileOf[x] = f
    BY <2>3, <2>4 DEF HasRow, ChunksOf
  <2>6. QED
    BY <2>1, <2>3, <2>5 DEF Undeleted
<1>5. SentWasOffered'
  <2>1. SUFFICES ASSUME NEW f \in Private, NEW i \in 1..Len(Content[f]), NEW d \in Devices, Sent(Content[f][i], d)'
                 PROVE  Offered(f, i, d)'
    BY DEF SentWasOffered
  <2> DEFINE c == Content[f][i]
  <2>2. c \in Chunks /\ i \in Nat \ {0} /\ f \in Uploads
    BY ChunkIsIn
  <2>3. CASE Sent(c, d)
    BY <1>1, <2>2, <2>3, OfferedGrows DEF SentWasOffered
  <2>4. ASSUME NEW u \in Uploads, UploadStore(u) \/ UploadToDrive(u), c = NextChunk(u), d = CurrentDevice(u)
        PROVE  Offered(f, i, d)'
    <3>1. u = f /\ i = sequence[u] + 1
      BY <2>4, ChunkIsIn
    <3>2. Offered(u, sequence[u] + 1, CurrentDevice(u))'
      BY <1>1, <2>4, OfferIsNew
    <3>3. sequence'[u] = sequence[u] /\ CurrentDevice(u)' = CurrentDevice(u)
      BY <2>4 DEF UploadStore, UploadToDrive, uploadVars, CurrentDevice
    <3>4. QED
      BY <2>4, <3>1, <3>2, <3>3 DEF Offered
  <2>5. ASSUME d \in Agents, InInbox(d, "STORE", c)' PROVE Offered(f, i, d)'
    <3>1. PICK m \in inbox'[d] : m.type = "STORE" /\ m.chunk = c
      BY <2>5 DEF InInbox
    <3>2. CASE m \in inbox[d]
      BY <2>3, <2>5, <3>1, <3>2 DEF Sent, InInbox
    <3>3. CASE Posted(d, m)
      BY <2>4, <3>1, <3>3 DEF Posted
    <3>4. QED
      BY <2>5, <3>2, <3>3, StepFacts DEF Facts
  <2>6. ASSUME d \in Agents, Carries(d, "STORE", c)' PROVE Offered(f, i, d)'
    <3>1. apc'[d] = "handling" /\ task'[d].type = "STORE" /\ task'[d].chunk = c /\ Takes(d)
      BY <2>6, StepFacts DEF Carries, Facts
    <3>2. Sent(c, d)
      BY <2>6, <3>1 DEF Takes, Sent, Carries, InInbox
    <3>3. QED
      BY <2>3, <3>2
  <2>7. ASSUME <<c, d>> \in saved' PROVE Offered(f, i, d)'
    <3>1. CASE <<c, d>> \in saved
      BY <2>3, <3>1 DEF Sent
    <3>2. CASE Saves(c, d)
      BY <2>3, <2>4, <3>2 DEF Saves, Sent
    <3>3. QED
      BY <2>2, <2>7, <3>1, <3>2, StepFacts DEF Facts
  <2>8. QED
    BY <2>1, <2>5, <2>6, <2>7 DEF Sent
<1>6. StoresOnce'
  <2>1. SUFFICES ASSUME NEW d \in Agents, NEW c \in PrivateChunks
                 PROVE  /\ \A m, n \in inbox'[d] :
                             m.type = "STORE" /\ n.type = "STORE" /\ m.chunk = c /\ n.chunk = c => m = n
                        /\ InInbox(d, "STORE", c)' => ~ Carries(d, "STORE", c)' /\ <<c, d>> \notin saved'
                        /\ Carries(d, "STORE", c)' => <<c, d>> \notin saved'
    BY DEF StoresOnce
  <2>2. d \in Devices /\ c \in Chunks
    BY <1>2 DEF PrivateChunks
  <2>13. PICK f \in Private : \E i \in 1..Len(Content[f]) : c = Content[f][i]
    BY DEF PrivateChunks
  <2>14. ASSUME NEW u \in Uploads, UploadStore(u), NextChunk(u) = c PROVE u = f
    BY <2>13, <2>14, ChunkIsIn
  <2>3. \* A new STORE goes where the chunk was never sent.
        ASSUME NEW u \in Uploads, UploadStore(u), d = CurrentDevice(u), c = NextChunk(u)
        PROVE  ~ Sent(c, d)
    <3>1. sequence[u] + 1 \in 1..Len(Content[u]) /\ u \in Private /\ c = Content[u][sequence[u] + 1]
      BY <2>3, <2>14, ConstantFacts DEF TypeInv, RequestTypeOK, UploadAt, UploadStore, NextChunk
    <3>2. ~ Offered(u, sequence[u] + 1, d)
      BY <1>1, <2>3, OfferIsNew
    <3>3. QED
      BY <1>1, <2>2, <3>1, <3>2 DEF SentWasOffered
  <2>4. ASSUME NEW m \in inbox'[d], m.type = "STORE", m.chunk = c
        PROVE  \/ m \in inbox[d]
               \/ /\ ~ Sent(c, d)
                  /\ \E u \in Uploads : /\ UploadStore(u) /\ NextChunk(u) = c
                                        /\ m = [type |-> "STORE", chunk |-> c, by |-> u]
    <3>1. m \in inbox[d] \/ Posted(d, m)
      BY StepFacts DEF Facts
    <3>2. ASSUME NEW u \in Uploads, UploadStore(u), d = CurrentDevice(u),
                 m = [type |-> "STORE", chunk |-> NextChunk(u), by |-> u]
          PROVE  NextChunk(u) = c /\ ~ Sent(c, d)
      BY <2>3, <2>4, <3>2
    <3>3. Posted(d, m) => \E u \in Uploads : /\ UploadStore(u) /\ d = CurrentDevice(u)
                                            /\ m = [type |-> "STORE", chunk |-> NextChunk(u), by |-> u]
      BY <2>4 DEF Posted
    <3>4. QED
      BY <3>1, <3>2, <3>3
  <2>5. ASSUME NEW u \in Uploads, NEW v \in Uploads, UploadStore(u), UploadStore(v), NextChunk(u) = c, NextChunk(v) = c
        PROVE  u = v
    BY <2>5, <2>14
  <2>6. ASSUME NEW m \in inbox'[d], NEW n \in inbox'[d],
               m.type = "STORE", n.type = "STORE", m.chunk = c, n.chunk = c
        PROVE  m = n
    <3>1. CASE m \in inbox[d] /\ n \in inbox[d]
      BY <1>1, <2>6, <3>1 DEF StoresOnce
    <3>2. CASE m \in inbox[d] \/ n \in inbox[d]
      <4>1. Sent(c, d)
        BY <2>6, <3>2 DEF Sent, InInbox
      <4>2. QED
        BY <2>4, <2>6, <3>1, <4>1
    <3>3. CASE m \notin inbox[d] /\ n \notin inbox[d]
      BY <2>4, <2>5, <2>6, <3>3
    <3>4. QED
      BY <3>1, <3>2, <3>3
  <2>7. \* What an agent handles it did before, or has taken from its inbox.
        ASSUME Carries(d, "STORE", c)'
        PROVE  \/ Carries(d, "STORE", c)
               \/ InInbox(d, "STORE", c) /\ ~ InInbox(d, "STORE", c)'
    <3>1. apc'[d] = "handling" /\ task'[d].type = "STORE" /\ task'[d].chunk = c /\ Takes(d)
      BY <2>7, StepFacts DEF Carries, Facts
    <3>2. CASE apc[d] = "handling" /\ task'[d] = task[d]
      BY <3>1, <3>2 DEF Carries
    <3>3. CASE task'[d] \in inbox[d] /\ inbox'[d] = inbox[d] \ {task'[d]}
      <4>1. \A m \in inbox[d] : m.type = "STORE" /\ m.chunk = c => m = task'[d]
        BY <1>1, <3>1, <3>3 DEF StoresOnce
      <4>2. QED
        BY <3>1, <3>3, <4>1 DEF InInbox
    <3>4. QED
      BY <3>1, <3>2, <3>3 DEF Takes
  <2>8. ASSUME <<c, d>> \in saved'
        PROVE  <<c, d>> \in saved \/ (Carries(d, "STORE", c) /\ ~ Carries(d, "STORE", c)')
    BY <2>2, <2>8, StepFacts DEF Facts, Saves, Carries
  <2>9. ASSUME InInbox(d, "STORE", c)' PROVE InInbox(d, "STORE", c) \/ ~ Sent(c, d)
    BY <2>4, <2>9 DEF InInbox
  <2>10. Sent(c, d) <=> InInbox(d, "STORE", c) \/ Carries(d, "STORE", c) \/ <<c, d>> \in saved
    BY DEF Sent
  <2>11. /\ InInbox(d, "STORE", c) => ~ Carries(d, "STORE", c) /\ <<c, d>> \notin saved
         /\ Carries(d, "STORE", c) => <<c, d>> \notin saved
    BY <1>1 DEF StoresOnce
  <2>12. QED
    BY <2>6, <2>7, <2>8, <2>9, <2>10, <2>11
<1>7. SavedIsWhole'
  <2>1. SUFFICES ASSUME NEW f \in Private, Undeleted(f)', NEW i \in 1..Len(Content[f]), NEW d \in Devices,
                        <<Content[f][i], d>> \in saved'
                 PROVE  stored'[d][Content[f][i]] = "whole"
    BY DEF SavedIsWhole
  <2> DEFINE c == Content[f][i]
  <2>2. Undeleted(f) /\ c \in Chunks /\ c \in PrivateChunks
    BY <2>1, UndeletedBefore, ChunkIsIn
  <2>3. CASE Saves(c, d)
    BY <2>3 DEF Saves
  <2>4. CASE <<c, d>> \in saved
    <3>1. stored[d][c] = "whole" /\ ~ Removing(c)
      BY <1>1, <2>2, <2>4 DEF SavedIsWhole, RemovalsOfDeleted
    <3>2. d \in Agents => ~ Carries(d, "STORE", c)
      BY <1>1, <2>2, <2>4 DEF StoresOnce
    <3>3. QED
      BY <2>2, <3>1, <3>2, StepFacts DEF Facts, Disturbs
  <2>5. QED
    BY <2>1, <2>2, <2>3, <2>4, StepFacts DEF Facts
<1>8. QED
  BY <1>3, <1>4, <1>5, <1>6, <1>7 DEF KeptInv

\* What the upload of a private file was answered 200 for is whole on some device
\* until a delete of the file begins, whatever the other files share.
PrivateIsStored == \A f \in Private : WholeSomewhere(f)

THEOREM PrivateFilesStayStored == Spec => []PrivateIsStored
<1>1. CommittedWasSaved /\ KeptInv => PrivateIsStored
  BY ConstantFacts DEF CommittedWasSaved, KeptInv, SavedIsWhole, PrivateIsStored, WholeSomewhere, Private
<1>2. Spec => []CommittedWasSaved
  BY AnsweredWasSaved
<1>3. QED
  BY <1>1, <1>2, InitType, NextType, InitRows, NextRows, InitKept, NextKept, PTL DEF Spec

\* If no two chunks are the same, that is so for every file.
THEOREM CommittedStaysStored ==
  ASSUME Private = Files
  PROVE  Spec => []CommittedIsStored
<1>1. PrivateIsStored => CommittedIsStored
  BY DEF PrivateIsStored, CommittedIsStored
<1>2. QED
  BY <1>1, PrivateFilesStayStored, PTL

=============================================================================
