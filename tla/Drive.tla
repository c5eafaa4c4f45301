------------------------------- MODULE Drive -------------------------------
(***************************************************************************)
(* Chunks kept in Google Drive: GDriveManager of the server                *)
(* (server/api/gdrive.go), one for all users, and GDriveStore of an agent  *)
(* in gdrive mode (agent/storage/gdrive_store.go).  Each operation is a    *)
(* call: it looks for the folder, for the chunk's file in it, and then     *)
(* creates, gets or removes a file, in requests of their own, so that      *)
(* calls interleave between any two of them.                               *)
(*                                                                         *)
(* A call makes at most one folder and one file, which are named by it.    *)
(* Google Drive itself is external: names need not be unique, a list       *)
(* comes in any order, a folder of another account is not found, and any   *)
(* request may fail, whether or not it was carried out.                    *)
(***************************************************************************)
EXTENDS Naturals

CONSTANTS
  Calls,        \* calls of the operations
  Kind,         \* what each of them is
  Chunk,        \* the chunk it names
  Account,      \* the Google account it is for
  Store,        \* the process that carries it out: the server, or an agent
  Server,       \* the server
  Nothing,      \* no folder, no file
  MaxErrors,    \* bound: requests that fail
  MaxRestarts   \* bound: restarts of a process

ASSUME DriveAssumption ==
  /\ Kind \in [Calls -> {"prepare", "save", "get", "delete", "sync"}]
  /\ Nothing \notin Calls
  /\ MaxErrors \in Nat /\ MaxRestarts \in Nat
  /\ \A j, k \in Calls : Store[j] = Store[k] /\ Store[k] # Server => Account[j] = Account[k]

Stores == {Store[k] : k \in Calls}
Accounts == {Account[k] : k \in Calls}

VARIABLES
  folders,    \* the folders that exist
  files,      \* the files that exist
  cache,      \* FolderID of each process
  connected,  \* the accounts the server has a token for
  pc,         \* where each call is
  folder,     \* the folder it works in
  found,      \* the file it has found
  earlier,    \* history: the saves that had ended when it began
  errors,     \* requests that failed so far
  restarts    \* restarts so far

driveVars == <<folders, files>>
vars == <<driveVars, cache, connected, pc, folder, found, earlier, errors, restarts>>

Ended == {"ok", "failed", "lost"}
Phases == {"idle", "folder", "make", "find", "remove", "create", "get"} \cup Ended

TypeOK ==
  /\ folders \subseteq Calls
  /\ files \subseteq Calls
  /\ cache \in [Stores -> Calls \cup {Nothing}]
  /\ connected \subseteq Accounts
  /\ pc \in [Calls -> Phases]
  /\ folder \in [Calls -> Calls \cup {Nothing}]
  /\ found \in [Calls -> Calls \cup {Nothing}]
  /\ earlier \in [Calls -> SUBSET Calls]
  /\ errors \in 0..MaxErrors
  /\ restarts \in 0..MaxRestarts

Init ==
  /\ folders = {} /\ files = {}
  /\ cache = [s \in Stores |-> Nothing]
  /\ connected = {}
  /\ pc = [k \in Calls |-> "idle"]
  /\ folder = [k \in Calls |-> Nothing]
  /\ found = [k \in Calls |-> Nothing]
  /\ earlier = [k \in Calls |-> {}]
  /\ errors = 0 /\ restarts = 0

Running(k) == pc[k] \notin Ended \cup {"idle"}

\* The files that are copies of this chunk in this folder.
Copies(f, c) == {k \in files : folder[k] = f /\ Chunk[k] = c}

\* The server calls its folder "GenDrive Data", agents "GenDrive_Store".
SameName(s, t) == s = Server <=> t = Server
FoldersFor(k) == {f \in folders : Account[f] = Account[k] /\ SameName(Store[f], Store[k])}

\* The call's folder can be seen from its account.
Visible(k) == folder[k] # Nothing /\ Account[folder[k]] = Account[k]

GoTo(k, phase) == pc' = [pc EXCEPT ![k] = phase]

\* A request fails.
Fails == errors < MaxErrors /\ errors' = errors + 1

-----------------------------------------------------------------------------
(* Beginning.                                                              *)

Starts(k) ==
  /\ pc[k] = "idle"
  /\ earlier' = [earlier EXCEPT ![k] =
       {j \in Calls : Kind[j] = "save" /\ SameName(Store[j], Store[k]) /\ pc[j] \in Ended}]
  /\ UNCHANGED <<driveVars, found, restarts>>

\* A call that has its folder goes on to the chunk's file.
WithFolder(k, f) ==
  /\ folder' = [folder EXCEPT ![k] = f]
  /\ GoTo(k, IF Kind[k] = "prepare" THEN "ok" ELSE "find")

\* getOrCreateFolder: the cached folder, whoever's it is.
UseFolder(k) ==
  IF cache[Store[k]] # Nothing
    THEN WithFolder(k, cache[Store[k]])
    ELSE GoTo(k, "folder") /\ UNCHANGED folder

\* saveToken, and the row of the device GDrive-<user>: inserted or updated.  An
\* error of the first is logged and of the second ignored, and the callback goes on.
SaveToken(k) == connected' \in {connected, connected \cup {Account[k]}}

\* getToken: without a row the call ends at once.
HasToken(k) == Account[k] \in connected

\* A callback that connects the wrong name.
ConnectAsCall(k) ==
  /\ Kind[k] = "prepare" /\ Store[k] = Server
  /\ Starts(k)
  /\ connected' = connected \cup {k}
  /\ UseFolder(k)
  /\ UNCHANGED <<cache, errors>>

\* HandleCallback: the token and the device are saved, and a goroutine looks
\* for the folder.  The exchange of the code may fail.
Connect(k) ==
  /\ Kind[k] = "prepare" /\ Store[k] = Server
  /\ Starts(k)
  /\ \/ /\ SaveToken(k)
        /\ UseFolder(k)
        /\ UNCHANGED errors
     \/ /\ Fails
        /\ GoTo(k, "failed")
        /\ UNCHANGED <<connected, folder>>
  /\ UNCHANGED cache

\* UploadChunk, DownloadChunk and DeleteChunk for a user who is connected.
BeginServer(k) ==
  /\ Kind[k] # "prepare" /\ Store[k] = Server
  /\ HasToken(k)
  /\ Starts(k)
  /\ UseFolder(k)
  /\ UNCHANGED <<cache, connected, errors>>

\* FolderID is read while another call writes it: half of the string is there,
\* and the handler panics.
ReadTorn(k) ==
  /\ Kind[k] # "prepare" /\ Store[k] = Server
  /\ HasToken(k)
  /\ cache[Server] = Nothing
  /\ \E j \in Calls : Store[j] = Server /\ pc[j] \in {"folder", "make"}
  /\ Starts(k)
  /\ GoTo(k, "lost")
  /\ UNCHANGED <<cache, connected, folder, errors>>

\* NewGDriveStore, when the agent starts.
StartAgent(k) ==
  /\ Kind[k] = "prepare" /\ Store[k] # Server
  /\ cache[Store[k]] = Nothing
  /\ \A j \in Calls : Store[j] = Store[k] => ~Running(j)
  /\ Starts(k)
  /\ GoTo(k, "folder")
  /\ UNCHANGED <<cache, connected, folder, errors>>

\* SaveChunk, GetChunk and DeleteChunk: the receiver does one after the other,
\* the deletion sync runs beside it.
BeginAgent(k) ==
  /\ Kind[k] # "prepare" /\ Store[k] # Server
  /\ cache[Store[k]] # Nothing
  /\ \A j \in Calls : Running(j) /\ Store[j] = Store[k] => (Kind[j] = "sync") # (Kind[k] = "sync")
  /\ Starts(k)
  /\ WithFolder(k, cache[Store[k]])
  /\ UNCHANGED <<cache, connected, errors>>

-----------------------------------------------------------------------------
(* getOrCreateFolder.                                                      *)

Resolved(k, f) ==
  /\ cache' = [cache EXCEPT ![Store[k]] = f]
  /\ WithFolder(k, f)

\* Files.List answers: the first one, or one has to be made.
ListFolders(k) ==
  /\ pc[k] = "folder"
  /\ \/ \E f \in FoldersFor(k) : Resolved(k, f)
     \/ FoldersFor(k) = {} /\ GoTo(k, "make") /\ UNCHANGED <<cache, folder>>
  /\ UNCHANGED <<driveVars, errors>>

MakeFolder(k) ==
  /\ pc[k] = "make"
  /\ folders' = folders \cup {k}
  /\ Resolved(k, k)
  /\ UNCHANGED <<files, errors>>

\* An error ends the call: DownloadChunk ignores it and finds nothing.
FolderFails(k) ==
  /\ pc[k] \in {"folder", "make"}
  /\ Fails
  /\ folders' \in {folders} \cup (IF pc[k] = "make" THEN {folders \cup {k}} ELSE {})
  /\ GoTo(k, "failed")
  /\ UNCHANGED <<files, cache, folder>>

FolderStep(k) ==
  /\ ListFolders(k) \/ MakeFolder(k) \/ FolderFails(k)
  /\ UNCHANGED <<connected, found, earlier, restarts>>

-----------------------------------------------------------------------------
(* The chunk's file.                                                       *)

\* findFileID: the first of the files with the chunk's name.
FindFile(k) ==
  /\ pc[k] = "find"
  /\ Visible(k)
  /\ \E f \in Copies(folder[k], Chunk[k]) : found' = [found EXCEPT ![k] = f]
  /\ GoTo(k, IF Kind[k] = "get" THEN "get" ELSE "remove")
  /\ UNCHANGED <<files, errors>>

\* An upload that does not look for what it replaces.
FindNoneEver(k) ==
  /\ pc[k] = "find"
  /\ ~Visible(k) \/ Copies(folder[k], Chunk[k]) = {} \/ Kind[k] = "save"
  /\ GoTo(k, CASE Kind[k] = "save" -> "create" [] Kind[k] = "get" -> "failed" [] OTHER -> "ok")
  /\ UNCHANGED <<files, found, errors>>

\* There is none, or the folder is not found: nothing to remove for a save,
\* and nothing left to do for a delete.
FindNone(k) ==
  /\ pc[k] = "find"
  /\ ~Visible(k) \/ Copies(folder[k], Chunk[k]) = {}
  /\ GoTo(k, CASE Kind[k] = "save" -> "create" [] Kind[k] = "get" -> "failed" [] OTHER -> "ok")
  /\ UNCHANGED <<files, found, errors>>

\* What becomes of a call whose lookup or removal failed: a save does not look
\* at the error, and DeleteChunk of the server returns nil.
AfterError(k) ==
  CASE Kind[k] = "save" -> "create"
    [] Kind[k] = "delete" /\ Store[k] = Server -> "ok"
    [] OTHER -> "failed"

FindFails(k) ==
  /\ pc[k] = "find"
  /\ Fails
  /\ GoTo(k, AfterError(k))
  /\ UNCHANGED <<files, found>>

\* A removal that is not waited for.
RemoveFileAnswered(k) ==
  /\ pc[k] = "remove"
  /\ files' \in {files, files \ {found[k]}}
  /\ GoTo(k, IF Kind[k] = "save" THEN "create" ELSE "ok")
  /\ UNCHANGED <<found, errors>>

\* Files.Delete of the file found, which somebody may have removed since.
RemoveFile(k) ==
  /\ pc[k] = "remove"
  /\ files' = files \ {found[k]}
  /\ GoTo(k, IF Kind[k] = "save" THEN "create" ELSE "ok")
  /\ UNCHANGED <<found, errors>>

RemoveFails(k) ==
  /\ pc[k] = "remove"
  /\ Fails
  /\ files' \in {files, files \ {found[k]}}
  /\ GoTo(k, AfterError(k))
  /\ UNCHANGED found

\* A save that answers before Google does.
CreateFileUnchecked(k) ==
  /\ pc[k] = "create"
  /\ files' \in {files, files \cup {k}}
  /\ GoTo(k, "ok")
  /\ UNCHANGED <<found, errors>>

\* Files.Create, in the folder: one of another account is refused.
CreateFile(k) ==
  /\ pc[k] = "create"
  /\ files' = IF Visible(k) THEN files \cup {k} ELSE files
  /\ GoTo(k, IF Visible(k) THEN "ok" ELSE "failed")
  /\ UNCHANGED <<found, errors>>

CreateFails(k) ==
  /\ pc[k] = "create"
  /\ Fails
  /\ files' \in {files} \cup (IF Visible(k) THEN {files \cup {k}} ELSE {})
  /\ GoTo(k, "failed")
  /\ UNCHANGED found

\* Files.Get of the file found.
GetFile(k) ==
  /\ pc[k] = "get"
  /\ GoTo(k, IF found[k] \in files THEN "ok" ELSE "failed")
  /\ UNCHANGED <<files, found, errors>>

GetFails(k) ==
  /\ pc[k] = "get"
  /\ Fails
  /\ GoTo(k, "failed")
  /\ UNCHANGED <<files, found>>

FileStep(k) ==
  /\ \/ FindFile(k) \/ FindNone(k) \/ FindFails(k)
     \/ RemoveFile(k) \/ RemoveFails(k)
     \/ CreateFile(k) \/ CreateFails(k)
     \/ GetFile(k) \/ GetFails(k)
  /\ UNCHANGED <<folders, cache, connected, folder, earlier, restarts>>

\* A process is stopped and started again: a request of it that is under way
\* may still be carried out.
Restart(s) ==
  /\ restarts < MaxRestarts
  /\ restarts' = restarts + 1
  /\ cache' = [cache EXCEPT ![s] = Nothing]
  /\ pc' = [k \in Calls |-> IF Store[k] = s /\ Running(k) THEN "lost" ELSE pc[k]]
  /\ \E done \in SUBSET {k \in Calls : Store[k] = s /\ pc[k] \in {"make", "remove", "create"}} :
       /\ folders' = folders \cup {k \in done : pc[k] = "make"}
       /\ files' = (files \ {found[k] : k \in {j \in done : pc[j] = "remove"}})
                     \cup {k \in done : pc[k] = "create" /\ Visible(k)}
  /\ UNCHANGED <<connected, folder, found, earlier, errors>>

-----------------------------------------------------------------------------
Begin(k) == Connect(k) \/ BeginServer(k) \/ ReadTorn(k) \/ StartAgent(k) \/ BeginAgent(k)

Next ==
  \/ \E k \in Calls : Begin(k) \/ FolderStep(k) \/ FileStep(k)
  \/ \E s \in Stores : Restart(s)

Spec == Init /\ [][Next]_vars

-----------------------------------------------------------------------------
(* Properties.                                                             *)

\* The calls that may have removed what the save k made.
Removers(k) ==
  {j \in Calls \ {k} : /\ Chunk[j] = Chunk[k] /\ folder[j] = folder[k]
                       /\ \/ Kind[j] \in {"delete", "sync"} /\ pc[j] # "idle"
                          \/ Kind[j] = "save" /\ pc[j] # "ok"}

\* What a save has stored stays in its folder, although each save first
\* removes what it finds: only a delete, or a save that has not succeeded
\* itself, can take it away, in any interleaving and with any request failing
\* (gdrive.go:181-195, gdrive_store.go:64-94).
SavedIsKept ==
  \A k \in Calls : Kind[k] = "save" /\ pc[k] = "ok" =>
    Copies(folder[k], Chunk[k]) # {} \/ Removers(k) # {}

\* The saves of this chunk that worked in this folder.
SavesIn(f, c) == {k \in Calls : Kind[k] = "save" /\ folder[k] = f /\ Chunk[k] = c}

OneAfterTheOther(S) == \A j, k \in S : j = k \/ j \in earlier[k] \/ k \in earlier[j]

\* A chunk has two files only if a request failed or two saves of it ran at
\* the same time: deletes beside them, restarts and saves of an agent that are
\* cut off do not make duplicates (gdrive.go:183, gdrive_store.go:66-70).
DuplicatesNeedOverlap ==
  \A j, k \in files :
    j # k /\ Chunk[j] = Chunk[k] /\ folder[j] = folder[k] /\ errors = 0
      => ~OneAfterTheOther(SavesIn(folder[k], Chunk[k]))

\* A delete that nothing failed and no save overlapped leaves no copy behind
\* (gdrive.go:227-243, gdrive_store.go:119-129).
DeletedIsGone ==
  \A x \in Calls :
    /\ Kind[x] \in {"delete", "sync"} /\ pc[x] = "ok" /\ errors = 0 /\ Visible(x)
    /\ SavesIn(folder[x], Chunk[x]) \subseteq earlier[x]
    /\ OneAfterTheOther(SavesIn(folder[x], Chunk[x]))
    => Copies(folder[x], Chunk[x]) = {}

=============================================================================
