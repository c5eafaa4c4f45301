------------------------------ MODULE Catalog ------------------------------
(***************************************************************************)
(* The server's SQLite tables files, chunks, chunk_locations and           *)
(* deleted_files, and the statements the handlers of the file service run  *)
(* on them (server/db/db.go, server/api/upload.go, download.go,            *)
(* metadata.go, rebalance.go).  The handlers open no transaction: each     *)
(* statement commits by itself, so each is one step, and what a handler    *)
(* does between two statements interleaves with everybody else.            *)
(*                                                                         *)
(* A file is named by the upload that makes it (its id is a fresh UUID).   *)
(* A chunk's id is the hash of its bytes, so a chunk is its content, and   *)
(* the primary key of chunks lets one row exist for each content.          *)
(***************************************************************************)
EXTENDS Naturals, Sequences, FiniteSets

CONSTANTS
  Files,      \* the files uploads make
  Chunks,     \* contents of one chunk
  Devices,    \* the user's devices
  Content,    \* the chunks of each file, in order
  NoRow       \* no row of chunks has this id

ASSUME ContentAssumption == Content \in [Files -> Seq(Chunks)]

VARIABLES
  files,      \* files: no row, a row whose size is still NULL, or a full row
  chunks,     \* chunks: the file_id and the sequence of each id
  locations,  \* chunk_locations
  deletions   \* deleted_files: a file_id and its chunk_ids

catalogVars == <<files, chunks, locations, deletions>>

Rows == [file : Files, sequence : Nat]

CatalogTypeOK ==
  /\ files \in [Files -> {"absent", "open", "committed"}]
  /\ chunks \in [Chunks -> Rows \cup {NoRow}]
  /\ locations \subseteq Chunks \X Devices
  /\ deletions \subseteq [file : Files, ids : SUBSET Chunks]

CatalogInit ==
  /\ files = [f \in Files |-> "absent"]
  /\ chunks = [c \in Chunks |-> NoRow]
  /\ locations = {}
  /\ deletions = {}

\* The ids SELECT finds for a file, in no order.
ChunksOf(f) == {c \in Chunks : chunks[c] # NoRow /\ chunks[c].file = f}

\* INSERT INTO files, without a size.
InsertFile(f) ==
  /\ files' = [files EXCEPT ![f] = "open"]
  /\ UNCHANGED <<chunks, locations, deletions>>

\* An insert that numbers the chunks from one.
InsertChunkShifted(c, f, s) ==
  /\ chunks' = [chunks EXCEPT ![c] = IF @ = NoRow THEN [file |-> f, sequence |-> s + 1] ELSE @]
  /\ UNCHANGED <<files, locations, deletions>>

\* INSERT OR IGNORE INTO chunks: nothing happens if the id has a row.
InsertChunk(c, f, s) ==
  /\ chunks' = [chunks EXCEPT ![c] = IF @ = NoRow THEN [file |-> f, sequence |-> s] ELSE @]
  /\ UNCHANGED <<files, locations, deletions>>

\* INSERT OR IGNORE INTO chunk_locations.
InsertLocation(c, d) ==
  /\ locations' = locations \cup {<<c, d>>}
  /\ UNCHANGED <<files, chunks, deletions>>

\* DELETE FROM chunk_locations, one row.
DeleteLocation(c, d) ==
  /\ locations' = locations \ {<<c, d>>}
  /\ UNCHANGED <<files, chunks, deletions>>

\* An upsert: a file that was deleted meanwhile comes back.
SetSizeUpsert(f) ==
  /\ files' = [files EXCEPT ![f] = "committed"]
  /\ UNCHANGED <<chunks, locations, deletions>>

\* UPDATE files SET size, hash: no row, no effect, and no error either.
SetSize(f) ==
  /\ files' = [files EXCEPT ![f] = IF @ = "absent" THEN @ ELSE "committed"]
  /\ UNCHANGED <<chunks, locations, deletions>>

\* INSERT INTO deleted_files.
InsertDeletion(f, ids) ==
  /\ deletions' = deletions \cup {[file |-> f, ids |-> ids]}
  /\ UNCHANGED <<files, chunks, locations>>

\* DELETE FROM chunk_locations, for the chunks that are now the file's.
DeleteLocationsOf(f) ==
  /\ locations' = {l \in locations : l[1] \notin ChunksOf(f)}
  /\ UNCHANGED <<files, chunks, deletions>>

\* DELETE FROM chunks WHERE file_id = ?.
DeleteChunksOf(f) ==
  /\ chunks' = [c \in Chunks |-> IF c \in ChunksOf(f) THEN NoRow ELSE chunks[c]]
  /\ UNCHANGED <<files, locations, deletions>>

\* DELETE FROM files WHERE id = ?.
DeleteFileRow(f) ==
  /\ files' = [files EXCEPT ![f] = "absent"]
  /\ UNCHANGED <<chunks, locations, deletions>>

=============================================================================
