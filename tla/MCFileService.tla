--------------------------- MODULE MCFileService ---------------------------
(***************************************************************************)
(* Instances of FileService for TLC.  Contents are given as tuples, which  *)
(* a configuration cannot write; the lengths make every chunk 8 bytes.     *)
(***************************************************************************)
EXTENDS FileService

CONSTANTS
  u1, u2,       \* the uploads
  a, b, c,      \* contents of one chunk
  Split         \* TRUE: u1 is <<a, b>> and u2 <<c>>; FALSE: both are <<a>>

MCContent ==
  [f \in Files |-> IF Split THEN IF f = u1 THEN <<a, b>> ELSE <<c>> ELSE <<a>>]

\* Every download and delete of the instances names the first upload.
MCFileOf == [h \in Downloads \cup Deletes |-> u1]

MCLength == [k \in Chunks |-> 8]

\* The agents are interchangeable.
MCSymmetry == Permutations(Agents)

\* The view leaves out what no later step reads and no property speaks of:
\* acknowledgements, chunks and wake-ups for which no request is left that could
\* wait, what requests that have ended had in their variables, what was saved
\* once the uploads have ended, but for whether it was enough, what is stored
\* once nobody can read it, and who comes online after the uploads began, which
\* gives a chunk to none but the devices that were online then.
MCAwaited ==
  (IF \A u \in Uploads : pc[u] \in Final THEN {} ELSE {"ack"}) \cup
  (IF \A w \in Downloads : pc[w] \in Final THEN {} ELSE {"chunk"})

MCUpload(u) ==
  CASE pc[u] \in Final \cup {"answer"} -> <<>>
    [] pc[u] = "chunk"                 -> <<devices[u], sequence[u]>>
    [] OTHER                           -> <<devices[u], sequence[u], tries[u]>>

MCDownload(w) ==
  CASE pc[w] \in Final              -> IF ClientAccepts(w) THEN <<body[w]>> ELSE <<>>
    [] pc[w] \in {"request", "data"} -> <<body[w], rows[w], candidates[w]>>
    [] OTHER                         -> <<body[w], rows[w]>>

MCDelete(x) ==
  CASE pc[x] = "notify"   -> targets[x]
    [] pc[x] = "deletion" -> ids[x]
    [] OTHER              -> {}

MCStored == IF "chunk" \notin MCAwaited /\ \A f \in Files : ~Undeleted(f) THEN <<>> ELSE stored

MCOnline == IF \E u \in Uploads : pc[u] = "idle" THEN online ELSE {}

MCView ==
  <<catalogVars, inbox, {k \in answers : k.key[1] \in MCAwaited}, sentOn \cap (MCAwaited \X Chunks),
    MCStored, IF "ack" \in MCAwaited THEN saved ELSE CommittedWasSaved, loopVars, MCOnline, pc, faultVars,
    [u \in Uploads |-> MCUpload(u)], [w \in Downloads |-> MCDownload(w)], [x \in Deletes |-> MCDelete(x)]>>

=============================================================================
