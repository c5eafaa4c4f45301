----------------------------- MODULE FileStore -----------------------------
(***************************************************************************)
(* What the server's file service promises to those who make requests,     *)
(* with none of its chunks, devices, messages, time-outs and tables: a     *)
(* store of whole texts.  An upload that is answered yes has kept its      *)
(* file; a download of a kept file ends with the whole text or is seen to  *)
(* fail; a delete that is answered yes has dropped its file for ever, also *)
(* one whose upload is still running.  A request that is not answered yes  *)
(* may have failed at any point, its effect done or not, and all open      *)
(* requests fail when the server stops, except a download that the client  *)
(* already has all of.                                                     *)
(*                                                                         *)
(* Only a request of which the database refused a statement may be worse:  *)
(* an upload that is answered yes and keeps nothing, and a request that is *)
(* refused although its file is there.                                     *)
(*                                                                         *)
(* FileService.tla implements this (FileServiceProofs.tla proves it).      *)
(***************************************************************************)
CONSTANTS
  Files,       \* the files; an upload is named by the file it makes
  Downloads,
  Deletes,
  FileOf,      \* the file a download or a delete names
  Text,        \* what each file holds
  Nothing      \* what a download has got that failed or has not ended

VARIABLES
  known,       \* the files that can be deleted
  kept,        \* the files that can be downloaded
  answer,      \* of each request: none made, open, yes or no
  got,         \* what each download got
  refused      \* the requests of which the database refused a statement

storeVars == <<known, kept, answer, got, refused>>

Requests == Files \cup Downloads \cup Deletes

Init ==
  /\ known = {}
  /\ kept = {}
  /\ answer = [h \in Requests |-> "none"]
  /\ got = [w \in Downloads |-> Nothing]
  /\ refused = {}

\* The request moves on, perhaps because of a statement that was refused.
Turn(h, from, to) ==
  /\ answer[h] = from
  /\ answer' = [answer EXCEPT ![h] = to]
  /\ refused' \in {refused, refused \cup {h}}

\* A download begins only of a kept file, a delete of a known one.
Begin(h) ==
  /\ h \in Downloads => FileOf[h] \in kept
  /\ h \in Deletes => FileOf[h] \in known
  /\ Turn(h, "none", "open")
  /\ known' = IF h \in Files THEN known \cup {h} ELSE known
  /\ UNCHANGED <<kept, got>>

\* No kept file is refused to a download, and no known one to a delete.
Refuse(h) ==
  /\ Turn(h, "none", "no")
  /\ h \in Downloads => FileOf[h] \notin kept \/ h \in refused'
  /\ h \in Deletes => FileOf[h] \notin known \/ h \in refused'
  /\ UNCHANGED <<known, kept, got>>

\* An upload or a download fails, and a delete if its last statement does.
GiveUp(h) ==
  /\ Turn(h, "open", "no")
  /\ h \in Deletes => h \in refused'
  /\ UNCHANGED <<known, kept, got>>

\* A statement of an open request is refused, which it does not notice.
RefuseStatement(h) ==
  /\ answer[h] = "open"
  /\ refused' = refused \cup {h}
  /\ UNCHANGED <<known, kept, answer, got>>

\* The file of an open upload is kept from here on, unless it was deleted.
Keep(u) ==
  /\ answer[u] = "open"
  /\ u \in known
  /\ kept' = kept \cup {u}
  /\ UNCHANGED <<known, answer, got, refused>>

\* An upload ends well.
Store(u) ==
  /\ Turn(u, "open", "yes")
  /\ u \in kept \/ u \notin known \/ u \in refused'
  /\ UNCHANGED <<known, kept, got>>

\* A download ends, with all of its file.
Read(w) ==
  /\ Turn(w, "open", "yes")
  /\ got' = [got EXCEPT ![w] = Text[FileOf[w]]]
  /\ UNCHANGED <<known, kept>>

\* The file of an open delete is gone from here on.
Drop(x) ==
  /\ answer[x] = "open"
  /\ known' = known \ {FileOf[x]}
  /\ kept' = kept \ {FileOf[x]}
  /\ UNCHANGED <<answer, got, refused>>

\* A delete ends well.
Remove(x) ==
  /\ FileOf[x] \notin known
  /\ Turn(x, "open", "yes")
  /\ UNCHANGED <<known, kept, got>>

\* The server stops.
Stop ==
  \E done \in SUBSET {w \in Downloads : answer[w] = "open"} :
    /\ answer' = [h \in Requests |-> IF answer[h] # "open" THEN answer[h]
                                     ELSE IF h \in done THEN "yes" ELSE "no"]
    /\ got' = [w \in Downloads |-> IF w \in done THEN Text[FileOf[w]] ELSE got[w]]
    /\ UNCHANGED <<known, kept, refused>>

Next ==
  \/ \E h \in Requests : Begin(h) \/ Refuse(h) \/ GiveUp(h) \/ RefuseStatement(h)
  \/ \E u \in Files : Keep(u) \/ Store(u)
  \/ \E w \in Downloads : Read(w)
  \/ \E x \in Deletes : Drop(x) \/ Remove(x)
  \/ Stop

Spec == Init /\ [][Next]_storeVars

=============================================================================
