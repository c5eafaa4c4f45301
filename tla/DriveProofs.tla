---------------------------- MODULE DriveProofs ----------------------------
(***************************************************************************)
(* What is proved of Drive, for any calls of any processes and accounts,   *)
(* and any number of requests that fail.                                   *)
(***************************************************************************)
EXTENDS Drive, TLAPS

\* A call has its folder when it is at the chunk's file, and keeps it.
FolderInv ==
  \A k \in Calls :
    /\ pc[k] \in {"idle", "folder", "make"} => folder[k] = Nothing
    /\ pc[k] \in {"find", "remove", "create", "get"} => folder[k] \in Calls /\ Kind[k] # "prepare"
    /\ pc[k] = "ok" => folder[k] \in Calls

\* A call is about to remove a copy of its own chunk from its own folder, and
\* only a save creates a file.
FileInv ==
  \A k \in Calls :
    /\ pc[k] = "remove" => /\ Kind[k] # "get"
                           /\ found[k] \in Calls
                           /\ Chunk[found[k]] = Chunk[k]
                           /\ folder[found[k]] = folder[k]
    /\ pc[k] = "create" => Kind[k] = "save"
    /\ pc[k] = "get" => Kind[k] = "get"
    /\ k \in files => pc[k] \in Ended

IInv == TypeOK /\ FolderInv /\ FileInv

\* Every step leaves the calls in the sets they are in.
THEOREM TypeCorrect == Spec => []TypeOK
<1> USE DriveAssumption DEF TypeOK, Stores, Accounts, Phases, Ended
<1>1. Init => TypeOK
  BY DEF Init
<1>2. TypeOK /\ [Next]_vars => TypeOK'
  <2> SUFFICES ASSUME TypeOK, [Next]_vars PROVE TypeOK'
    OBVIOUS
  <2>1. ASSUME NEW k \in Calls, Begin(k) PROVE TypeOK'
    <3> USE DEF Starts, UseFolder, WithFolder, GoTo, Fails, driveVars
    <3>1. CASE Connect(k)
      BY <3>1 DEF Connect, SaveToken
    <3>2. CASE BeginServer(k)
      BY <3>2 DEF BeginServer
    <3>3. CASE ReadTorn(k)
      BY <3>3 DEF ReadTorn
    <3>4. CASE StartAgent(k)
      BY <3>4 DEF StartAgent
    <3>5. CASE BeginAgent(k)
      BY <3>5 DEF BeginAgent
    <3> QED BY <2>1, <3>1, <3>2, <3>3, <3>4, <3>5 DEF Begin
  <2>2. ASSUME NEW k \in Calls, FolderStep(k) PROVE TypeOK'
    <3> USE DEF Resolved, WithFolder, GoTo, Fails, driveVars
    <3>1. CASE ListFolders(k)
      <4>1. FoldersFor(k) \subseteq Calls /\ Store[k] \in Stores
        BY DEF FoldersFor
      <4>2. UNCHANGED <<folders, files, connected, found, earlier, restarts, errors>>
        BY <2>2, <3>1 DEF FolderStep, ListFolders
      <4>3. ASSUME NEW f \in FoldersFor(k), Resolved(k, f) PROVE TypeOK'
        BY <4>1, <4>2, <4>3
      <4>4. CASE GoTo(k, "make") /\ UNCHANGED <<cache, folder>>
        BY <4>2, <4>4
      <4> QED BY <3>1, <4>3, <4>4 DEF ListFolders
    <3>2. CASE MakeFolder(k)
      BY <2>2, <3>2 DEF FolderStep, MakeFolder
    <3>3. CASE FolderFails(k)
      BY <2>2, <3>3 DEF FolderStep, FolderFails
    <3> QED BY <2>2, <3>1, <3>2, <3>3 DEF FolderStep
  <2>3. ASSUME NEW k \in Calls, FileStep(k) PROVE TypeOK'
    <3> USE DEF GoTo, Fails
    <3>1. CASE FindFile(k)
      BY <2>3, <3>1 DEF FileStep, FindFile, Copies
    <3>2. CASE FindNone(k) \/ FindFails(k) \/ GetFile(k) \/ GetFails(k)
      BY <2>3, <3>2 DEF FileStep, FindNone, FindFails, AfterError, GetFile, GetFails
    <3>3. CASE RemoveFile(k) \/ RemoveFails(k)
      BY <2>3, <3>3 DEF FileStep, RemoveFile, RemoveFails, AfterError
    <3>4. CASE CreateFile(k) \/ CreateFails(k)
      BY <2>3, <3>4 DEF FileStep, CreateFile, CreateFails
    <3> QED BY <2>3, <3>1, <3>2, <3>3, <3>4 DEF FileStep
  <2>4. ASSUME NEW s \in Stores, Restart(s) PROVE TypeOK'
    BY <2>4 DEF Restart
  <2>5. CASE UNCHANGED vars
    BY <2>5 DEF vars, driveVars
  <2> QED BY <2>1, <2>2, <2>3, <2>4, <2>5 DEF Next
<1> QED BY <1>1, <1>2, PTL DEF Spec

-----------------------------------------------------------------------------
(***************************************************************************)
(* SavedIsKept.  A copy goes away only by a call that has found it, which  *)
(* is a delete, or a save that has not ended: either is a remover of every *)
(* save that made such a copy, and a save that ends well has left a copy   *)
(* itself.                                                                 *)
(***************************************************************************)
LEMMA InitInv == Init => IInv /\ SavedIsKept
<1> USE DriveAssumption DEF TypeOK, Stores, Accounts, Phases, Ended
<1> QED BY DEF Init, IInv, FolderInv, FileInv, SavedIsKept

\* What a step does to the calls it is not about: nothing that has ended, or
\* has a folder, changes.
Steady ==
  \A j \in Calls : /\ pc[j] # "idle" => pc'[j] # "idle"
                   /\ pc[j] \in Ended => pc'[j] = pc[j]
                   /\ folder[j] # Nothing => folder'[j] = folder[j]

\* A save that ends well has made its file.
SavesMake ==
  \A j \in Calls : Kind[j] = "save" /\ pc'[j] = "ok" /\ pc[j] # "ok" =>
    j \in files' /\ folder'[j] \in Calls

\* A file is removed by a call that had found it, and does not end with that
\* if it is a save.
RemovedByFinders ==
  \A f \in files \ files' : \E j \in Calls :
    /\ pc[j] = "remove" /\ found[j] = f
    /\ Kind[j] = "save" => pc'[j] # "ok"

LEMMA KeptByStep ==
  ASSUME IInv, SavedIsKept, TypeOK', Steady, SavesMake, RemovedByFinders
  PROVE  SavedIsKept'
<1> USE DriveAssumption DEF IInv, TypeOK, FolderInv, FileInv, Ended
<1> SUFFICES ASSUME NEW k \in Calls, Kind[k] = "save", pc'[k] = "ok"
             PROVE  Copies(folder[k], Chunk[k])' # {} \/ Removers(k)' # {}
  BY DEF SavedIsKept
<1>1. CASE pc[k] # "ok"
  <2>1. k \in Copies(folder[k], Chunk[k])'
    BY <1>1 DEF SavesMake, Copies
  <2> QED BY <2>1
<1>2. CASE pc[k] = "ok"
  <2>1. folder[k] \in Calls /\ folder'[k] = folder[k]
    BY <1>2 DEF Steady
  <2>2. Copies(folder[k], Chunk[k]) # {} \/ Removers(k) # {}
    BY <1>2 DEF SavedIsKept
  <2>3. ASSUME NEW f \in Copies(folder[k], Chunk[k])
        PROVE  Copies(folder[k], Chunk[k])' # {} \/ Removers(k)' # {}
    <3>1. f \in Calls /\ f \in files /\ folder[f] = folder[k] /\ Chunk[f] = Chunk[k]
      BY DEF Copies
    <3>2. CASE f \in files'
      <4>1. f \in Copies(folder[k], Chunk[k])'
        BY <2>1, <3>1, <3>2 DEF Copies, Steady
      <4> QED BY <4>1
    <3>3. CASE f \notin files'
      <4>1. PICK j \in Calls : /\ pc[j] = "remove" /\ found[j] = f
                               /\ Kind[j] = "save" => pc'[j] # "ok"
        BY <3>1, <3>3 DEF RemovedByFinders
      <4>2. Kind[j] \in {"save", "delete", "sync"}
        BY <4>1
      <4>3. Chunk[j] = Chunk[k] /\ folder[j] = folder[k] /\ j # k
        BY <1>2, <3>1, <4>1
      <4>4. folder'[j] = folder'[k] /\ pc'[j] # "idle"
        BY <2>1, <4>1, <4>3 DEF Steady
      <4>5. j \in Removers(k)'
        BY <4>1, <4>2, <4>3, <4>4 DEF Removers
      <4> QED BY <4>5
    <3> QED BY <3>2, <3>3
  <2>4. ASSUME NEW j \in Removers(k)
        PROVE  Copies(folder[k], Chunk[k])' # {} \/ Removers(k)' # {}
    <3>1. /\ j \in Calls /\ j # k /\ Chunk[j] = Chunk[k] /\ folder[j] = folder[k]
          /\ \/ Kind[j] \in {"delete", "sync"} /\ pc[j] # "idle"
             \/ Kind[j] = "save" /\ pc[j] # "ok"
      BY DEF Removers
    <3>2. folder'[j] = folder'[k]
      BY <2>1, <3>1 DEF Steady
    <3>3. CASE Kind[j] = "save" /\ pc'[j] = "ok"
      <4>1. j \in Copies(folder[k], Chunk[k])'
        BY <3>1, <3>2, <3>3 DEF SavesMake, Copies
      <4> QED BY <4>1
    <3>4. CASE ~(Kind[j] = "save" /\ pc'[j] = "ok")
      <4>1. j \in Removers(k)'
        BY <3>1, <3>2, <3>4 DEF Removers, Steady
      <4> QED BY <4>1
    <3> QED BY <3>3, <3>4
  <2> QED BY <2>2, <2>3, <2>4
<1> QED BY <1>1, <1>2

LEMMA NextInv ==
  ASSUME IInv, [Next]_vars, TypeOK'
  PROVE  FolderInv' /\ FileInv' /\ Steady /\ SavesMake /\ RemovedByFinders
<1> DEFINE Goal == FolderInv' /\ FileInv' /\ Steady /\ SavesMake /\ RemovedByFinders
<1> USE DriveAssumption DEF IInv, TypeOK, FolderInv, FileInv, Steady, SavesMake, RemovedByFinders
<1> USE DEF Stores, Phases, Ended, Running
<1>1. ASSUME NEW k \in Calls, Begin(k) PROVE Goal
  <2> USE DEF Starts, UseFolder, WithFolder, GoTo, Fails, driveVars
  <2>1. CASE Connect(k)
    BY <2>1 DEF Connect
  <2>2. CASE BeginServer(k)
    BY <2>2 DEF BeginServer
  <2>3. CASE ReadTorn(k)
    BY <2>3 DEF ReadTorn
  <2>4. CASE StartAgent(k)
    BY <2>4 DEF StartAgent
  <2>5. CASE BeginAgent(k)
    BY <2>5 DEF BeginAgent
  <2> QED BY <1>1, <2>1, <2>2, <2>3, <2>4, <2>5 DEF Begin
<1>2. ASSUME NEW k \in Calls, FolderStep(k) PROVE Goal
  <2> USE DEF Resolved, WithFolder, GoTo, Fails, driveVars
  <2>1. CASE ListFolders(k)
    <3>1. FoldersFor(k) \subseteq Calls
      BY DEF FoldersFor
    <3>2. UNCHANGED <<files, found>> /\ pc[k] = "folder"
      BY <1>2, <2>1 DEF FolderStep, ListFolders
    <3>3. ASSUME NEW f \in FoldersFor(k), Resolved(k, f) PROVE Goal
      BY <3>1, <3>2, <3>3
    <3>4. CASE GoTo(k, "make") /\ UNCHANGED <<cache, folder>>
      BY <3>2, <3>4
    <3> QED BY <2>1, <3>3, <3>4 DEF ListFolders
  <2>2. CASE MakeFolder(k)
    BY <1>2, <2>2 DEF FolderStep, MakeFolder
  <2>3. CASE FolderFails(k)
    BY <1>2, <2>3 DEF FolderStep, FolderFails
  <2> QED BY <1>2, <2>1, <2>2, <2>3 DEF FolderStep
<1>3. ASSUME NEW k \in Calls, FileStep(k) PROVE Goal
  <2> USE DEF GoTo, Fails
  <2>1. CASE FindFile(k)
    <3>1. /\ UNCHANGED <<files, folder>>
          /\ pc[k] = "find"
          /\ pc' = [pc EXCEPT ![k] = IF Kind[k] = "get" THEN "get" ELSE "remove"]
      BY <1>3, <2>1 DEF FileStep, FindFile
    <3>2. PICK f \in Copies(folder[k], Chunk[k]) : found' = [found EXCEPT ![k] = f]
      BY <2>1 DEF FindFile
    <3>3. f \in Calls /\ folder[f] = folder[k] /\ Chunk[f] = Chunk[k]
      BY DEF Copies
    <3>4. FileInv'
      BY <3>1, <3>2, <3>3
    <3> QED BY <3>1, <3>4
  <2>2. CASE FindNone(k)
    <3>1. UNCHANGED <<files, folder, found>> /\ pc[k] = "find"
      BY <1>3, <2>2 DEF FileStep, FindNone
    <3>2. PICK phase \in {"create", "failed", "ok"} :
            /\ pc' = [pc EXCEPT ![k] = phase]
            /\ phase = "create" <=> Kind[k] = "save"
      BY <2>2 DEF FindNone
    <3> QED BY <3>1, <3>2
  <2>3. CASE FindFails(k) \/ GetFile(k) \/ GetFails(k)
    <3>1. UNCHANGED <<files, folder, found>> /\ pc[k] \in {"find", "get"}
      BY <1>3, <2>3 DEF FileStep, FindFails, AfterError, GetFile, GetFails
    <3>2. PICK phase \in {"create", "failed", "ok"} :
            /\ pc' = [pc EXCEPT ![k] = phase]
            /\ phase = "create" => Kind[k] = "save"
            /\ phase = "ok" => Kind[k] # "save"
      <4>1. CASE FindFails(k)
        BY <4>1 DEF FindFails, AfterError
      <4>2. CASE GetFile(k)
        BY <4>2 DEF GetFile
      <4>3. CASE GetFails(k)
        BY <4>3 DEF GetFails
      <4> QED BY <2>3, <4>1, <4>2, <4>3
    <3> QED BY <3>1, <3>2
  <2>4. CASE RemoveFile(k) \/ RemoveFails(k)
    BY <1>3, <2>4 DEF FileStep, RemoveFile, RemoveFails, AfterError
  <2>5. CASE CreateFile(k) \/ CreateFails(k)
    BY <1>3, <2>5 DEF FileStep, CreateFile, CreateFails, Visible
  <2> QED BY <1>3, <2>1, <2>2, <2>3, <2>4, <2>5 DEF FileStep
<1>4. ASSUME NEW s \in Stores, Restart(s) PROVE Goal
  <2>1. /\ pc' = [k \in Calls |-> IF Store[k] = s /\ Running(k) THEN "lost" ELSE pc[k]]
        /\ UNCHANGED <<folder, found>>
    BY <1>4 DEF Restart
  <2>2. PICK done \in SUBSET {k \in Calls : Store[k] = s /\ pc[k] \in {"make", "remove", "create"}} :
          files' = (files \ {found[k] : k \in {j \in done : pc[j] = "remove"}})
                     \cup {k \in done : pc[k] = "create" /\ Visible(k)}
    BY <1>4 DEF Restart
  <2>3. Steady /\ SavesMake /\ FolderInv'
    BY <2>1
  <2>4. \A f \in files' : f \in files \/ (pc[f] = "create" /\ pc'[f] = "lost")
    BY <2>1, <2>2
  <2>5. FileInv'
    BY <2>1, <2>4
  <2>6. RemovedByFinders
    BY <2>1, <2>2
  <2> QED BY <2>3, <2>5, <2>6
<1>5. CASE UNCHANGED vars
  BY <1>5 DEF vars, driveVars
<1> QED BY <1>1, <1>2, <1>3, <1>4, <1>5 DEF Next

\* What a save has stored stays, unless a delete or a save that did not
\* succeed removes it, for any calls, failures and restarts.
THEOREM SavesAreKept == Spec => []SavedIsKept
<1>1. Init => IInv /\ SavedIsKept
  BY InitInv
<1>2. (IInv /\ SavedIsKept) /\ [Next]_vars /\ TypeOK' => (IInv /\ SavedIsKept)'
  <2> SUFFICES ASSUME IInv, SavedIsKept, [Next]_vars, TypeOK' PROVE (IInv /\ SavedIsKept)'
    OBVIOUS
  <2>1. FolderInv' /\ FileInv' /\ Steady /\ SavesMake /\ RemovedByFinders
    BY NextInv
  <2>2. SavedIsKept'
    BY <2>1, KeptByStep
  <2> QED BY <2>1, <2>2 DEF IInv
<1> QED BY <1>1, <1>2, TypeCorrect, PTL DEF Spec

-----------------------------------------------------------------------------
(***************************************************************************)
(* Duplicates and leftovers, while no request fails.  When the saves of a  *)
(* chunk come one after the other, only one of them runs at a time, so     *)
(* nothing is created between the moment it, or a delete, has found the    *)
(* only copy, or none, and the moment it acts on that.                     *)
(***************************************************************************)

\* The copies of the call's chunk in its folder, and the saves that make them.
CopiesFor(k) == Copies(folder[k], Chunk[k])
SavesFor(k) == SavesIn(folder[k], Chunk[k])

\* Files are made by saves, and what ended before a call began has ended.
OrderInv ==
  /\ \A k \in files : Kind[k] = "save" /\ folder[k] \in Calls
  /\ \A k \in Calls : \A j \in earlier[k] : pc[j] \in Ended

\* Of saves that come one after the other, one that is at work knows all copies.
SavesAlone ==
  errors = 0 => \A k \in Calls : Kind[k] = "save" /\ folder[k] # Nothing /\ OneAfterTheOther(SavesFor(k)) =>
    /\ \A i, j \in CopiesFor(k) : i = j
    /\ pc[k] = "remove" => \A j \in CopiesFor(k) : j = found[k]
    /\ pc[k] = "create" /\ Visible(k) => CopiesFor(k) = {}

\* So does a delete that began after them.
DeletesAlone ==
  errors = 0 => \A x \in Calls :
    /\ Kind[x] \in {"delete", "sync"} /\ folder[x] # Nothing /\ Visible(x)
    /\ SavesFor(x) \subseteq earlier[x] /\ OneAfterTheOther(SavesFor(x))
    => /\ pc[x] = "remove" => \A j \in CopiesFor(x) : j = found[x]
       /\ pc[x] = "ok" => CopiesFor(x) = {}

\* What a call knows of the copies when it begins to remove, and to create or,
\* being a delete, when it ends.
Knows(k) ==
  /\ pc'[k] = "remove" => /\ folder'[k] = folder[k]
                          /\ \/ pc[k] = "remove" /\ found'[k] = found[k]
                             \/ files' = files /\ found'[k] \in CopiesFor(k)
  /\ (pc'[k] = "create" \/ (pc'[k] = "ok" /\ Kind[k] \in {"delete", "sync"})) /\ pc'[k] # pc[k] =>
       /\ folder'[k] = folder[k]
       /\ \/ files' = files /\ (~ Visible(k) \/ CopiesFor(k) = {})
          \/ pc[k] = "remove" /\ found[k] \notin files'

StepFacts ==
  /\ Steady
  /\ errors' = 0 => errors = 0 /\ \A k \in Calls : Knows(k)
  /\ \A k \in files' \ files : pc[k] = "create" /\ Visible(k) /\ pc'[k] \in Ended
  /\ \A k \in Calls : /\ pc[k] # "idle" => earlier'[k] = earlier[k]
                      /\ earlier'[k] = earlier[k] \/ \A j \in earlier'[k] : pc[j] \in Ended

LEMMA NextFacts ==
  ASSUME IInv, [Next]_vars, TypeOK', Steady
  PROVE  StepFacts
<1> USE DriveAssumption DEF IInv, TypeOK, FolderInv, FileInv, StepFacts, Knows
<1> USE DEF Stores, Phases, Ended, Running
<1>1. ASSUME NEW k \in Calls, Begin(k) PROVE StepFacts
  <2> USE DEF Starts, UseFolder, WithFolder, GoTo, Fails, driveVars
  <2>1. CASE Connect(k)
    BY <2>1 DEF Connect
  <2>2. CASE BeginServer(k)
    BY <2>2 DEF BeginServer
  <2>3. CASE ReadTorn(k)
    BY <2>3 DEF ReadTorn
  <2>4. CASE StartAgent(k)
    BY <2>4 DEF StartAgent
  <2>5. CASE BeginAgent(k)
    BY <2>5 DEF BeginAgent
  <2> QED BY <1>1, <2>1, <2>2, <2>3, <2>4, <2>5 DEF Begin
<1>2. ASSUME NEW k \in Calls, FolderStep(k) PROVE StepFacts
  <2>1. pc[k] \in {"folder", "make"} /\ UNCHANGED <<files, found, earlier>>
    BY <1>2 DEF FolderStep, ListFolders, MakeFolder, FolderFails, driveVars
  <2>2. PICK phase \in {"make", "ok", "find", "failed"} :
          pc' = [pc EXCEPT ![k] = phase] /\ (phase = "ok" => Kind[k] = "prepare")
    BY <1>2 DEF FolderStep, ListFolders, MakeFolder, FolderFails, Resolved, WithFolder, GoTo
  <2>3. errors' = errors \/ errors' = errors + 1
    BY <1>2 DEF FolderStep, ListFolders, MakeFolder, FolderFails, Fails
  <2>4. \A j \in Calls : pc'[j] \in {"remove", "create"} \/ (pc'[j] = "ok" /\ Kind[j] # "prepare") =>
          pc'[j] = pc[j] /\ j # k
    BY <2>2
  <2>5. folder' = [folder EXCEPT ![k] = folder'[k]]
    BY <1>2 DEF FolderStep, ListFolders, MakeFolder, FolderFails, Resolved, WithFolder
  <2> QED BY <2>1, <2>2, <2>3, <2>4, <2>5
<1>3. ASSUME NEW k \in Calls, FileStep(k) PROVE StepFacts
  <2> USE DEF GoTo, Fails
  <2>1. CASE FindFile(k)
    <3>1. /\ UNCHANGED <<files, folder, earlier, errors>>
          /\ pc[k] = "find"
          /\ pc' = [pc EXCEPT ![k] = IF Kind[k] = "get" THEN "get" ELSE "remove"]
      BY <1>3, <2>1 DEF FileStep, FindFile
    <3>2. PICK f \in CopiesFor(k) : found' = [found EXCEPT ![k] = f]
      BY <2>1 DEF FindFile, CopiesFor
    <3> QED BY <3>1, <3>2
  <2>2. CASE FindNone(k)
    <3>1. UNCHANGED <<files, folder, found, earlier, errors>> /\ pc[k] = "find"
      BY <1>3, <2>2 DEF FileStep, FindNone
    <3>2. \E phase \in {"create", "failed", "ok"} : pc' = [pc EXCEPT ![k] = phase]
      BY <2>2 DEF FindNone
    <3>3. ~ Visible(k) \/ CopiesFor(k) = {}
      BY <2>2 DEF FindNone, CopiesFor
    <3> QED BY <3>1, <3>2, <3>3
  <2>3. CASE FindFails(k) \/ RemoveFails(k) \/ CreateFails(k) \/ GetFails(k)
    <3>1. errors' = errors + 1 /\ UNCHANGED earlier /\ \A f \in files' \ files : f = k /\ pc[k] = "create" /\ Visible(k)
      BY <1>3, <2>3 DEF FileStep, FindFails, RemoveFails, CreateFails, GetFails
    <3>2. CreateFails(k) => pc'[k] = "failed"
      BY DEF CreateFails
    <3>3. pc[k] = "create" => CreateFails(k)
      BY <2>3 DEF FindFails, RemoveFails, GetFails
    <3> QED BY <3>1, <3>2, <3>3
  <2>4. CASE RemoveFile(k)
    BY <1>3, <2>4 DEF FileStep, RemoveFile
  <2>5. CASE CreateFile(k)
    BY <1>3, <2>5 DEF FileStep, CreateFile
  <2>6. CASE GetFile(k)
    BY <1>3, <2>6 DEF FileStep, GetFile
  <2> QED BY <1>3, <2>1, <2>2, <2>3, <2>4, <2>5, <2>6 DEF FileStep
<1>4. ASSUME NEW s \in Stores, Restart(s) PROVE StepFacts
  <2>1. /\ pc' = [k \in Calls |-> IF Store[k] = s /\ Running(k) THEN "lost" ELSE pc[k]]
        /\ UNCHANGED <<folder, found, earlier, errors>>
    BY <1>4 DEF Restart
  <2>2. PICK done \in SUBSET {k \in Calls : Store[k] = s /\ pc[k] \in {"make", "remove", "create"}} :
          files' = (files \ {found[k] : k \in {j \in done : pc[j] = "remove"}})
                     \cup {k \in done : pc[k] = "create" /\ Visible(k)}
    BY <1>4 DEF Restart
  <2>3. \A k \in files' \ files : pc[k] = "create" /\ Visible(k) /\ pc'[k] = "lost"
    BY <2>1, <2>2
  <2>4. \A k \in Calls : pc'[k] \in {"remove", "create", "ok"} => pc'[k] = pc[k]
    BY <2>1
  <2> QED BY <2>1, <2>3, <2>4
<1>5. CASE UNCHANGED vars
  BY <1>5 DEF vars, driveVars
<1> QED BY <1>1, <1>2, <1>3, <1>4, <1>5 DEF Next

LEMMA KeepsOrder ==
  ASSUME IInv, OrderInv, StepFacts, TypeOK'
  PROVE  OrderInv'
<1> USE DEF IInv, FolderInv, FileInv, OrderInv, StepFacts, Steady
<1>1. ASSUME NEW k \in files' PROVE Kind[k] = "save" /\ folder'[k] \in Calls
  <2>1. k \in Calls
    BY DEF TypeOK
  <2>2. Kind[k] = "save" /\ folder[k] \in Calls
    BY <2>1
  <2> QED BY <2>1, <2>2, DriveAssumption
<1>2. ASSUME NEW k \in Calls, NEW j \in earlier'[k] PROVE pc'[j] \in Ended
  <2>1. j \in Calls
    BY DEF TypeOK
  <2>2. pc[j] \in Ended
    OBVIOUS
  <2> QED BY <2>1, <2>2
<1> QED BY <1>1, <1>2

\* Of saves that come one after the other only one is at work.
LEMMA OneRuns ==
  ASSUME OrderInv, NEW S, S \subseteq Calls, OneAfterTheOther(S), NEW j \in S, NEW k \in S,
         pc[j] \notin Ended, pc[k] \notin Ended
  PROVE  j = k
  BY DEF OrderInv, OneAfterTheOther

\* The saves of a chunk in a folder only become more.
LEMMA SavesGrow ==
  ASSUME IInv, StepFacts, NEW f \in Calls, NEW c
  PROVE  /\ SavesIn(f, c) \subseteq SavesIn(f, c)'
         /\ OneAfterTheOther(SavesIn(f, c))' => OneAfterTheOther(SavesIn(f, c))
<1> USE DriveAssumption DEF IInv, TypeOK, FolderInv, StepFacts, Steady, SavesIn
<1>1. SavesIn(f, c) \subseteq SavesIn(f, c)'
  OBVIOUS
<1>2. \A k \in SavesIn(f, c) : earlier'[k] = earlier[k]
  OBVIOUS
<1> QED BY <1>1, <1>2 DEF OneAfterTheOther

\* Two copies of a chunk whose saves came one after the other are one.
LEMMA OneCopy ==
  ASSUME OrderInv, SavesAlone, errors = 0, NEW f \in Calls, NEW c, OneAfterTheOther(SavesIn(f, c)),
         NEW i \in Copies(f, c), NEW j \in Copies(f, c), files \subseteq Calls, Nothing \notin Calls
  PROVE  i = j
<1>1. i \in Calls /\ Kind[i] = "save" /\ folder[i] = f /\ Chunk[i] = c
  BY DEF Copies, OrderInv
<1>2. SavesFor(i) = SavesIn(f, c) /\ CopiesFor(i) = Copies(f, c)
  BY <1>1 DEF SavesFor, CopiesFor
<1> QED BY <1>1, <1>2 DEF SavesAlone

LEMMA KeepsSavesAlone ==
  ASSUME IInv, OrderInv, SavesAlone, StepFacts, TypeOK'
  PROVE  SavesAlone'
<1> SUFFICES ASSUME errors' = 0, NEW k \in Calls, Kind[k] = "save", folder'[k] # Nothing,
                    OneAfterTheOther(SavesFor(k))'
             PROVE  /\ \A i, j \in CopiesFor(k)' : i = j
                    /\ pc'[k] = "remove" => \A j \in CopiesFor(k)' : j = found'[k]
                    /\ pc'[k] = "create" /\ Visible(k)' => CopiesFor(k)' = {}
  BY DEF SavesAlone
<1> DEFINE f == folder'[k]
           c == Chunk[k]
           S == SavesIn(f, c)
<1>1. f \in Calls /\ Nothing \notin Calls /\ files \subseteq Calls /\ files' \subseteq Calls
  BY DriveAssumption DEF IInv, TypeOK
<1>2. errors = 0 /\ Knows(k)
  BY DEF StepFacts
<1>3. CopiesFor(k)' = {i \in files' : folder'[i] = f /\ Chunk[i] = c}
  BY DEF CopiesFor, Copies
<1>4. SavesFor(k)' = {i \in Calls : Kind[i] = "save" /\ folder'[i] = f /\ Chunk[i] = c}
  BY DEF SavesFor, SavesIn
<1>5. OneAfterTheOther(S) /\ \A i \in S : folder'[i] = f
  <2>1. \A i \in S : folder'[i] = f
    BY <1>1 DEF SavesIn, StepFacts, Steady
  <2>2. \A i \in S : earlier'[i] = earlier[i]
    <3>1. \A i \in S : pc[i] # "idle"
      BY <1>1 DEF SavesIn, IInv, FolderInv
    <3> QED BY <3>1 DEF StepFacts, SavesIn
  <2>3. S \subseteq SavesFor(k)'
    BY <1>4, <2>1 DEF SavesIn
  <2>4. \A i, j \in S : i = j \/ i \in earlier'[j] \/ j \in earlier'[i]
    BY <2>3 DEF OneAfterTheOther
  <2> QED BY <2>1, <2>2, <2>4 DEF OneAfterTheOther
<1>6. ASSUME NEW i \in CopiesFor(k)'
      PROVE  /\ i \in S /\ i \in Calls
             /\ i \in files => i \in Copies(f, c)
             /\ i \notin files => pc[i] = "create" /\ Visible(i) /\ pc'[i] \in Ended
  <2>1. i \in files' /\ folder'[i] = f /\ Chunk[i] = c /\ i \in Calls
    BY <1>1, <1>3, <1>6
  <2>2. i \notin files => pc[i] = "create" /\ Visible(i) /\ pc'[i] \in Ended
    BY <2>1 DEF StepFacts
  <2>3. folder[i] \in Calls /\ Kind[i] = "save"
    BY <2>1, <2>2 DEF OrderInv, IInv, FolderInv, FileInv
  <2>4. folder[i] = f
    BY <1>1, <2>1, <2>3 DEF StepFacts, Steady
  <2> QED BY <2>1, <2>2, <2>3, <2>4 DEF SavesIn, Copies
<1>7. ASSUME NEW i \in CopiesFor(k)', NEW j \in CopiesFor(k)' PROVE i = j
  <2>1. CASE i \in files /\ j \in files
    BY <1>1, <1>2, <1>5, <1>6, <2>1, OneCopy
  <2>2. ASSUME NEW a \in CopiesFor(k)', NEW b \in CopiesFor(k)', a \notin files PROVE a = b
    <3>1. pc[a] = "create" /\ Visible(a) /\ a \in S
      BY <1>6, <2>2
    <3>2. CopiesFor(a) = Copies(f, c) /\ SavesFor(a) = S /\ Kind[a] = "save" /\ folder[a] = f
      BY <3>1 DEF CopiesFor, SavesFor, SavesIn
    <3>3. Copies(f, c) = {}
      BY <1>1, <1>2, <1>5, <1>6, <2>2, <3>1, <3>2 DEF SavesAlone
    <3>4. pc[b] = "create" /\ b \in S
      BY <1>6, <2>2, <3>3
    <3>5. S \subseteq Calls /\ pc[a] \notin Ended /\ pc[b] \notin Ended
      BY <3>1, <3>4 DEF SavesIn, Ended
    <3> HIDE DEF S
    <3> QED BY <1>5, <3>1, <3>4, <3>5, OneRuns
  <2> QED BY <2>1, <2>2
<1>8. ASSUME folder'[k] = folder[k], pc'[k] \notin Ended
      PROVE  CopiesFor(k)' \subseteq CopiesFor(k)
  <2>1. k \in S /\ S \subseteq Calls /\ pc[k] \notin Ended
    BY <1>8 DEF SavesIn, StepFacts, Steady, Ended
  <2>2. CopiesFor(k) = Copies(f, c)
    BY <1>8 DEF CopiesFor
  <2>3. ASSUME NEW i \in CopiesFor(k)', i \notin files PROVE FALSE
    <3>1. pc[i] = "create" /\ pc'[i] \in Ended /\ i \in S /\ pc[i] \notin Ended
      BY <1>6, <2>3 DEF Ended
    <3>2. i = k
      <4> HIDE DEF S
      <4> QED BY <1>5, <2>1, <3>1, OneRuns
    <3> QED BY <1>8, <3>1, <3>2
  <2> QED BY <1>6, <2>2, <2>3
<1>9. folder'[k] = folder[k] =>
        /\ SavesFor(k) = S /\ CopiesFor(k) = Copies(f, c) /\ Visible(k)' = Visible(k)
        /\ pc[k] = "remove" => \A j \in CopiesFor(k) : j = found[k]
        /\ pc[k] = "create" /\ Visible(k) => CopiesFor(k) = {}
        /\ \A i, j \in CopiesFor(k) : i = j
  <2>1. folder'[k] = folder[k] => SavesFor(k) = S /\ CopiesFor(k) = Copies(f, c) /\ Visible(k)' = Visible(k)
    BY DEF SavesFor, CopiesFor, Visible
  <2> QED BY <1>1, <1>2, <1>5, <2>1 DEF SavesAlone
<1>10. ASSUME pc'[k] = "remove" PROVE \A j \in CopiesFor(k)' : j = found'[k]
  BY <1>2, <1>8, <1>9, <1>10 DEF Knows, Ended
<1>11. ASSUME pc'[k] = "create", Visible(k)' PROVE CopiesFor(k)' = {}
  <2>1. CASE pc[k] = "create"
    <3>1. folder'[k] = folder[k]
      BY <2>1, DriveAssumption DEF IInv, FolderInv, StepFacts, Steady, TypeOK
    <3> QED BY <1>8, <1>9, <1>11, <2>1, <3>1 DEF Ended
  <2>2. CASE pc[k] # "create"
    <3>1. folder'[k] = folder[k]
      BY <1>2, <1>11, <2>2 DEF Knows
    <3>2. CopiesFor(k)' \subseteq CopiesFor(k) /\ CopiesFor(k)' \subseteq files'
      BY <1>3, <1>8, <1>11, <3>1 DEF Ended
    <3> QED BY <1>2, <1>9, <1>11, <2>2, <3>1, <3>2 DEF Knows
  <2> QED BY <2>1, <2>2
<1> QED BY <1>7, <1>10, <1>11

LEMMA KeepsDeletesAlone ==
  ASSUME IInv, OrderInv, SavesAlone, DeletesAlone, StepFacts, TypeOK'
  PROVE  DeletesAlone'
<1> SUFFICES ASSUME errors' = 0, NEW x \in Calls, Kind[x] \in {"delete", "sync"}, folder'[x] # Nothing, Visible(x)',
                    SavesFor(x)' \subseteq earlier'[x], OneAfterTheOther(SavesFor(x))'
             PROVE  /\ pc'[x] = "remove" => \A j \in CopiesFor(x)' : j = found'[x]
                    /\ pc'[x] = "ok" => CopiesFor(x)' = {}
  BY DEF DeletesAlone
<1> DEFINE f == folder'[x]
           c == Chunk[x]
           S == SavesIn(f, c)
<1>1. f \in Calls /\ Nothing \notin Calls /\ files \subseteq Calls /\ files' \subseteq Calls
  BY DriveAssumption DEF IInv, TypeOK
<1>2. errors = 0 /\ Knows(x)
  BY DEF StepFacts
<1>3. CopiesFor(x)' = {i \in files' : folder'[i] = f /\ Chunk[i] = c}
  BY DEF CopiesFor, Copies
<1>4. S \subseteq SavesFor(x)' /\ OneAfterTheOther(S)
  BY <1>1, SavesGrow DEF SavesFor
<1>5. ASSUME folder'[x] = folder[x]
      PROVE  /\ SavesFor(x) = S /\ CopiesFor(x) = Copies(f, c) /\ Visible(x)
             /\ S \subseteq earlier[x] /\ \A i \in S : pc[i] \in Ended
  <2>1. pc[x] # "idle" /\ earlier'[x] = earlier[x]
    BY <1>1, <1>5 DEF IInv, FolderInv, StepFacts
  <2>2. S \subseteq earlier[x]
    BY <1>4, <2>1
  <2> QED BY <1>5, <2>2 DEF SavesFor, CopiesFor, Visible, OrderInv
<1>6. ASSUME folder'[x] = folder[x]
      PROVE  CopiesFor(x)' \subseteq CopiesFor(x)
  <2> SUFFICES ASSUME NEW i \in CopiesFor(x)' PROVE i \in Copies(f, c)
    BY <1>5, <1>6
  <2>1. i \in files' /\ folder'[i] = f /\ Chunk[i] = c /\ i \in Calls
    BY <1>1, <1>3
  <2>2. i \notin files => pc[i] = "create"
    BY <2>1 DEF StepFacts
  <2>3. folder[i] \in Calls /\ Kind[i] = "save"
    BY <2>1, <2>2 DEF OrderInv, IInv, FolderInv, FileInv
  <2>4. folder[i] = f
    BY <1>1, <2>1, <2>3 DEF StepFacts, Steady
  <2>5. i \in files
    BY <1>5, <1>6, <2>1, <2>2, <2>3, <2>4 DEF SavesIn, Ended
  <2> QED BY <2>1, <2>4, <2>5 DEF Copies
<1>7. ASSUME folder'[x] = folder[x]
      PROVE  /\ pc[x] = "remove" => \A j \in CopiesFor(x) : j = found[x]
             /\ pc[x] = "ok" => CopiesFor(x) = {}
             /\ \A i, j \in CopiesFor(x) : i = j
  <2>1. \A i, j \in CopiesFor(x) : i = j
    BY <1>1, <1>2, <1>4, <1>5, <1>7, OneCopy
  <2> QED BY <1>1, <1>2, <1>4, <1>5, <1>7, <2>1 DEF DeletesAlone
<1>8. ASSUME pc'[x] = "remove" PROVE \A j \in CopiesFor(x)' : j = found'[x]
  BY <1>2, <1>6, <1>7, <1>8 DEF Knows
<1>9. ASSUME pc'[x] = "ok" PROVE CopiesFor(x)' = {}
  <2>1. folder'[x] = folder[x]
    <3>1. CASE pc[x] = "ok"
      BY <3>1, DriveAssumption DEF IInv, FolderInv, StepFacts, Steady, TypeOK
    <3> QED BY <1>2, <1>9, <3>1 DEF Knows
  <2>2. CopiesFor(x)' \subseteq files'
    BY <1>3
  <2>3. CopiesFor(x)' \subseteq CopiesFor(x) /\ Visible(x)
    BY <1>5, <1>6, <2>1
  <2>4. CASE pc[x] = "ok"
    BY <1>7, <2>1, <2>3, <2>4
  <2>5. CASE pc[x] # "ok" /\ (~Visible(x) \/ CopiesFor(x) = {})
    BY <2>3, <2>5
  <2>6. CASE pc[x] = "remove" /\ found[x] \notin files'
    <3>1. \A j \in CopiesFor(x) : j = found[x]
      BY <1>7, <2>1, <2>6
    <3> QED BY <2>2, <2>3, <2>6, <3>1
  <2> QED BY <1>2, <1>9, <2>4, <2>5, <2>6 DEF Knows
<1> QED BY <1>8, <1>9

\* What holds of the calls and their copies in every state.
CopiesInv == IInv /\ OrderInv /\ SavesAlone /\ DeletesAlone

LEMMA CopiesInvHolds == Spec => []CopiesInv
<1>1. Init => CopiesInv
  <2> SUFFICES ASSUME Init PROVE CopiesInv
    OBVIOUS
  <2>1. IInv
    BY InitInv
  <2>2. OrderInv /\ SavesAlone /\ DeletesAlone
    BY DriveAssumption DEF Init, OrderInv, SavesAlone, DeletesAlone
  <2> QED BY <2>1, <2>2 DEF CopiesInv
<1>2. CopiesInv /\ [Next]_vars /\ TypeOK' => CopiesInv'
  <2> SUFFICES ASSUME CopiesInv, [Next]_vars, TypeOK' PROVE CopiesInv'
    OBVIOUS
  <2> USE DEF CopiesInv
  <2>1. IInv' /\ Steady
    BY NextInv DEF IInv
  <2>2. StepFacts
    BY <2>1, NextFacts
  <2>3. OrderInv'
    BY <2>2, KeepsOrder
  <2>4. SavesAlone'
    BY <2>2, KeepsSavesAlone
  <2>5. DeletesAlone'
    BY <2>2, KeepsDeletesAlone
  <2> QED BY <2>1, <2>3, <2>4, <2>5
<1> QED BY <1>1, <1>2, TypeCorrect, PTL DEF Spec

\* A chunk gets two files only when a request fails or two saves of it overlap,
\* whatever deletes, restarts and other calls run beside them.
THEOREM DuplicatesOverlap == Spec => []DuplicatesNeedOverlap
<1>1. CopiesInv => DuplicatesNeedOverlap
  <2> SUFFICES ASSUME CopiesInv, NEW j \in files, NEW k \in files,
                      Chunk[j] = Chunk[k], folder[j] = folder[k], errors = 0,
                      OneAfterTheOther(SavesIn(folder[k], Chunk[k]))
               PROVE  j = k
    BY DEF DuplicatesNeedOverlap
  <2>1. folder[k] \in Calls /\ files \subseteq Calls /\ Nothing \notin Calls
    BY DriveAssumption DEF CopiesInv, OrderInv, IInv, TypeOK
  <2>2. j \in Copies(folder[k], Chunk[k]) /\ k \in Copies(folder[k], Chunk[k])
    BY DEF Copies
  <2> QED BY <2>1, <2>2, OneCopy DEF CopiesInv
<1> QED BY <1>1, CopiesInvHolds, PTL

\* A delete that began after the saves of its chunk, which came one after the
\* other, leaves no copy in a folder it can see when no request fails.
THEOREM DeletesLeaveNothing == Spec => []DeletedIsGone
<1>1. CopiesInv => DeletedIsGone
  BY DEF CopiesInv, DeletesAlone, DeletedIsGone, CopiesFor, SavesFor, Visible
<1> QED BY <1>1, CopiesInvHolds, PTL

=============================================================================
