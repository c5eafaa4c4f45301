------------------------- MODULE DeletionSyncProofs -------------------------
(***************************************************************************)
(* Theorems about DeletionSync, for every set of deletions, every window,  *)
(* run length and number of faults.                                        *)
(***************************************************************************)
EXTENDS DeletionSync, TLAPS

(***************************************************************************)
(* The type invariant needs one fact about the loop: by the time it writes *)
(* config.json it has carried out an event, so that lastSync is a time.    *)
(***************************************************************************)
BatchOnlyInProcess == batch # {} => loop = "process"

ProcessedSome == loop = "process" => batch # {} \/ lastSync \in Times

TypeInv == TypeOK /\ BatchOnlyInProcess /\ ProcessedSome

LEMMA InitType == Init => TypeInv
  BY BoundsAssumption DEF Init, TypeInv, TypeOK, Stamped, BatchOnlyInProcess, ProcessedSome, Times

LEMMA NextType == TypeInv /\ [Next]_vars => TypeInv'
<1> SUFFICES ASSUME TypeInv, [Next]_vars
             PROVE  TypeInv'
  OBVIOUS
<1> USE BoundsAssumption DEF TypeInv, TypeOK, Stamped, BatchOnlyInProcess, ProcessedSome, Times
<1>1. CASE Tick
  BY <1>1 DEF Tick, agentVars
<1>2. ASSUME NEW x \in Deletions, Stamp(x) PROVE TypeInv'
  BY <1>2 DEF Stamp, agentVars
<1>3. ASSUME NEW x \in Deletions, Record(x) PROVE TypeInv'
  BY <1>3 DEF Record, agentVars
<1>4. CASE AgentStart
  BY <1>4 DEF AgentStart, serverVars
<1>5. CASE Fetch
  BY <1>5 DEF Fetch, DeletionsSince, serverVars
<1>6. CASE FetchFails
  BY <1>6 DEF FetchFails, serverVars
<1>7. ASSUME NEW x \in Deletions, CarryOut(x) PROVE TypeInv'
  BY <1>7 DEF CarryOut, serverVars
<1>8. CASE Persist \/ PersistFails
  BY <1>8 DEF Persist, PersistFails, serverVars
<1>9. CASE Wake
  BY <1>9 DEF Wake, serverVars
<1>10. CASE Crash
  BY <1>10 DEF Crash, serverVars
<1>11. CASE UNCHANGED vars
  BY <1>11 DEF vars, serverVars, agentVars
<1> QED
  BY <1>1, <1>2, <1>3, <1>4, <1>5, <1>6, <1>7, <1>8, <1>9, <1>10, <1>11 DEF Next, AgentStep

\* Every variable keeps its type: in particular what is carried out was
\* recorded, and config.json holds a time or cannot be read.
THEOREM TypeCorrect == Spec => []TypeOK
<1>1. TypeInv => TypeOK
  BY DEF TypeInv
<1> QED
  BY <1>1, InitType, NextType, PTL DEF Spec

-----------------------------------------------------------------------------
(***************************************************************************)
(* What the agent has neither carried out nor fetched, if it did not come  *)
(* too late, is later than all the agent goes by: than lastSync, than the  *)
(* rest of its batch, and than config.json.  A row that is new must be so  *)
(* too, whatever was stamped before: what the agent goes by is the second  *)
(* of a deletion it has carried out, or else lies before every second that *)
(* is still to be recorded in time.                                        *)
(***************************************************************************)
Unseen == recorded \ (removed \cup batch \cup late)

SecondOfRemoved(t) == \E y \in removed : stamp[y] = t

LastSyncIsKnown ==
  \/ SecondOfRemoved(lastSync)
  \/ lastSync < clock /\ \A x \in Stamped \ late : lastSync < stamp[x]

ConfigIsKnown == config # Never => SecondOfRemoved(config)

\* By the time it writes config.json the agent has carried out an event.
ProcessedOne == loop = "process" => batch # {} \/ SecondOfRemoved(lastSync)

BatchIsNew == SecondOfRemoved(lastSync) \/ \A x \in batch : lastSync < stamp[x]

UnseenIsLater ==
  \A x \in Unseen : /\ loop # "off" => lastSync < stamp[x]
                    /\ \A b \in batch : stamp[b] < stamp[x]

ConfigIsBehind == config # Never => \A x \in recorded \ (removed \cup late) : config < stamp[x]

SyncInv ==
  /\ TypeInv
  /\ LastSyncIsKnown /\ ConfigIsKnown /\ ProcessedOne /\ BatchIsNew
  /\ UnseenIsLater /\ ConfigIsBehind

LEMMA InitSync == Init => SyncInv
<1> SUFFICES ASSUME Init PROVE SyncInv
  OBVIOUS
<1>1. TypeInv
  BY InitType
<1>2. Stamped = {} /\ recorded = {} /\ batch = {} /\ loop = "off" /\ config = Never
      /\ lastSync < clock
  BY BoundsAssumption DEF Init, Stamped
<1> QED
  BY <1>1, <1>2 DEF SyncInv, LastSyncIsKnown, ConfigIsKnown, ProcessedOne, BatchIsNew, UnseenIsLater,
     ConfigIsBehind, Unseen

LEMMA NextSync == SyncInv /\ [Next]_vars => SyncInv'
<1> SUFFICES ASSUME SyncInv, [Next]_vars
             PROVE  SyncInv'
  OBVIOUS
<1>0. TypeInv'
  BY NextType DEF SyncInv
<1> USE <1>0, BoundsAssumption
    DEF SyncInv, TypeInv, TypeOK, Times
<1> DEFINE Goal == /\ LastSyncIsKnown' /\ ConfigIsKnown' /\ ProcessedOne' /\ BatchIsNew'
                   /\ UnseenIsLater' /\ ConfigIsBehind'
<1>1. ASSUME UNCHANGED <<stamp, recorded, lastSync, batch, config, removed, late>>, clock' >= clock,
             loop' = loop \/ (loop' = "wait" /\ loop = "fetch") \/ (loop' = "fetch" /\ loop = "wait")
      PROVE  Goal
  <2>1. \A t : SecondOfRemoved(t)' <=> SecondOfRemoved(t)
    BY <1>1 DEF SecondOfRemoved
  <2>2. Stamped' = Stamped /\ Unseen' = Unseen
    BY <1>1 DEF Stamped, Unseen
  <2>3. LastSyncIsKnown'
    BY <1>1, <2>1, <2>2 DEF LastSyncIsKnown
  <2> QED
    BY <1>1, <2>1, <2>2, <2>3 DEF ConfigIsKnown, ProcessedOne, BatchIsNew, UnseenIsLater, ConfigIsBehind
<1>2. CASE Tick \/ FetchFails \/ Wake \/ UNCHANGED vars
  BY <1>1, <1>2 DEF Tick, FetchFails, Wake, vars, serverVars, agentVars
<1>3. ASSUME NEW x \in Deletions, Stamp(x) PROVE Goal
  <2>1. /\ UNCHANGED <<clock, recorded, loop, lastSync, batch, config, removed, late>>
        /\ stamp[x] = Never /\ stamp'[x] = clock /\ \A y \in Deletions : y # x => stamp'[y] = stamp[y]
    BY <1>3 DEF Stamp, agentVars
  <2>2. x \notin recorded /\ removed \subseteq recorded /\ batch \subseteq recorded /\ recorded \subseteq Deletions
    BY <2>1 DEF Stamped
  <2>3. \A t : SecondOfRemoved(t)' <=> SecondOfRemoved(t)
    BY <2>1, <2>2 DEF SecondOfRemoved
  <2>4. Stamped' \subseteq Stamped \cup {x} /\ x \notin Stamped
    BY <2>1 DEF Stamped
  <2>5. LastSyncIsKnown'
    BY <2>1, <2>3, <2>4 DEF LastSyncIsKnown, Stamped
  <2>6. Unseen' = Unseen
    BY <2>1 DEF Unseen
  <2>7. ConfigIsKnown' /\ ProcessedOne' /\ BatchIsNew'
    BY <2>1, <2>2, <2>3 DEF ConfigIsKnown, ProcessedOne, BatchIsNew
  <2>8. UnseenIsLater' /\ ConfigIsBehind'
    BY <2>1, <2>2, <2>6 DEF UnseenIsLater, ConfigIsBehind, Unseen
  <2> QED
    BY <2>5, <2>7, <2>8
<1>4. ASSUME NEW x \in Deletions, Record(x) PROVE Goal
  <2>1. /\ recorded' = recorded \cup {x} /\ x \in Stamped \ recorded
        /\ UNCHANGED <<clock, stamp, loop, lastSync, batch, config, removed>>
        /\ late \subseteq late'
        /\ x \notin late' => x \notin late /\ \A y \in removed \cup batch : ~ (stamp[y] >= stamp[x])
    BY <1>4 DEF Record, agentVars, Stamped
  <2>2. \A y \in Stamped : stamp[y] \in Nat
    BY DEF Stamped
  <2>3. x \notin late' => \A y \in removed \cup batch : stamp[y] < stamp[x]
    BY <2>1, <2>2
  <2>4. \A t : SecondOfRemoved(t)' <=> SecondOfRemoved(t)
    BY <2>1 DEF SecondOfRemoved
  <2>5. Stamped' = Stamped
    BY <2>1 DEF Stamped
  <2>6. LastSyncIsKnown' /\ ConfigIsKnown' /\ ProcessedOne' /\ BatchIsNew'
    BY <2>1, <2>4, <2>5 DEF LastSyncIsKnown, ConfigIsKnown, ProcessedOne, BatchIsNew
  <2>7. x \notin late' => lastSync < stamp[x] /\ (config # Never => config < stamp[x])
    BY <2>1, <2>3 DEF LastSyncIsKnown, ConfigIsKnown, SecondOfRemoved
  <2>8. Unseen' \subseteq Unseen \cup ({x} \ late')
    BY <2>1 DEF Unseen
  <2>9. UnseenIsLater'
    BY <2>1, <2>3, <2>7, <2>8 DEF UnseenIsLater
  <2>10. ConfigIsBehind'
    BY <2>1, <2>7 DEF ConfigIsBehind
  <2> QED
    BY <2>6, <2>9, <2>10
<1>5. CASE AgentStart
  <2>1. /\ UNCHANGED <<clock, stamp, recorded, batch, config, removed>>
        /\ lastSync' = IF config = Never THEN clock - Window ELSE config
        /\ late' = late \cup {x \in Stamped : config = Never /\ stamp[x] <= clock - Window}
        /\ batch = {} /\ loop' = "fetch"
    BY <1>5 DEF AgentStart, serverVars, BatchOnlyInProcess
  <2>2. \A t : SecondOfRemoved(t)' <=> SecondOfRemoved(t)
    BY <2>1 DEF SecondOfRemoved
  <2>3. Stamped' = Stamped /\ \A y \in Stamped : stamp[y] \in Nat
    BY <2>1 DEF Stamped
  <2>4. config = Never => \A x \in Stamped \ late' : lastSync' < stamp[x]
    BY <2>1, <2>3
  <2>5. LastSyncIsKnown'
    BY <2>1, <2>2, <2>3, <2>4 DEF LastSyncIsKnown, ConfigIsKnown
  <2>6. ConfigIsKnown' /\ ProcessedOne' /\ BatchIsNew' /\ ConfigIsBehind'
    BY <2>1, <2>2 DEF ConfigIsKnown, ProcessedOne, BatchIsNew, ConfigIsBehind
  <2>7. UnseenIsLater'
    BY <2>1, <2>3, <2>4 DEF UnseenIsLater, Unseen, ConfigIsBehind
  <2> QED
    BY <2>5, <2>6, <2>7
<1>6. CASE Fetch
  <2>1. /\ UNCHANGED <<clock, stamp, recorded, lastSync, config, removed, late>>
        /\ loop = "fetch" /\ batch = {}
        /\ batch' = {x \in recorded : stamp[x] > lastSync}
        /\ loop' = IF batch' = {} THEN "wait" ELSE "process"
    BY <1>6 DEF Fetch, DeletionsSince, serverVars, BatchOnlyInProcess
  <2>2. \A t : SecondOfRemoved(t)' <=> SecondOfRemoved(t)
    BY <2>1 DEF SecondOfRemoved
  <2>3. Stamped' = Stamped /\ \A y \in Stamped : stamp[y] \in Nat
    BY <2>1 DEF Stamped
  <2>4. Unseen' = {}
    BY <2>1, <2>3 DEF Unseen, UnseenIsLater
  <2>5. ProcessedOne'
    BY <2>1 DEF ProcessedOne
  <2>6. BatchIsNew'
    BY <2>1, <2>3 DEF BatchIsNew
  <2> QED
    BY <2>1, <2>2, <2>3, <2>4, <2>5, <2>6 DEF LastSyncIsKnown, ConfigIsKnown, UnseenIsLater, ConfigIsBehind
<1>7. ASSUME NEW x \in Deletions, CarryOut(x) PROVE Goal
  <2>1. /\ UNCHANGED <<clock, stamp, recorded, loop, config, late>>
        /\ loop = "process" /\ x \in batch /\ x \in recorded
        /\ batch' = batch \ {x} /\ removed' = removed \cup {x}
        /\ lastSync' = IF stamp[x] > lastSync THEN stamp[x] ELSE lastSync
    BY <1>7 DEF CarryOut, serverVars
  <2>2. stamp[x] \in Nat
    BY <2>1 DEF Stamped
  <2>3. \A t : SecondOfRemoved(t) => SecondOfRemoved(t)'
    BY <2>1 DEF SecondOfRemoved
  <2>4. \E y \in removed' : stamp'[y] = lastSync'
    BY <2>1, <2>2 DEF BatchIsNew, SecondOfRemoved
  <2>5. LastSyncIsKnown' /\ ProcessedOne' /\ BatchIsNew'
    BY <2>4 DEF LastSyncIsKnown, ProcessedOne, BatchIsNew, SecondOfRemoved
  <2>6. ConfigIsKnown' /\ ConfigIsBehind'
    BY <2>1, <2>3 DEF ConfigIsKnown, ConfigIsBehind
  <2>7. Unseen' = Unseen
    BY <2>1 DEF Unseen
  <2>8. UnseenIsLater'
    BY <2>1, <2>7 DEF UnseenIsLater
  <2> QED
    BY <2>5, <2>6, <2>8
<1>8. CASE Persist \/ PersistFails
  <2>1. /\ UNCHANGED <<clock, stamp, recorded, lastSync, batch, removed, late>>
        /\ loop = "process" /\ loop' = "wait" /\ batch = {} /\ config' \in {config, Never, lastSync}
    BY <1>8 DEF Persist, PersistFails, serverVars
  <2>2. \A t : SecondOfRemoved(t)' <=> SecondOfRemoved(t)
    BY <2>1 DEF SecondOfRemoved
  <2>3. Stamped' = Stamped /\ Unseen' = Unseen
    BY <2>1 DEF Stamped, Unseen
  <2>4. LastSyncIsKnown' /\ ConfigIsKnown' /\ ProcessedOne' /\ BatchIsNew'
    BY <2>1, <2>2, <2>3 DEF LastSyncIsKnown, ConfigIsKnown, ProcessedOne, BatchIsNew
  <2>5. UnseenIsLater' /\ ConfigIsBehind'
    BY <2>1, <2>3 DEF UnseenIsLater, ConfigIsBehind, Unseen
  <2> QED
    BY <2>4, <2>5
<1>9. CASE Crash
  <2>1. /\ UNCHANGED <<clock, stamp, recorded, lastSync, removed, late>>
        /\ loop' = "off" /\ batch' = {} /\ config' \in {config, Never}
    BY <1>9 DEF Crash, serverVars
  <2>2. \A t : SecondOfRemoved(t)' <=> SecondOfRemoved(t)
    BY <2>1 DEF SecondOfRemoved
  <2>3. Stamped' = Stamped
    BY <2>1 DEF Stamped
  <2>4. LastSyncIsKnown' /\ ConfigIsKnown' /\ ProcessedOne' /\ BatchIsNew'
    BY <2>1, <2>2, <2>3 DEF LastSyncIsKnown, ConfigIsKnown, ProcessedOne, BatchIsNew
  <2>5. UnseenIsLater' /\ ConfigIsBehind'
    BY <2>1 DEF UnseenIsLater, ConfigIsBehind
  <2> QED
    BY <2>4, <2>5
<1> QED
  BY <1>2, <1>3, <1>4, <1>5, <1>6, <1>7, <1>8, <1>9 DEF Next, AgentStep

\* Whatever config.json counts as synced was carried out, or came too late for
\* the agent, however often it crashes, wherever the write of the file fails or is torn,
\* and in whatever order the deletes stamp and record their rows.
THEOREM ConfigIsNeverAhead == Spec => []ConfigIsCarriedOut
<1>1. SyncInv => ConfigIsCarriedOut
  BY BoundsAssumption DEF SyncInv, TypeInv, TypeOK, Times, Stamped, ConfigIsBehind, ConfigIsCarriedOut, DeletionsUpTo
<1> QED
  BY <1>1, InitSync, NextSync, PTL DEF Spec

=============================================================================
