---------------------------- MODULE AgentProofs ----------------------------
(***************************************************************************)
(* What the proofs about FileService and about Rebalance share: that the   *)
(* steps of the agents keep the types of the tables, the relay and the     *)
(* disks, whatever handlers run beside them, and that a recursively        *)
(* defined sum over a finite set exists, is one, and adds up.              *)
(***************************************************************************)
EXTENDS Agent, FiniteSetTheorems, WellFoundedInduction, TLAPS

\* An agent that is not polling has a command.
HasTask == \A d \in Agents : apc[d] # "polling" => task[d] \in Commands

\* A set of naturals has a least element.
LEMMA LeastNatural ==
  ASSUME NEW S, S \subseteq Nat, S # {}
  PROVE  \E n \in S : \A m \in S : n <= m
<1>1. PICK n \in S : \A m \in S : ~ (<<m, n>> \in OpToRel(<, Nat))
  BY NatLessThanWellFounded, WFMin
<1>2. \A m \in S : ~ (m < n)
  BY <1>1 DEF OpToRel
<1>3. QED
  BY <1>2

-----------------------------------------------------------------------------
(***************************************************************************)
(* Sums.  A fold is a function that some recursive equation defines, and   *)
(* an induction over the subsets of a finite set comes from the least size *)
(* for which a claim would fail.                                           *)
(***************************************************************************)

\* Induction, as a fact about sets of naturals.
LEMMA Induction ==
  ASSUME NEW T, 0 \in T, \A n \in Nat : n \in T => n + 1 \in T
  PROVE  Nat \subseteq T
<1> DEFINE F == Nat \ T
<1>1. SUFFICES ASSUME F # {} PROVE FALSE
  OBVIOUS
<1>2. PICK n \in F : \A m \in F : n <= m
  BY <1>1, LeastNatural
<1>3. n - 1 \in Nat /\ n - 1 \in T
  BY <1>2
<1>4. QED
  BY <1>2, <1>3

Some(s) == CHOOSE x \in s : TRUE

\* What a fold that adds up l computes for the subsets of D with at most n elements.
SumsUpTo(g, l, D, n) ==
  \A s \in SUBSET D : Cardinality(s) <= n => g[s] = IF s = {} THEN 0 ELSE l[Some(s)] + g[s \ {Some(s)}]

Sums(g, l, D) ==
  g = [s \in SUBSET D |-> IF s = {} THEN 0 ELSE l[Some(s)] + g[s \ {Some(s)}]]

\* The sizes of the subsets of a finite set.
LEMMA Sizes ==
  ASSUME NEW D, IsFiniteSet(D)
  PROVE  \A s \in SUBSET D : /\ Cardinality(s) \in Nat /\ Cardinality(s) <= Cardinality(D)
                             /\ Cardinality(s) = 0 <=> s = {}
<1>1. \A s \in SUBSET D : IsFiniteSet(s) /\ Cardinality(s) <= Cardinality(D)
  BY FS_Subset
<1>2. QED
  BY <1>1, FS_CardinalityType, FS_EmptySet

\* A set without the element the fold takes first.
LEMMA OneLess ==
  ASSUME NEW D, IsFiniteSet(D), NEW s \in SUBSET D, s # {}
  PROVE  /\ Some(s) \in s /\ s \ {Some(s)} \in SUBSET D
         /\ Cardinality(s) \in Nat \ {0} /\ Cardinality(s \ {Some(s)}) = Cardinality(s) - 1
<1>1. Some(s) \in s
  BY DEF Some
<1>2. IsFiniteSet(s)
  BY FS_Subset
<1>3. Cardinality(s) \in Nat /\ Cardinality(s) # 0
  BY Sizes
<1>4. Cardinality(s \ {Some(s)}) = Cardinality(s) - 1
  BY <1>1, <1>2, FS_RemoveElement
<1>5. QED
  BY <1>1, <1>3, <1>4

\* There is such a function.
LEMMA SumsExist ==
  ASSUME NEW D, IsFiniteSet(D), NEW l \in [D -> Nat]
  PROVE  \E g \in [SUBSET D -> Nat] : Sums(g, l, D)
<1> DEFINE T == {n \in Nat : \E g \in [SUBSET D -> Nat] : SumsUpTo(g, l, D, n)}
<1>1. 0 \in T
  <2> DEFINE g == [s \in SUBSET D |-> 0]
  <2>1. \A s \in SUBSET D : Cardinality(s) <= 0 => s = {}
    BY Sizes
  <2>2. g \in [SUBSET D -> Nat] /\ SumsUpTo(g, l, D, 0)
    BY <2>1 DEF SumsUpTo
  <2>3. QED
    BY <2>2
<1>2. ASSUME NEW n \in Nat, n \in T PROVE n + 1 \in T
  <2>1. PICK g \in [SUBSET D -> Nat] : SumsUpTo(g, l, D, n)
    BY <1>2
  <2> DEFINE h == [s \in SUBSET D |-> IF Cardinality(s) = n + 1 THEN l[Some(s)] + g[s \ {Some(s)}] ELSE g[s]]
  <2>2. ASSUME NEW s \in SUBSET D, Cardinality(s) = n + 1
        PROVE  s # {} /\ l[Some(s)] + g[s \ {Some(s)}] \in Nat
    <3>1. s # {}
      BY <2>2, Sizes
    <3>2. Some(s) \in D /\ s \ {Some(s)} \in SUBSET D
      BY <3>1, OneLess
    <3>3. QED
      BY <3>1, <3>2, <2>1
  <2>3. h \in [SUBSET D -> Nat]
    BY <2>1, <2>2
  <2>4. ASSUME NEW s \in SUBSET D, Cardinality(s) <= n + 1
        PROVE  h[s] = IF s = {} THEN 0 ELSE l[Some(s)] + h[s \ {Some(s)}]
    <3>1. CASE s = {}
      <4>1. Cardinality(s) = 0
        BY <3>1, Sizes
      <4>2. h[s] = g[s] /\ g[s] = 0
        BY <2>1, <3>1, <4>1 DEF SumsUpTo
      <4>3. QED
        BY <3>1, <4>2
    <3>2. CASE s # {}
      <4> DEFINE q == s \ {Some(s)}
      <4>1. q \in SUBSET D /\ Cardinality(s) \in Nat /\ Cardinality(q) = Cardinality(s) - 1
        BY <3>2, OneLess
      <4>2. h[q] = g[q]
        <5>1. Cardinality(q) # n + 1
          BY <2>4, <4>1
        <5>2. QED
          BY <4>1, <5>1
      <4>3. Cardinality(s) <= n => g[s] = l[Some(s)] + g[q]
        BY <2>1, <3>2 DEF SumsUpTo
      <4>4. h[s] = l[Some(s)] + g[q]
        BY <2>4, <4>1, <4>3
      <4>5. QED
        BY <3>2, <4>2, <4>4
    <3>3. QED
      BY <3>1, <3>2
  <2>5. SumsUpTo(h, l, D, n + 1)
    BY <2>4 DEF SumsUpTo
  <2> HIDE DEF h
  <2>6. QED
    BY <2>3, <2>5
<1>3. Cardinality(D) \in Nat
  BY FS_CardinalityType
<1> HIDE DEF T
<1>4. Cardinality(D) \in T
  BY <1>1, <1>2, <1>3, Induction
<1>5. PICK g \in [SUBSET D -> Nat] : SumsUpTo(g, l, D, Cardinality(D))
  BY <1>4 DEF T
<1>6. \A s \in SUBSET D : Cardinality(s) <= Cardinality(D)
  BY Sizes
<1>7. Sums(g, l, D)
  BY <1>5, <1>6 DEF SumsUpTo, Sums
<1>8. QED
  BY <1>7

\* And only one, so what CHOOSE takes is it.
LEMMA SumsAgree ==
  ASSUME NEW D, IsFiniteSet(D), NEW l \in [D -> Nat], NEW g \in [SUBSET D -> Nat], Sums(g, l, D),
         NEW h, Sums(h, l, D)
  PROVE  h \in [SUBSET D -> Nat]
<1> DEFINE T == {n \in Nat : \A s \in SUBSET D : Cardinality(s) = n => h[s] = g[s]}
<1>1. 0 \in T
  BY Sizes DEF Sums
<1>2. ASSUME NEW n \in Nat, n \in T PROVE n + 1 \in T
  <2>1. ASSUME NEW s \in SUBSET D, Cardinality(s) = n + 1 PROVE h[s] = g[s]
    <3> DEFINE q == s \ {Some(s)}
    <3>1. s # {}
      BY <2>1, Sizes
    <3>2. q \in SUBSET D /\ Cardinality(q) = n
      BY <2>1, <3>1, OneLess
    <3>3. h[q] = g[q]
      BY <1>2, <3>2
    <3>4. g[s] = l[Some(s)] + g[q] /\ h[s] = l[Some(s)] + h[q]
      BY <3>1 DEF Sums
    <3>5. QED
      BY <3>3, <3>4
  <2>2. QED
    BY <2>1
<1> HIDE DEF T
<1>3. Nat \subseteq T
  BY <1>1, <1>2, Induction
<1>4. \A s \in SUBSET D : Cardinality(s) \in T
  BY <1>3, Sizes
<1>5. \A s \in SUBSET D : h[s] = g[s]
  BY <1>4 DEF T
<1>6. h = [s \in SUBSET D |-> h[s]]
  BY DEF Sums
<1>7. QED
  BY <1>5, <1>6

\* g adds up the naturals l, over every subset of D.
AddsUp(g, l, D) ==
  IsFiniteSet(D) /\ l \in [D -> Nat] /\ g \in [SUBSET D -> Nat] /\ Sums(g, l, D)

\* The sum over a subset is the same in every set that has it.
LEMMA SumsRestrict ==
  ASSUME NEW D, NEW l, NEW g, AddsUp(g, l, D), NEW C, NEW k, NEW h, AddsUp(h, k, C),
         C \subseteq D, \A x \in C : k[x] = l[x]
  PROVE  h[C] = g[C]
<1> USE DEF AddsUp
<1> DEFINE T == {n \in Nat : \A s \in SUBSET C : Cardinality(s) = n => h[s] = g[s]}
<1>0. IsFiniteSet(C)
  OBVIOUS
<1>1. 0 \in T
  BY <1>0, Sizes DEF Sums
<1>2. ASSUME NEW n \in Nat, n \in T PROVE n + 1 \in T
  <2>1. ASSUME NEW s \in SUBSET C, Cardinality(s) = n + 1 PROVE h[s] = g[s]
    <3> DEFINE q == s \ {Some(s)}
    <3>1. s # {}
      BY <1>0, <2>1, Sizes
    <3>2. Some(s) \in C /\ q \in SUBSET C /\ Cardinality(q) = n
      BY <1>0, <2>1, <3>1, OneLess
    <3>3. h[q] = g[q]
      BY <1>2, <3>2
    <3>4. g[s] = l[Some(s)] + g[q] /\ h[s] = k[Some(s)] + h[q]
      BY <3>1 DEF Sums
    <3>5. QED
      BY <3>2, <3>3, <3>4
  <2>2. QED
    BY <2>1
<1> HIDE DEF T
<1>3. Nat \subseteq T
  BY <1>1, <1>2, Induction
<1>4. \A s \in SUBSET C : Cardinality(s) \in T
  BY <1>0, <1>3, Sizes
<1>5. QED
  BY <1>4 DEF T

\* Any element may be taken first.
LEMMA AnyFirst ==
  ASSUME NEW D, NEW l, NEW g, AddsUp(g, l, D), NEW e \in D
  PROVE  g[D] = l[e] + g[D \ {e}]
<1> USE DEF AddsUp
<1> DEFINE T == {n \in Nat : \A s \in SUBSET D : Cardinality(s) = n => \A x \in s : g[s] = l[x] + g[s \ {x}]}
<1>1. 0 \in T
  BY Sizes
<1>2. ASSUME NEW n \in Nat, n \in T PROVE n + 1 \in T
  <2>1. ASSUME NEW s \in SUBSET D, Cardinality(s) = n + 1, NEW x \in s PROVE g[s] = l[x] + g[s \ {x}]
    <3> DEFINE y == Some(s)
               a == s \ {x}
               b == s \ {y}
    <3>0. s # {} /\ IsFiniteSet(s)
      BY <2>1, FS_Subset
    <3>1. y \in s /\ b \in SUBSET D /\ Cardinality(b) = n /\ g[s] = l[y] + g[b]
      <4>1. y \in s /\ b \in SUBSET D /\ Cardinality(b) = Cardinality(s) - 1
        BY <3>0, OneLess
      <4>2. g[s] = l[y] + g[b]
        BY <3>0 DEF Sums
      <4>3. QED
        BY <2>1, <4>1, <4>2
    <3>2. a \in SUBSET D /\ Cardinality(a) = n
      <4>1. Cardinality(a) = Cardinality(s) - 1
        BY <2>1, <3>0, FS_RemoveElement
      <4>2. QED
        BY <2>1, <4>1
    <3>3. CASE x # y
      <4>1. g[b] = l[x] + g[b \ {x}]
        BY <1>2, <3>1, <3>3
      <4>2. g[a] = l[y] + g[a \ {y}]
        BY <1>2, <3>1, <3>2, <3>3
      <4>3. a \ {y} = b \ {x} /\ b \ {x} \in SUBSET D
        OBVIOUS
      <4>4. l[x] \in Nat /\ l[y] \in Nat /\ g[b \ {x}] \in Nat
        BY <3>1, <4>3
      <4>5. g[a] = l[y] + g[b \ {x}]
        BY <4>2, <4>3
      <4> HIDE DEF a, b, y
      <4>6. g[s] = l[x] + g[a]
        BY <3>1, <4>1, <4>4, <4>5
      <4>7. QED
        BY <4>6 DEF a
    <3>4. CASE x = y
      <4> HIDE DEF y
      <4>1. QED
        BY <3>1, <3>4 DEF b
    <3>5. QED
      BY <3>3, <3>4
  <2>2. QED
    BY <2>1
<1> HIDE DEF T
<1>3. Nat \subseteq T
  BY <1>1, <1>2, Induction
<1>4. \A s \in SUBSET D : Cardinality(s) \in T
  BY <1>3, Sizes
<1>5. QED
  BY <1>4 DEF T

\* A sum is one of its numbers and the sum of the others.
LEMMA SumsNext ==
  ASSUME NEW D, NEW l, NEW g, AddsUp(g, l, D), NEW e \in D,
         NEW C, C = D \ {e}, NEW k, NEW h, AddsUp(h, k, C), \A x \in C : k[x] = l[x]
  PROVE  g[D] = l[e] + h[C] /\ h[C] \in Nat /\ l[e] \in Nat
<1>1. C \subseteq D
  OBVIOUS
<1>2. h[C] = g[C]
  BY <1>1, SumsRestrict
<1>3. g[D] = l[e] + g[D \ {e}]
  BY AnyFirst
<1>4. h[C] \in Nat /\ l[e] \in Nat
  BY DEF AddsUp
<1>5. QED
  BY <1>2, <1>3, <1>4

-----------------------------------------------------------------------------
(* The types.                                                              *)

\* What a step leaves alone keeps its type.
LEMMA CatalogFrame == ASSUME CatalogTypeOK, UNCHANGED catalogVars PROVE CatalogTypeOK'
  BY DEF CatalogTypeOK, catalogVars

LEMMA AgentFrame ==
  ASSUME AgentTypeOK, HasTask, UNCHANGED <<relayVars, diskVars, loopVars>>
  PROVE  AgentTypeOK' /\ HasTask'
  BY DEF AgentTypeOK, HasTask, relayVars, diskVars, loopVars

\* The statements about one chunk keep the tables' types.
LEMMA ChunkStatementsType ==
  ASSUME CatalogTypeOK, NEW c \in Chunks,
         \/ \E f \in Files, s \in Nat : InsertChunk(c, f, s)
         \/ \E d \in Devices : InsertLocation(c, d)
  PROVE  CatalogTypeOK'
  BY DEF CatalogTypeOK, InsertChunk, InsertLocation, Rows

\* A write or a removal of a chunk.
LEMMA DiskType ==
  ASSUME AgentTypeOK, HasTask, NEW d \in Devices, NEW c \in Chunks,
         NEW part \in {"none", "part", "whole"},
         stored' = [stored EXCEPT ![d][c] = part], saved' \in {saved, saved \cup {<<c, d>>}},
         UNCHANGED <<relayVars, loopVars>>
  PROVE  AgentTypeOK' /\ HasTask'
<1>1. stored' \in [Devices -> [Chunks -> {"none", "part", "whole"}]]
  BY DEF AgentTypeOK
<1>2. saved' \subseteq Chunks \X Devices
  BY DEF AgentTypeOK
<1>3. QED
  BY <1>1, <1>2 DEF AgentTypeOK, HasTask, relayVars, loopVars

\* An agent's steps, its restart included.
LEMMA AgentType ==
  ASSUME CatalogTypeOK, AgentTypeOK, HasTask, NEW d \in Agents, AgentStep(d) \/ AgentRestart(d)
  PROVE  CatalogTypeOK' /\ AgentTypeOK' /\ HasTask'
<1>1. d \in Devices
  BY AgentsAssumption
<1>2. apc[d] # "polling" => task[d] \in Commands /\ task[d].chunk \in Chunks /\ task[d].by \in Handlers
  BY DEF HasTask, Commands
<1>3. CASE Poll(d)
  <2>1. PICK m \in inbox[d] :
          inbox' = [inbox EXCEPT ![d] = @ \ {m}] /\ task' = [task EXCEPT ![d] = m]
    BY <1>3 DEF Poll
  <2>2. /\ apc' = [apc EXCEPT ![d] = "handling"]
        /\ UNCHANGED <<answers, sentOn, diskVars, catalogVars>>
    BY <1>3 DEF Poll
  <2>3. m \in Commands
    BY DEF AgentTypeOK
  <2>4. AgentTypeOK'
    BY <2>1, <2>2, <2>3 DEF AgentTypeOK, diskVars
  <2>5. HasTask'
    BY <2>1, <2>2, <2>3 DEF AgentTypeOK, HasTask
  <2>6. QED
    BY <2>2, <2>4, <2>5, CatalogFrame
<1>4. ASSUME apc[d] # "polling", UNCHANGED relayVars,
             \E s \in {"saved", "reported"} : apc' = [apc EXCEPT ![d] = s] /\ task' = task,
             stored' \in [Devices -> [Chunks -> {"none", "part", "whole"}]],
             saved' \subseteq Chunks \X Devices
      PROVE  AgentTypeOK' /\ HasTask'
  BY <1>4 DEF AgentTypeOK, HasTask, relayVars
<1>5. ASSUME apc' = [apc EXCEPT ![d] = "polling"], task' = [task EXCEPT ![d] = NoTask],
             inbox' = inbox, answers' \subseteq Answers, sentOn' \subseteq ServerKeys,
             stored' \in [Devices -> [Chunks -> {"none", "part", "whole"}]], UNCHANGED saved
      PROVE  AgentTypeOK' /\ HasTask'
  <2>1. AgentTypeOK'
    BY <1>5 DEF AgentTypeOK
  <2>2. HasTask'
    BY <1>5 DEF AgentTypeOK, HasTask
  <2>3. QED
    BY <2>1, <2>2
<1>6. /\ answers \subseteq Answers /\ sentOn \subseteq ServerKeys
      /\ stored \in [Devices -> [Chunks -> {"none", "part", "whole"}]]
      /\ saved \subseteq Chunks \X Devices
  BY DEF AgentTypeOK
<1>7. ASSUME NEW key \in ServerKeys, NEW data \in {"whole", "part"}, apc[d] # "polling",
             SendAnswer(d, key, data)
      PROVE  inbox' = inbox /\ answers' \subseteq Answers /\ sentOn' \subseteq ServerKeys
  <2>1. [key |-> key, data |-> data, from |-> d, by |-> task[d].by] \in Answers
    BY <1>2, <1>7 DEF Answers
  <2>2. QED
    BY <1>6, <1>7, <2>1 DEF SendAnswer
<1>8. CASE SaveChunk(d)
  <2>1. /\ apc[d] = "handling" /\ apc' = [apc EXCEPT ![d] = "saved"]
        /\ stored' = [stored EXCEPT ![d][task[d].chunk] = "whole"]
        /\ saved' = saved \cup {<<task[d].chunk, d>>}
        /\ UNCHANGED <<relayVars, task, catalogVars>>
    BY <1>8 DEF SaveChunk, Handling
  <2>2. stored' \in [Devices -> [Chunks -> {"none", "part", "whole"}]]
    BY <1>1, <1>2, <1>6, <2>1
  <2>3. saved' \subseteq Chunks \X Devices
    BY <1>1, <1>2, <1>6, <2>1
  <2>4. QED
    BY <1>4, <2>1, <2>2, <2>3, CatalogFrame
<1>9. CASE SaveChunkFails(d)
  <2>1. /\ apc[d] = "handling"
        /\ apc' = [apc EXCEPT ![d] = "polling"] /\ task' = [task EXCEPT ![d] = NoTask]
        /\ UNCHANGED <<relayVars, saved, catalogVars>>
    BY <1>9 DEF SaveChunkFails, Handling
  <2>2. PICK part \in {stored[d][task[d].chunk], "part"} :
          stored' = [stored EXCEPT ![d][task[d].chunk] = part]
    BY <1>9 DEF SaveChunkFails
  <2>3. part \in {"none", "part", "whole"}
    BY <1>1, <1>2, <1>6, <2>1
  <2>4. stored' \in [Devices -> [Chunks -> {"none", "part", "whole"}]]
    BY <1>1, <1>2, <1>6, <2>2, <2>3
  <2>5. QED
    BY <1>5, <1>6, <2>1, <2>4, CatalogFrame DEF relayVars
<1>10. CASE ReportChunkLocation(d)
  <2>1. /\ apc[d] = "saved" /\ apc' = [apc EXCEPT ![d] = "reported"]
        /\ InsertLocation(task[d].chunk, d) \/ UNCHANGED catalogVars
        /\ UNCHANGED <<relayVars, diskVars, task>>
    BY <1>10 DEF ReportChunkLocation
  <2>2. CatalogTypeOK'
    BY <1>1, <1>2, <2>1, CatalogFrame, ChunkStatementsType
  <2>3. QED
    BY <1>4, <1>6, <2>1, <2>2 DEF diskVars
<1>11. CASE SendAck(d)
  <2>1. /\ apc[d] = "reported" /\ SendAnswer(d, <<"ack", task[d].chunk>>, "whole")
        /\ apc' = [apc EXCEPT ![d] = "polling"] /\ task' = [task EXCEPT ![d] = NoTask]
        /\ UNCHANGED <<diskVars, catalogVars>>
    BY <1>11 DEF SendAck
  <2>2. <<"ack", task[d].chunk>> \in ServerKeys
    BY <1>2, <2>1 DEF ServerKeys
  <2>3. QED
    BY <1>5, <1>6, <1>7, <2>1, <2>2, CatalogFrame DEF diskVars
<1>12. CASE HandleRetrieve(d)
  <2>1. /\ apc[d] = "handling"
        /\ \/ UNCHANGED relayVars
           \/ /\ stored[d][task[d].chunk] # "none"
              /\ SendAnswer(d, <<"chunk", task[d].chunk>>, stored[d][task[d].chunk])
        /\ apc' = [apc EXCEPT ![d] = "polling"] /\ task' = [task EXCEPT ![d] = NoTask]
        /\ UNCHANGED <<diskVars, catalogVars>>
    BY <1>12 DEF HandleRetrieve, Handling
  <2>2. /\ <<"chunk", task[d].chunk>> \in ServerKeys
        /\ stored[d][task[d].chunk] \in {"none", "part", "whole"}
    BY <1>1, <1>2, <1>6, <2>1 DEF ServerKeys
  <2>3. inbox' = inbox /\ answers' \subseteq Answers /\ sentOn' \subseteq ServerKeys
    BY <1>6, <1>7, <2>1, <2>2 DEF relayVars
  <2>4. QED
    BY <1>5, <1>6, <2>1, <2>3, CatalogFrame DEF diskVars
<1>13. CASE HandleDelete(d)
  <2>1. /\ apc[d] = "handling"
        /\ \E left \in {"none", stored[d][task[d].chunk]} :
             stored' = [stored EXCEPT ![d][task[d].chunk] = left]
        /\ apc' = [apc EXCEPT ![d] = "polling"] /\ task' = [task EXCEPT ![d] = NoTask]
        /\ UNCHANGED <<relayVars, saved, catalogVars>>
    BY <1>13 DEF HandleDelete, Handling
  <2>2. stored[d][task[d].chunk] \in {"none", "part", "whole"}
    BY <1>1, <1>2, <1>6, <2>1
  <2>4. stored' \in [Devices -> [Chunks -> {"none", "part", "whole"}]]
    BY <1>1, <1>2, <1>6, <2>1, <2>2
  <2>3. QED
    BY <1>5, <1>6, <2>1, <2>4, CatalogFrame DEF relayVars
<1>14. CASE AgentRestart(d)
  <2>1. /\ apc[d] # "polling"
        /\ stored' = stored \/ stored' = [stored EXCEPT ![d][task[d].chunk] = "part"]
        /\ apc' = [apc EXCEPT ![d] = "polling"] /\ task' = [task EXCEPT ![d] = NoTask]
        /\ UNCHANGED <<relayVars, saved, catalogVars>>
    BY <1>14 DEF AgentRestart
  <2>2. stored' \in [Devices -> [Chunks -> {"none", "part", "whole"}]]
    BY <1>1, <1>2, <1>6, <2>1
  <2>3. QED
    BY <1>5, <1>6, <2>1, <2>2, CatalogFrame DEF relayVars
<1>15. CASE SyncDeletion(d)
  <2>1. PICK x \in deletions : \E c \in x.ids : stored' = [stored EXCEPT ![d][c] = "none"]
    BY <1>15 DEF SyncDeletion
  <2>2. PICK c \in x.ids : stored' = [stored EXCEPT ![d][c] = "none"]
    BY <2>1
  <2>3. c \in Chunks
    BY DEF CatalogTypeOK
  <2>4. UNCHANGED <<relayVars, saved, loopVars, catalogVars>>
    BY <1>15 DEF SyncDeletion
  <2>5. QED
    BY <1>1, <2>2, <2>3, <2>4, DiskType, CatalogFrame
<1>16. QED
  BY <1>3, <1>8, <1>9, <1>10, <1>11, <1>12, <1>13, <1>14, <1>15 DEF AgentStep

=============================================================================
