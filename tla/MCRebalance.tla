---------------------------- MODULE MCRebalance ----------------------------
(***************************************************************************)
(* Instances of Rebalance for TLC: one file of all the chunks but one,     *)
(* which stands for whatever is left of a chunk that was cut off.          *)
(***************************************************************************)
EXTENDS Rebalance, SequencesExt, TLC

CONSTANT Fragment

MCContent == [f \in Files |-> SetToSeq(Chunks \ {Fragment})]

MCTornOf == [c \in Chunks |-> Fragment]

\* The view leaves out what no later step reads: acknowledgements, which no
\* move waits for, what was ever saved, the loops' variables after their loops, and
\* what is stored and was answered after the last rebalance.
MCMove(r) ==
  CASE pc[r] = "store"                -> move[r]
    [] pc[r] \in Moving \ {"store"}   -> [move[r] EXCEPT !.data = "none"]
    [] pc[r] = "chunks"               -> [NoMove EXCEPT !.from = move[r].from, !.count = move[r].count,
                                                        !.moved = move[r].moved]
    [] OTHER                          -> NoMove

MCUnseen(r) == IF pc[r] \in Moving \cup {"chunks"} THEN unseen[r] ELSE {}

\* A plan that is through and that LoadsMatchCatalog does not speak of.
MCThrough(r) == pc[r] \in {"devices", "done"} /\ unvisited[r] = {} /\ ~Only(r)

MCPlan(r) == IF MCThrough(r) THEN <<>> ELSE <<load[r], snapshot[r]>>

\* Nothing is retrieved any more.
MCOver == \A r \in Rebalances : pc[r] = "done"

MCStored == IF MCOver THEN <<>> ELSE [d \in Devices |-> [c \in Uploaded |-> stored[d][c]]]

MCAnswers ==
  IF MCOver THEN <<>> ELSE <<{x \in answers : x.key[1] = "chunk"}, sentOn \cap ({"chunk"} \X Chunks)>>

MCView ==
  <<locations, inbox, MCAnswers, MCStored, task, apc, pc, unvisited, crossed, refused,
    [r \in Rebalances |-> <<MCPlan(r), MCMove(r), MCUnseen(r)>>]>>

\* The uploaded chunks are interchangeable: all of them are of one file, and
\* only their rows tell them apart, which no step reads.
MCSymmetry == Permutations(Chunks \ {Fragment})

\* Bounds of the run with two rebalances.  The second begins when the first has
\* found all chunks on one agent, always the same (they are interchangeable, as
\* the rebalances are); from then on only the agents are online, a rebalance
\* takes no step before they have carried out what they were sent, and a move
\* that has an answer takes it.  The two interleave freely, and one that runs
\* alone meets everything else, but no third device where both agents have all
\* the chunks.
MCFirst == CHOOSE r \in Rebalances : TRUE

\* The agents with a fragment, or with one on its way to them.
MCTorn ==
  {d \in Agents : \/ <<Fragment, d>> \in locations
                  \/ \E m \in inbox[d] : m.chunk = Fragment
                  \/ task[d] # NoTask /\ task[d].chunk = Fragment}

\* Where the first finds no replicas, one of two things goes wrong: one agent is
\* sent fragments, or, with only the agents online, one statement is refused.
MCFaults ==
  /\ Cardinality(MCTorn') <= 1
  /\ MCTorn' # {} \/ refused' # {} => Unreplicated(MCFirst)
  /\ refused' # {} => /\ Cardinality(refused') = 1 /\ MCTorn' = {}
                      /\ DOMAIN load[MCFirst] \subseteq Agents

MCDevices ==
  \A r \in Rebalances : snapshot'[r] = Uploaded \X Agents => Cardinality(DOMAIN load'[r]) <= 2

\* The second found fewer than two devices online, after the first had ended.
MCEndsAtOnce(r) == pc[MCFirst] = "done" /\ pc'[r] = "done" /\ DOMAIN load'[r] = {}

\* A move that takes an answer if it has one.
MCPrompt(r) ==
  pc[r] = "data" /\ pc'[r] # "data" /\ (\E x \in answers : x.key = <<"chunk", move[r].chunk>>) =>
    answers' # answers

MCTogether ==
  \A r \in Rebalances \ {MCFirst} : pc'[r] # "idle" /\ pc' # pc =>
    \/ MCEndsAtOnce(r)
    \/ /\ refused' = {} /\ MCTorn' = {}
       /\ snapshot[MCFirst] = Uploaded \X {CHOOSE d \in Agents : TRUE}
       /\ \A d \in Agents : apc[d] = "polling" /\ inbox[d] = {}
       /\ \A q \in Rebalances : DOMAIN load'[q] \cup unvisited'[q] \subseteq Agents
       /\ \A q \in Rebalances : MCPrompt(q)

MCSpec == Init /\ [][Next /\ MCFaults /\ MCDevices /\ MCTogether]_vars

=============================================================================
