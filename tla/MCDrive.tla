------------------------------ MODULE MCDrive ------------------------------
(***************************************************************************)
(* Instances of Drive for TLC: which calls there are, and what each is.    *)
(***************************************************************************)
EXTENDS Drive

CONSTANTS
  p1, p2, s1, s2, t1, x1,       \* the calls on the server
  a1, a2, a3, g1, b1, b2,       \* the calls on two agents
  c,                            \* a chunk
  mine, yours,                  \* accounts
  a, b                          \* agents in gdrive mode, on one account

MCKind == [k \in Calls |->
  CASE k \in {p1, p2, a1, b1} -> "prepare"
    [] k \in {s1, s2, t1, a2, b2} -> "save"
    [] k = g1 -> "get"
    [] k = x1 -> "delete"
    [] k = a3 -> "sync"]

MCChunk == [k \in Calls |-> c]
MCAccount == [k \in Calls |-> IF k \in {p2, t1} THEN yours ELSE mine]
MCStore == [k \in Calls |-> CASE k \in {a1, a2, a3, g1} -> a
                              [] k \in {b1, b2} -> b
                              [] OTHER -> Server]

\* Only the calls of one of these groups are made in a behaviour: one user,
\* two users, two agents.  Server and agents use folders of different names
\* and share nothing but the bounds.
Groups == {{p1, s1, s2, x1}, {p1, p2, s1, t1}, {a1, a2, a3, g1, b1, b2}}
Apart == \E G \in Groups : \A k \in Calls \ G : pc[k] = "idle"

MCSpec == Init /\ [][Next /\ Apart']_vars

=============================================================================
