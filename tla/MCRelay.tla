------------------------------ MODULE MCRelay ------------------------------
(***************************************************************************)
(* Instances of Relay for TLC: one inbox and one of the server's keys.     *)
(***************************************************************************)
EXTENDS Relay, TLC

CONSTANTS
  inbox,       \* the inbox of the one agent of the instance
  ackKey       \* the server key the server's calls and the posters share

MCKeyOf ==
  [p \in Posters \cup Injectors \cup Pollers \cup Waiters \cup Movers |->
     IF p \in Injectors \cup Pollers THEN inbox ELSE ackKey]

\* Calls of one kind and one key are interchangeable.
MCSymmetry ==
  Permutations(Injectors) \cup Permutations(Pollers)
    \cup Permutations(Posters) \cup Permutations(Waiters) \cup Permutations(Movers)

=============================================================================
