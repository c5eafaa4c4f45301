------------------------------ MODULE Mailbox ------------------------------
(***************************************************************************)
(* What the relay promises to the code that calls it, with none of its     *)
(* channels, buffers, time-outs or clean-up goroutines: a set of messages  *)
(* posted under keys, each taken by at most one read, and only by a read   *)
(* of the key it was posted under.  A read of a server key may also be     *)
(* woken empty, which is what a receive from a closed Go channel does.     *)
(*                                                                         *)
(* A message may stay untaken for ever, so losing one needs no action, and *)
(* the messages of a key are not ordered: neither is promised by the code. *)
(* Relay.tla implements this specification (RelayProofs.tla proves it).    *)
(***************************************************************************)
CONSTANTS
  Messages,    \* the messages callers may post, each posted at most once
  Reads,       \* the reads callers may make, each at most once
  WakeableKeys,\* the keys whose reads can be woken without a message
  KeyOf,       \* the relay key a message or a read names
  Nothing,     \* the result of a read that has taken nothing
  Empty        \* the result of a read that was woken without a message

VARIABLES
  posted,      \* the messages accepted from their senders
  got          \* what each read took

mailboxVars == <<posted, got>>

Init ==
  /\ posted = {}
  /\ got = [r \in Reads |-> Nothing]

\* A sender is told its message was accepted.
Post(m) ==
  /\ m \notin posted
  /\ posted' = posted \cup {m}
  /\ UNCHANGED got

\* Read r takes one accepted message of its key that nobody took before.
Take(r, m) ==
  /\ got[r] = Nothing
  /\ m \in posted
  /\ KeyOf[m] = KeyOf[r]
  /\ \A q \in Reads : got[q] # m
  /\ got' = [got EXCEPT ![r] = m]
  /\ UNCHANGED posted

\* Read r returns successfully although nobody posted anything for it.
WakeEmpty(r) ==
  /\ got[r] = Nothing
  /\ KeyOf[r] \in WakeableKeys
  /\ got' = [got EXCEPT ![r] = Empty]
  /\ UNCHANGED posted

Next ==
  \/ \E m \in Messages : Post(m)
  \/ \E r \in Reads, m \in Messages : Take(r, m)
  \/ \E r \in Reads : WakeEmpty(r)

Spec == Init /\ [][Next]_mailboxVars

=============================================================================
