------------------------------- MODULE Relay -------------------------------
(***************************************************************************)
(* The server's in-memory relay: the global map relayChannels from a key   *)
(* "<to>-<session>" to a Go channel, guarded by relayLock, and the five    *)
(* pieces of code that use it:                                             *)
(*                                                                         *)
(*   RelaySend           POST /relay/send, called by agents                *)
(*   RelayRecv           GET /relay/recv, polled by agents                 *)
(*   injectRelayMessage  the server's handlers sending to an agent's inbox *)
(*   waitForRelayData    the server's handlers waiting for an agent        *)
(*   MoveChunk           which installs a channel of its own in the map    *)
(*                                                                         *)
(* A call is a process that runs once.  Its critical section under         *)
(* relayLock never blocks and is one step; the select that follows is      *)
(* another step, and the deletion of the key that some calls make          *)
(* afterwards a third, so that everything the lock does not cover          *)
(* interleaves.  A channel is identified with the call that made it.       *)
(*                                                                         *)
(* Time is abstracted: a clean-up goroutine's sleep may end at any moment  *)
(* after it starts, and so may a select's timer, which wins only when the  *)
(* select's channel operation cannot proceed.                              *)
(***************************************************************************)
EXTENDS Naturals, Sequences, FiniteSets

CONSTANTS
  Posters,     \* calls of RelaySend
  Injectors,   \* calls of injectRelayMessage
  Pollers,     \* calls of RelayRecv
  Waiters,     \* calls of waitForRelayData
  Movers,      \* calls of MoveChunk, up to its receipt of the chunk
  InboxKeys,   \* the keys "<device>-inbox"
  ServerKeys,  \* the keys "server-ack-<chunk>" and "server-chunk-<chunk>"
  KeyOf,       \* the key each call names
  InboxCap,    \* the buffer of a channel an inbox call makes: 10 in the code
  NoChan,      \* "not in the map"
  Nothing,     \* a receiver's result before it receives, or after a time-out
  Empty        \* the zero value received from a closed channel

Senders   == Posters \cup Injectors
Receivers == Pollers \cup Waiters \cup Movers
Calls     == Senders \cup Receivers
Keys      == InboxKeys \cup ServerKeys

\* The callers of the code: agents send to "server" and poll their own inbox,
\* the server's handlers inject into inboxes and wait on the server's keys,
\* and no device has the id "server".
ASSUME KeysAssumption ==
  /\ KeyOf \in [Calls -> Keys]
  /\ \A p \in Posters \cup Waiters \cup Movers : KeyOf[p] \in ServerKeys
  /\ \A p \in Injectors \cup Pollers : KeyOf[p] \in InboxKeys
  /\ InboxKeys \cap ServerKeys = {}

ASSUME CallsAssumption ==
  /\ Senders \cap Receivers = {}
  /\ Posters \cap Injectors = {}
  /\ Pollers \cap Waiters = {}
  /\ Pollers \cap Movers = {}
  /\ Waiters \cap Movers = {}
  /\ NoChan \notin Calls
  /\ Nothing \notin Calls
  /\ Empty \notin Calls
  /\ Nothing # Empty

ASSUME InboxCapAssumption == InboxCap \in Nat \ {0}

VARIABLES
  relayChannels,  \* the map: the channel of each key, or NoChan
  buffer,         \* the messages buffered in each channel
  closed,         \* the channels that have been closed
  cleaners,       \* the calls whose clean-up goroutine is still asleep
  pc,             \* where each call is
  ref,            \* the channel each call took from the map
  got             \* what each receiver received

vars == <<relayChannels, buffer, closed, cleaners, pc, ref, got>>

Phases ==
  { "idle",       \* not started
    "select",     \* blocked on its channel or its timer
    "cleanup",    \* about to delete its key from the map
    "sent",       \* a send accepted: 200, or true
    "dropped",    \* a send timed out: 504, or false
    "panicked",   \* a send on a closed channel
    "returned" }  \* a receive is over

TypeOK ==
  /\ relayChannels \in [Keys -> Calls \cup {NoChan}]
  /\ buffer \in [Calls -> Seq(Senders)]
  /\ closed \in SUBSET Calls
  /\ cleaners \in SUBSET Senders
  /\ pc \in [Calls -> Phases]
  /\ ref \in [Calls -> Calls \cup {NoChan}]
  /\ got \in [Receivers -> Senders \cup {Nothing, Empty}]

Init ==
  /\ relayChannels = [k \in Keys |-> NoChan]
  /\ buffer = [c \in Calls |-> <<>>]
  /\ closed = {}
  /\ cleaners = {}
  /\ pc = [p \in Calls |-> "idle"]
  /\ ref = [p \in Calls |-> NoChan]
  /\ got = [r \in Receivers |-> Nothing]

-----------------------------------------------------------------------------
(* The critical sections under relayLock.                                  *)

\* The capacity of the channel that call c makes.
Capacity(c) == IF c \in Injectors \cup Pollers THEN InboxCap ELSE 1

\* The channel call p finds under its key, or the one it makes there.
ChannelFor(p) ==
  IF relayChannels[KeyOf[p]] = NoChan THEN p ELSE relayChannels[KeyOf[p]]

FindOrMake(p) ==
  /\ pc[p] = "idle"
  /\ relayChannels' = [relayChannels EXCEPT ![KeyOf[p]] = ChannelFor(p)]
  /\ ref' = [ref EXCEPT ![p] = ChannelFor(p)]
  /\ pc' = [pc EXCEPT ![p] = "select"]
  /\ UNCHANGED <<buffer, closed, got>>

\* A send that makes its channel also starts a goroutine to clean it up.
StartSend(p) ==
  /\ FindOrMake(p)
  /\ cleaners' = IF ChannelFor(p) = p THEN cleaners \cup {p} ELSE cleaners

\* A receive that makes its channel starts none.
StartReceive(p) ==
  /\ FindOrMake(p)
  /\ UNCHANGED cleaners

RelaySend(p)          == p \in Posters /\ StartSend(p)
InjectRelayMessage(p) == p \in Injectors /\ StartSend(p)
RelayRecv(p)          == p \in Pollers /\ StartReceive(p)
WaitForRelayData(p)   == p \in Waiters /\ StartReceive(p)

\* MoveChunk replaces whatever channel its key had.
MoveChunkListen(p) ==
  /\ p \in Movers
  /\ pc[p] = "idle"
  /\ relayChannels' = [relayChannels EXCEPT ![KeyOf[p]] = p]
  /\ ref' = [ref EXCEPT ![p] = p]
  /\ pc' = [pc EXCEPT ![p] = "select"]
  /\ UNCHANGED <<buffer, closed, cleaners, got>>

-----------------------------------------------------------------------------
(* The selects: the channel operation or the timer, whichever is chosen.   *)

Push(p) ==
  /\ p \in Senders
  /\ pc[p] = "select"
  /\ ref[p] \notin closed
  /\ Len(buffer[ref[p]]) < Capacity(ref[p])
  /\ buffer' = [buffer EXCEPT ![ref[p]] = Append(@, p)]
  /\ pc' = [pc EXCEPT ![p] = "sent"]
  /\ UNCHANGED <<relayChannels, closed, cleaners, ref, got>>

\* In Go a send on a closed channel panics, also when it was already blocked.
PushOnClosed(p) ==
  /\ p \in Senders
  /\ pc[p] = "select"
  /\ ref[p] \in closed
  /\ pc' = [pc EXCEPT ![p] = "panicked"]
  /\ UNCHANGED <<relayChannels, buffer, closed, cleaners, ref, got>>

\* A RelaySend that waits for room as long as it takes.
SendTimeoutInboxOnly(p) ==
  /\ p \in Injectors
  /\ pc[p] = "select"
  /\ ref[p] \notin closed
  /\ Len(buffer[ref[p]]) >= Capacity(ref[p])
  /\ pc' = [pc EXCEPT ![p] = "dropped"]
  /\ UNCHANGED <<relayChannels, buffer, closed, cleaners, ref, got>>

SendTimeout(p) ==
  /\ p \in Senders
  /\ pc[p] = "select"
  /\ ref[p] \notin closed
  /\ Len(buffer[ref[p]]) >= Capacity(ref[p])
  /\ pc' = [pc EXCEPT ![p] = "dropped"]
  /\ UNCHANGED <<relayChannels, buffer, closed, cleaners, ref, got>>

\* A receive that leaves the message in the buffer.
ReceivePeeking(p) ==
  /\ p \in Receivers
  /\ pc[p] = "select"
  /\ buffer[ref[p]] # <<>>
  /\ got' = [got EXCEPT ![p] = Head(buffer[ref[p]])]
  /\ pc' = [pc EXCEPT ![p] = "cleanup"]
  /\ UNCHANGED <<relayChannels, buffer, closed, cleaners, ref>>

Receive(p) ==
  /\ p \in Receivers
  /\ pc[p] = "select"
  /\ buffer[ref[p]] # <<>>
  /\ got' = [got EXCEPT ![p] = Head(buffer[ref[p]])]
  /\ buffer' = [buffer EXCEPT ![ref[p]] = Tail(@)]
  /\ pc' = [pc EXCEPT ![p] = "cleanup"]
  /\ UNCHANGED <<relayChannels, closed, cleaners, ref>>

\* Only RelayRecv looks at the second result of the receive (and answers 410
\* without deleting its key); the other two take the nil for a message.
ReceiveClosed(p) ==
  /\ p \in Receivers
  /\ pc[p] = "select"
  /\ ref[p] \in closed
  /\ buffer[ref[p]] = <<>>
  /\ got' = [got EXCEPT ![p] = Empty]
  /\ pc' = [pc EXCEPT ![p] = IF p \in Pollers THEN "returned" ELSE "cleanup"]
  /\ UNCHANGED <<relayChannels, buffer, closed, cleaners, ref>>

\* A wait whose time-out leaves without the deferred deletion of its key.
ReceiveTimeoutLeaking(p) ==
  /\ p \in Receivers
  /\ pc[p] = "select"
  /\ ref[p] \notin closed
  /\ buffer[ref[p]] = <<>>
  /\ pc' = [pc EXCEPT ![p] = "returned"]
  /\ UNCHANGED <<relayChannels, buffer, closed, cleaners, ref, got>>

\* A time-out: RelayRecv keeps its key, the other two delete theirs (defer).
ReceiveTimeout(p) ==
  /\ p \in Receivers
  /\ pc[p] = "select"
  /\ ref[p] \notin closed
  /\ buffer[ref[p]] = <<>>
  /\ pc' = [pc EXCEPT ![p] = IF p \in Pollers THEN "returned" ELSE "cleanup"]
  /\ UNCHANGED <<relayChannels, buffer, closed, cleaners, ref, got>>

-----------------------------------------------------------------------------
(* The deletions from the map.                                             *)

\* A receiver deletes its key, whatever channel the map has there by now.
Forget(p) ==
  /\ pc[p] = "cleanup"
  /\ relayChannels' = [relayChannels EXCEPT ![KeyOf[p]] = NoChan]
  /\ pc' = [pc EXCEPT ![p] = "returned"]
  /\ UNCHANGED <<buffer, closed, cleaners, ref, got>>

\* A clean-up that closes the channel and leaves it in the map.
CleanupWithoutDelete(p) ==
  /\ p \in cleaners
  /\ cleaners' = cleaners \ {p}
  /\ closed' = IF p \in Posters /\ relayChannels[KeyOf[p]] # NoChan
                 THEN closed \cup {relayChannels[KeyOf[p]]}
                 ELSE closed
  /\ UNCHANGED <<relayChannels, buffer, pc, ref, got>>

\* A clean-up that closes the channels of inboxes too.
CleanupClosingInboxes(p) ==
  /\ p \in cleaners
  /\ cleaners' = cleaners \ {p}
  /\ closed' = IF relayChannels[KeyOf[p]] # NoChan
                 THEN closed \cup {relayChannels[KeyOf[p]]}
                 ELSE closed
  /\ relayChannels' = [relayChannels EXCEPT ![KeyOf[p]] = NoChan]
  /\ UNCHANGED <<buffer, pc, ref, got>>

\* A clean-up that forgets to reset the entry to "absent".
CleanupStoringGarbage(p) ==
  /\ p \in cleaners
  /\ cleaners' = cleaners \ {p}
  /\ relayChannels' = [relayChannels EXCEPT ![KeyOf[p]] = Nothing]
  /\ UNCHANGED <<buffer, closed, pc, ref, got>>

\* The clean-up goroutine wakes up.  It holds its creator's key, not its
\* channel: it deletes whatever channel the map has under that key by now,
\* and RelaySend's clean-up closes it as well.
Cleanup(p) ==
  /\ p \in cleaners
  /\ cleaners' = cleaners \ {p}
  /\ closed' = IF p \in Posters /\ relayChannels[KeyOf[p]] # NoChan
                 THEN closed \cup {relayChannels[KeyOf[p]]}
                 ELSE closed
  /\ relayChannels' = [relayChannels EXCEPT ![KeyOf[p]] = NoChan]
  /\ UNCHANGED <<buffer, pc, ref, got>>

-----------------------------------------------------------------------------
Ended(p) == pc[p] \in {"sent", "dropped", "panicked", "returned"}

\* Every call made has ended and every clean-up goroutine is gone.
Terminated ==
  /\ \A p \in Calls : Ended(p)
  /\ cleaners = {}
  /\ UNCHANGED vars

Start(p) ==
  \/ RelaySend(p)
  \/ InjectRelayMessage(p)
  \/ RelayRecv(p)
  \/ WaitForRelayData(p)
  \/ MoveChunkListen(p)

\* What an already started call does next.
Resolve(p) ==
  \/ Push(p)
  \/ PushOnClosed(p)
  \/ SendTimeout(p)
  \/ Receive(p)
  \/ ReceiveClosed(p)
  \/ ReceiveTimeout(p)
  \/ Forget(p)

Next ==
  \/ \E p \in Calls : Start(p) \/ Resolve(p)
  \/ \E p \in Senders : Cleanup(p)
  \/ Terminated

Spec == Init /\ [][Next]_vars

\* The Go scheduler runs every goroutine that can run, a timer that was set
\* fires, and relayLock is never held across a blocking operation.  Nothing
\* obliges anyone to make a call.
Fairness ==
  /\ \A p \in Calls : WF_vars(Resolve(p))
  /\ \A p \in Senders : WF_vars(Cleanup(p))

FairSpec == Spec /\ Fairness

-----------------------------------------------------------------------------
(* Properties.                                                             *)

\* The relay implements the mailbox: a message is received at most once, only
\* under its own key, only if a send of it was accepted, and only a receive
\* on a server key can be handed nothing (relay.go, upload.go:189-219,
\* download.go:138-163).
MailboxMessages == {m \in Senders : pc[m] = "sent"}

Box == INSTANCE Mailbox WITH
  Messages     <- Senders,
  Reads        <- Receivers,
  WakeableKeys <- ServerKeys,
  posted       <- MailboxMessages

MailboxSpec == Box!Spec

\* No channel in the map is closed, so that no clean-up goroutine closes a
\* channel twice: that panic, outside any request, would end the server
\* (relay.go:63-70 against every other writer of the map).
MappedChannelsAreOpen ==
  \A k \in Keys : relayChannels[k] # NoChan => relayChannels[k] \notin closed

\* No send into an inbox meets a closed channel: TriggerRebalance sends from
\* a goroutine of its own (rebalance.go:20), where that panic would end the
\* server; RelaySend's would be caught by net/http.
InjectorsNeverPanic == \A p \in Injectors : pc[p] # "panicked"

\* Every call that started ends: nobody waits for ever on a channel that was
\* unmapped or replaced behind its back.
EveryCallEnds == \A p \in Calls : pc[p] = "select" ~> Ended(p)

\* The server's keys do not stay in the map for ever, which the deferred
\* deletions and the clean-up goroutines are there for (download.go:150).
ServerKeysAreFreed == <>[](\A k \in ServerKeys : relayChannels[k] = NoChan)

=============================================================================
