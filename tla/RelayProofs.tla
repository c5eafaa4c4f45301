---------------------------- MODULE RelayProofs ----------------------------
(***************************************************************************)
(* Proofs about Relay.tla, for any sets of calls and keys and any buffer   *)
(* size: that no clean-up closes a channel twice, that no inbox send       *)
(* panics, and that the relay implements Mailbox.tla.                      *)
(***************************************************************************)
EXTENDS Relay, TLAPS

-----------------------------------------------------------------------------
(* The inductive invariant.                                                *)

\* Channels stay with the key they were made for: in the map, in the hands of
\* the calls blocked on them, and in the messages they hold.
KeysAgree ==
  /\ \A k \in Keys : relayChannels[k] # NoChan => KeyOf[relayChannels[k]] = k
  /\ \A p \in Calls : pc[p] = "select" =>
       ref[p] \in Calls /\ KeyOf[ref[p]] = KeyOf[p]
  /\ \A c \in Calls : \A i \in 1..Len(buffer[c]) : KeyOf[buffer[c][i]] = KeyOf[c]

\* Only RelaySend's clean-up closes, and agents send to the server only.
OnlyServerChannelsClose == \A c \in closed : KeyOf[c] \in ServerKeys

\* Only calls that have started have a channel in the map, or a closed one.
MadeChannels ==
  /\ \A k \in Keys : relayChannels[k] # NoChan => pc[relayChannels[k]] # "idle"
  /\ \A c \in closed : pc[c] # "idle"

\* A buffered message was accepted, nobody has it yet, and it is buffered once.
BufferedIsSent ==
  \A c \in Calls : \A i \in 1..Len(buffer[c]) :
    pc[buffer[c][i]] = "sent" /\ \A r \in Receivers : got[r] # buffer[c][i]

BufferedOnce ==
  \A c, d \in Calls : \A i \in 1..Len(buffer[c]), j \in 1..Len(buffer[d]) :
    buffer[c][i] = buffer[d][j] => c = d /\ i = j

\* What a receiver has was accepted from its sender.
ReceivedWasSent == \A r \in Receivers : got[r] \in Senders => pc[got[r]] = "sent"

\* A call that is still blocked or not started has received nothing.
NothingYet ==
  \A r \in Receivers : pc[r] \in {"idle", "select"} => got[r] = Nothing

Inv ==
  /\ TypeOK
  /\ KeysAgree
  /\ MadeChannels
  /\ OnlyServerChannelsClose
  /\ MappedChannelsAreOpen
  /\ InjectorsNeverPanic
  /\ BufferedIsSent
  /\ BufferedOnce
  /\ ReceivedWasSent
  /\ NothingYet

-----------------------------------------------------------------------------
\* The constants, as the steps below use them.
LEMMA ConstantFacts ==
  /\ Posters \subseteq Calls /\ Injectors \subseteq Calls
  /\ Senders \subseteq Calls /\ Receivers \subseteq Calls
  /\ Pollers \subseteq Receivers /\ Waiters \subseteq Receivers /\ Movers \subseteq Receivers
  /\ Senders \cap Receivers = {}
  /\ NoChan \notin Calls /\ Nothing \notin Calls /\ Empty \notin Calls /\ Nothing # Empty
  /\ KeyOf \in [Calls -> Keys]
BY CallsAssumption, KeysAssumption DEF Calls, Senders, Receivers

\* The invariant holds when the server starts.
LEMMA InitInv == Init => Inv
<1> SUFFICES ASSUME Init PROVE Inv
  OBVIOUS
<1> USE ConstantFacts
<1>1. TypeOK
  BY DEF Init, TypeOK, Phases
<1>2. QED
  BY <1>1 DEF Init, Inv, KeysAgree, MadeChannels, OnlyServerChannelsClose, MappedChannelsAreOpen,
         InjectorsNeverPanic, BufferedIsSent, BufferedOnce, ReceivedWasSent, NothingYet

-----------------------------------------------------------------------------
(* Every step preserves the invariant: one lemma per kind of step.         *)

\* A call that looks its key up leaves with an open channel of that key.
LEMMA FindOrMakeInv ==
  ASSUME Inv, NEW p \in Calls, FindOrMake(p), cleaners' \in SUBSET Senders
  PROVE  Inv'
<1> USE ConstantFacts DEF Inv
<1> DEFINE c == ChannelFor(p)
           k == KeyOf[p]
<1>1. k \in Keys /\ pc[p] = "idle"
  BY DEF FindOrMake
<1>2. c \in Calls /\ KeyOf[c] = k /\ c \notin closed /\ (c = p \/ pc[c] # "idle")
  BY <1>1 DEF ChannelFor, KeysAgree, TypeOK, MappedChannelsAreOpen, MadeChannels
<1>3. TypeOK'
  BY <1>2 DEF FindOrMake, TypeOK, Phases
<1>4. KeysAgree'
  BY <1>2 DEF FindOrMake, TypeOK, KeysAgree
<1>5. MappedChannelsAreOpen' /\ MadeChannels'
  BY <1>1, <1>2 DEF FindOrMake, TypeOK, MappedChannelsAreOpen, MadeChannels
<1>6. BufferedIsSent' /\ BufferedOnce'
  <2>1. \A q \in Calls : \A i \in 1..Len(buffer[q]) : buffer[q][i] # p
    BY <1>1 DEF BufferedIsSent
  <2>2. \A q \in Calls : \A i \in 1..Len(buffer[q]) : buffer[q][i] \in Calls
    BY DEF TypeOK
  <2>3. QED
    BY <2>1, <2>2 DEF FindOrMake, TypeOK, BufferedIsSent, BufferedOnce
<1>7. OnlyServerChannelsClose' /\ InjectorsNeverPanic' /\ NothingYet' /\ ReceivedWasSent'
  BY <1>1 DEF FindOrMake, TypeOK, OnlyServerChannelsClose, InjectorsNeverPanic,
              NothingYet, ReceivedWasSent
<1>8. QED
  BY <1>3, <1>4, <1>5, <1>6, <1>7

\* So do all five ways in, MoveChunk's replacement included.
LEMMA StartInv == ASSUME Inv, NEW p \in Calls, Start(p) PROVE Inv'
<1> USE ConstantFacts
<1>1. CASE RelaySend(p) \/ InjectRelayMessage(p)
  <2>1. FindOrMake(p) /\ cleaners' \in SUBSET Senders
    BY <1>1 DEF RelaySend, InjectRelayMessage, StartSend, Inv, TypeOK, Senders
  <2>2. QED
    BY <2>1, FindOrMakeInv
<1>2. CASE RelayRecv(p) \/ WaitForRelayData(p)
  <2>1. FindOrMake(p) /\ cleaners' \in SUBSET Senders
    BY <1>2 DEF RelayRecv, WaitForRelayData, StartReceive, Inv, TypeOK
  <2>2. QED
    BY <2>1, FindOrMakeInv
<1>3. CASE MoveChunkListen(p)
  <2> USE DEF Inv
  <2>1. KeyOf[p] \in Keys /\ pc[p] = "idle" /\ p \notin closed
    BY <1>3 DEF MoveChunkListen, MadeChannels
  <2>2. TypeOK'
    BY <1>3 DEF MoveChunkListen, TypeOK, Phases
  <2>3. KeysAgree'
    BY <1>3 DEF MoveChunkListen, TypeOK, KeysAgree
  <2>4. MappedChannelsAreOpen' /\ MadeChannels'
    BY <1>3, <2>1 DEF MoveChunkListen, TypeOK, MappedChannelsAreOpen, MadeChannels
  <2>5. BufferedIsSent' /\ BufferedOnce'
    <3>1. \A q \in Calls : \A i \in 1..Len(buffer[q]) : buffer[q][i] # p
      BY <2>1 DEF BufferedIsSent
    <3>2. \A q \in Calls : \A i \in 1..Len(buffer[q]) : buffer[q][i] \in Calls
      BY DEF TypeOK
    <3>3. QED
      BY <1>3, <3>1, <3>2 DEF MoveChunkListen, TypeOK, BufferedIsSent, BufferedOnce
  <2>6. OnlyServerChannelsClose' /\ InjectorsNeverPanic' /\ NothingYet' /\ ReceivedWasSent'
    BY <1>3, <2>1 DEF MoveChunkListen, TypeOK, OnlyServerChannelsClose,
                      InjectorsNeverPanic, NothingYet, ReceivedWasSent
  <2>7. QED
    BY <2>2, <2>3, <2>4, <2>5, <2>6
<1>4. QED
  BY <1>1, <1>2, <1>3 DEF Start

-----------------------------------------------------------------------------
\* An accepted message goes to the end of the channel its sender holds.
LEMMA PushInv == ASSUME Inv, NEW p \in Calls, Push(p) PROVE Inv'
<1> USE ConstantFacts DEF Inv
<1> DEFINE c == ref[p]
           n == Len(buffer[c])
<1>1. p \in Senders /\ pc[p] = "select" /\ c \in Calls /\ KeyOf[c] = KeyOf[p]
  BY DEF Push, KeysAgree
<1>2. buffer[c] \in Seq(Senders) /\ n \in Nat
  BY <1>1 DEF TypeOK
<1>3. /\ buffer' = [buffer EXCEPT ![c] = Append(buffer[c], p)]
      /\ pc' = [pc EXCEPT ![p] = "sent"]
      /\ UNCHANGED <<relayChannels, closed, cleaners, ref, got>>
  BY DEF Push
<1>4. TypeOK'
  BY <1>1, <1>2, <1>3 DEF TypeOK, Phases
<1>5. \A d \in Calls : \A i \in 1..Len(buffer'[d]) :
        \/ d = c /\ i = n + 1 /\ buffer'[d][i] = p
        \/ i \in 1..Len(buffer[d]) /\ buffer'[d][i] = buffer[d][i]
  BY <1>1, <1>2, <1>3 DEF TypeOK
<1>6. \A d \in Calls : \A i \in 1..Len(buffer[d]) : buffer[d][i] \in Calls /\ buffer[d][i] # p
  BY <1>1 DEF TypeOK, BufferedIsSent
<1>7. KeysAgree'
  <2>1. \A d \in Calls : \A i \in 1..Len(buffer'[d]) : KeyOf[buffer'[d][i]] = KeyOf[d]
    BY <1>1, <1>5 DEF KeysAgree
  <2>2. \A q \in Calls : pc'[q] = "select" => pc[q] = "select"
    BY <1>3 DEF TypeOK
  <2>3. QED
    BY <1>3, <2>1, <2>2 DEF KeysAgree
<1>8. BufferedIsSent' /\ BufferedOnce'
  <2>1. \A r \in Receivers : got[r] # p
    BY <1>1 DEF ReceivedWasSent
  <2>2. \A q \in Calls : pc[q] = "sent" => pc'[q] = "sent"
    BY <1>3 DEF TypeOK
  <2>3. pc'[p] = "sent"
    BY <1>1, <1>3 DEF TypeOK
  <2>4. \A d \in Calls : \A i \in 1..Len(buffer'[d]) :
          pc'[buffer'[d][i]] = "sent" /\ \A r \in Receivers : got[r] # buffer'[d][i]
    BY <1>5, <1>6, <2>1, <2>2, <2>3 DEF BufferedIsSent
  <2>5. \A d, e \in Calls : \A i \in 1..Len(buffer'[d]), j \in 1..Len(buffer'[e]) :
          buffer'[d][i] = buffer'[e][j] => d = e /\ i = j
    <3> SUFFICES ASSUME NEW d \in Calls, NEW e \in Calls,
                        NEW i \in 1..Len(buffer'[d]), NEW j \in 1..Len(buffer'[e]),
                        buffer'[d][i] = buffer'[e][j]
                 PROVE  d = e /\ i = j
      OBVIOUS
    <3>1. CASE i \in 1..Len(buffer[d]) /\ buffer'[d][i] = buffer[d][i]
      <4>1. buffer'[e][j] # p
        BY <1>6, <3>1
      <4>2. j \in 1..Len(buffer[e]) /\ buffer'[e][j] = buffer[e][j]
        BY <1>5, <4>1
      <4>3. buffer[d][i] = buffer[e][j]
        BY <3>1, <4>2
      <4>4. \A x, y \in Calls : \A l \in 1..Len(buffer[x]), o \in 1..Len(buffer[y]) :
              buffer[x][l] = buffer[y][o] => x = y /\ l = o
        BY DEF BufferedOnce
      <4>5. QED
        BY <3>1, <4>2, <4>3, <4>4
    <3>2. CASE d = c /\ i = n + 1 /\ buffer'[d][i] = p
      <4>1. e = c /\ j = n + 1
        BY <1>5, <1>6, <3>2
      <4>2. QED
        BY <3>2, <4>1
    <3>3. QED
      BY <1>5, <3>1, <3>2
  <2>6. BufferedIsSent'
    BY <1>3, <2>4 DEF BufferedIsSent
  <2>7. BufferedOnce'
    BY <2>5 DEF BufferedOnce
  <2>8. QED
    BY <2>6, <2>7
<1>9. MappedChannelsAreOpen' /\ MadeChannels' /\ OnlyServerChannelsClose'
      /\ InjectorsNeverPanic' /\ NothingYet' /\ ReceivedWasSent'
  BY <1>1, <1>3 DEF TypeOK, MappedChannelsAreOpen, MadeChannels, OnlyServerChannelsClose,
                    InjectorsNeverPanic, NothingYet, ReceivedWasSent
<1>10. QED
  BY <1>4, <1>7, <1>8, <1>9

\* A call that gives up moves nothing: a send that panics is an agent's, since
\* only the channels of server keys are ever closed.
LEMMA GiveUpInv ==
  ASSUME Inv, NEW p \in Calls,
         PushOnClosed(p) \/ SendTimeout(p) \/ ReceiveTimeout(p)
  PROVE  Inv'
<1> USE ConstantFacts DEF Inv
<1>1. pc[p] = "select" /\ UNCHANGED <<relayChannels, buffer, closed, cleaners, ref, got>>
  BY DEF PushOnClosed, SendTimeout, ReceiveTimeout
<1>2. PICK s \in {"panicked", "dropped", "returned", "cleanup"} :
        pc' = [pc EXCEPT ![p] = s] /\ (s = "panicked" => PushOnClosed(p))
  BY DEF PushOnClosed, SendTimeout, ReceiveTimeout
<1>3. InjectorsNeverPanic'
  <2>1. ASSUME PushOnClosed(p) PROVE p \notin Injectors
    BY <1>1, <2>1, KeysAssumption DEF PushOnClosed, KeysAgree, OnlyServerChannelsClose
  <2>2. QED
    BY <1>2, <2>1 DEF TypeOK, InjectorsNeverPanic
<1>4. TypeOK'
  BY <1>1, <1>2 DEF TypeOK, Phases
<1>5. KeysAgree' /\ MadeChannels' /\ OnlyServerChannelsClose' /\ MappedChannelsAreOpen'
  BY <1>1, <1>2 DEF TypeOK, KeysAgree, MadeChannels, OnlyServerChannelsClose,
                    MappedChannelsAreOpen
<1>6. BufferedIsSent' /\ BufferedOnce'
  <2>1. \A d \in Calls : \A i \in 1..Len(buffer[d]) :
          buffer[d][i] \in Calls /\ pc'[buffer[d][i]] = "sent"
    BY <1>1, <1>2 DEF TypeOK, BufferedIsSent
  <2>2. QED
    BY <1>1, <2>1 DEF BufferedIsSent, BufferedOnce
<1>7. ReceivedWasSent' /\ NothingYet'
  BY <1>1, <1>2 DEF TypeOK, ReceivedWasSent, NothingYet
<1>8. QED
  BY <1>3, <1>4, <1>5, <1>6, <1>7

\* Taking the first message of one channel leaves every message once.
LEMMA HeadRemovedOnce ==
  ASSUME NEW S, NEW b, NEW r, NEW c,
         \A d, e \in S : \A i \in 1..Len(b[d]), j \in 1..Len(b[e]) :
           b[d][i] = b[e][j] => d = e /\ i = j,
         \A d \in S : \A i \in 1..Len(r[d]) :
           \/ d = c /\ i + 1 \in 1..Len(b[d]) /\ r[d][i] = b[d][i + 1]
           \/ d # c /\ i \in 1..Len(b[d]) /\ r[d][i] = b[d][i]
  PROVE  \A d, e \in S : \A i \in 1..Len(r[d]), j \in 1..Len(r[e]) :
           r[d][i] = r[e][j] => d = e /\ i = j
<1>1. SUFFICES ASSUME NEW d \in S, NEW e \in S, NEW i \in 1..Len(r[d]), NEW j \in 1..Len(r[e]),
                      r[d][i] = r[e][j]
               PROVE  d = e /\ i = j
  OBVIOUS
<1> i \in Nat /\ j \in Nat
  OBVIOUS
<1>2. CASE d = c /\ e = c
  <2>1. /\ b[c][i + 1] = b[c][j + 1]
        /\ i + 1 \in 1..Len(b[c]) /\ j + 1 \in 1..Len(b[c])
    BY <1>1, <1>2
  <2>2. QED
    BY <2>1, <1>2
<1>3. CASE d # c /\ e # c
  BY <1>1, <1>3
<1>4. CASE d = c /\ e # c
  BY <1>1, <1>4
<1>5. CASE d # c /\ e = c
  BY <1>1, <1>5
<1>6. QED
  BY <1>2, <1>3, <1>4, <1>5

\* A receive takes the first message of the channel.
LEMMA ReceiveInv == ASSUME Inv, NEW p \in Calls, Receive(p) PROVE Inv'
<1> USE ConstantFacts DEF Inv
<1> DEFINE c == ref[p]
           m == buffer[c][1]
<1>1. p \in Receivers /\ pc[p] = "select" /\ c \in Calls
  BY DEF Receive, KeysAgree
<1>2. buffer[c] \in Seq(Senders) /\ Len(buffer[c]) \in Nat \ {0} /\ m \in Senders
  BY <1>1 DEF Receive, TypeOK
<1>3. /\ buffer' = [buffer EXCEPT ![c] = Tail(buffer[c])]
      /\ got' = [got EXCEPT ![p] = m]
      /\ pc' = [pc EXCEPT ![p] = "cleanup"]
      /\ UNCHANGED <<relayChannels, closed, cleaners, ref>>
  BY DEF Receive
<1>4. TypeOK'
  BY <1>1, <1>2, <1>3 DEF TypeOK, Phases
<1>5. \A d \in Calls : \A i \in 1..Len(buffer'[d]) :
        \/ d = c /\ i + 1 \in 1..Len(buffer[d]) /\ buffer'[d][i] = buffer[d][i + 1]
        \/ d # c /\ i \in 1..Len(buffer[d]) /\ buffer'[d][i] = buffer[d][i]
  BY <1>1, <1>2, <1>3 DEF TypeOK
<1>6. \A q \in Calls : (pc[q] = "sent" => pc'[q] = "sent") /\ (pc'[q] = "select" => pc[q] = "select")
  BY <1>1, <1>3 DEF TypeOK
<1>7. KeysAgree'
  <2>1. \A d \in Calls : \A i \in 1..Len(buffer'[d]) : KeyOf[buffer'[d][i]] = KeyOf[d]
    BY <1>5 DEF KeysAgree
  <2>2. QED
    BY <1>3, <1>6, <2>1 DEF KeysAgree
<1>8. BufferedIsSent' /\ BufferedOnce'
  <2>1. \A d \in Calls : \A i \in 1..Len(buffer'[d]) : buffer'[d][i] # m
    <3>1. \A d \in Calls : \A h \in 1..Len(buffer[d]) : buffer[d][h] = m => d = c /\ h = 1
      BY <1>1, <1>2 DEF BufferedOnce
    <3>2. \A i \in Nat \ {0} : i + 1 # 1
      OBVIOUS
    <3>3. \A d \in Calls : \A i \in 1..Len(buffer'[d]) : i \in Nat \ {0}
      OBVIOUS
    <3>4. QED
      BY <1>5, <3>1, <3>2, <3>3
  <2>2. \A d \in Calls : \A i \in 1..Len(buffer'[d]) : \A r \in Receivers : got[r] # buffer'[d][i]
    BY <1>5 DEF BufferedIsSent
  <2>3. \A d \in Calls : \A i \in 1..Len(buffer'[d]) : \A r \in Receivers : got'[r] # buffer'[d][i]
    <3>1. \A r \in Receivers : got'[r] = m \/ got'[r] = got[r]
      BY <1>3 DEF TypeOK
    <3>2. QED
      BY <2>1, <2>2, <3>1
  <2>4. \A d \in Calls : \A i \in 1..Len(buffer[d]) : buffer[d][i] \in Calls
    BY DEF TypeOK
  <2>5. \A d \in Calls : \A i \in 1..Len(buffer'[d]) : pc'[buffer'[d][i]] = "sent"
    BY <1>5, <1>6, <2>4 DEF BufferedIsSent
  <2>6. \A d, e \in Calls : \A i \in 1..Len(buffer'[d]), j \in 1..Len(buffer'[e]) :
          buffer'[d][i] = buffer'[e][j] => d = e /\ i = j
    BY <1>5, HeadRemovedOnce DEF BufferedOnce
  <2>7. QED
    BY <2>3, <2>5, <2>6 DEF BufferedIsSent, BufferedOnce
<1>9. ReceivedWasSent'
  <2>1. pc[m] = "sent"
    BY <1>1, <1>2 DEF BufferedIsSent
  <2>2. QED
    BY <1>2, <1>3, <1>6, <2>1 DEF TypeOK, ReceivedWasSent
<1>10. MadeChannels' /\ OnlyServerChannelsClose' /\ MappedChannelsAreOpen'
       /\ InjectorsNeverPanic' /\ NothingYet'
  BY <1>1, <1>3 DEF TypeOK, MadeChannels, OnlyServerChannelsClose, MappedChannelsAreOpen,
                    InjectorsNeverPanic, NothingYet
<1>11. QED
  BY <1>4, <1>7, <1>8, <1>9, <1>10

\* A receive from a closed channel takes no message.
LEMMA ReceiveClosedInv == ASSUME Inv, NEW p \in Calls, ReceiveClosed(p) PROVE Inv'
<1> USE ConstantFacts DEF Inv
<1>1. p \in Receivers /\ pc[p] = "select"
  BY DEF ReceiveClosed
<1>2. /\ got' = [got EXCEPT ![p] = Empty]
      /\ UNCHANGED <<relayChannels, buffer, closed, cleaners, ref>>
  BY DEF ReceiveClosed
<1>3. PICK s \in {"returned", "cleanup"} : pc' = [pc EXCEPT ![p] = s]
  BY DEF ReceiveClosed
<1>4. TypeOK'
  BY <1>1, <1>2, <1>3 DEF TypeOK, Phases
<1>5. KeysAgree' /\ MadeChannels' /\ OnlyServerChannelsClose' /\ MappedChannelsAreOpen'
      /\ InjectorsNeverPanic'
  BY <1>1, <1>2, <1>3 DEF TypeOK, KeysAgree, MadeChannels, OnlyServerChannelsClose,
                          MappedChannelsAreOpen, InjectorsNeverPanic
<1>6. BufferedIsSent' /\ BufferedOnce'
  <2>1. \A d \in Calls : \A i \in 1..Len(buffer[d]) :
          buffer[d][i] \in Calls /\ pc'[buffer[d][i]] = "sent"
    BY <1>1, <1>3 DEF TypeOK, BufferedIsSent
  <2>2. \A d \in Calls : \A i \in 1..Len(buffer[d]) : \A r \in Receivers : got'[r] # buffer[d][i]
    <3>1. \A r \in Receivers : got'[r] = Empty \/ got'[r] = got[r]
      BY <1>1, <1>2 DEF TypeOK
    <3>2. QED
      BY <2>1, <3>1 DEF BufferedIsSent
  <2>3. QED
    BY <1>2, <2>1, <2>2 DEF BufferedIsSent, BufferedOnce
<1>7. ReceivedWasSent' /\ NothingYet'
  BY <1>1, <1>2, <1>3 DEF TypeOK, ReceivedWasSent, NothingYet
<1>8. QED
  BY <1>4, <1>5, <1>6, <1>7

\* A receiver's deletion of its key only shrinks the map.
LEMMA ForgetInv == ASSUME Inv, NEW p \in Calls, Forget(p) PROVE Inv'
<1> USE ConstantFacts DEF Inv
<1>1. /\ pc[p] = "cleanup" /\ KeyOf[p] \in Keys
      /\ relayChannels' = [relayChannels EXCEPT ![KeyOf[p]] = NoChan]
      /\ pc' = [pc EXCEPT ![p] = "returned"]
      /\ UNCHANGED <<buffer, closed, cleaners, ref, got>>
  BY DEF Forget
<1>2. TypeOK'
  BY <1>1 DEF TypeOK, Phases
<1>3. /\ \A k \in Keys : relayChannels'[k] # NoChan => relayChannels'[k] = relayChannels[k]
      /\ \A q \in Calls : pc'[q] # pc[q] => q = p /\ pc'[q] = "returned"
  BY <1>1 DEF TypeOK
<1>4. KeysAgree' /\ OnlyServerChannelsClose' /\ InjectorsNeverPanic'
  BY <1>1, <1>3 DEF KeysAgree, OnlyServerChannelsClose, InjectorsNeverPanic
<1>5. MadeChannels' /\ MappedChannelsAreOpen'
  <2>1. \A q \in Calls : pc[q] # "idle" => pc'[q] # "idle"
    BY <1>3
  <2>2. QED
    BY <1>1, <1>3, <2>1 DEF TypeOK, MadeChannels, MappedChannelsAreOpen
<1>6. BufferedIsSent' /\ BufferedOnce'
  <2>1. \A d \in Calls : \A i \in 1..Len(buffer[d]) :
          buffer[d][i] \in Calls /\ pc'[buffer[d][i]] = "sent"
    BY <1>1 DEF TypeOK, BufferedIsSent
  <2>2. QED
    BY <1>1, <2>1 DEF BufferedIsSent, BufferedOnce
<1>7. ReceivedWasSent' /\ NothingYet'
  BY <1>1 DEF TypeOK, ReceivedWasSent, NothingYet
<1>8. QED
  BY <1>2, <1>4, <1>5, <1>6, <1>7

\* A clean-up takes what it closes out of the map in the same critical
\* section, and the map has a channel under one key only.
LEMMA CleanupInv == ASSUME Inv, NEW p \in Senders, Cleanup(p) PROVE Inv'
<1> USE ConstantFacts DEF Inv
<1> DEFINE k == KeyOf[p]
           c == relayChannels[k]
<1>1. /\ k \in Keys
      /\ relayChannels' = [relayChannels EXCEPT ![k] = NoChan]
      /\ cleaners' = cleaners \ {p}
      /\ UNCHANGED <<buffer, pc, ref, got>>
  BY DEF Cleanup
<1>2. \/ closed' = closed
      \/ p \in Posters /\ c \in Calls /\ closed' = closed \cup {c}
  BY <1>1 DEF Cleanup, TypeOK
<1>3. c \in Calls => KeyOf[c] = k /\ pc[c] # "idle"
  BY <1>1 DEF KeysAgree, MadeChannels
<1>4. TypeOK'
  BY <1>1, <1>2 DEF TypeOK
<1>5. KeysAgree'
  BY <1>1 DEF TypeOK, KeysAgree
<1>6. OnlyServerChannelsClose'
  BY <1>2, <1>3, KeysAssumption DEF OnlyServerChannelsClose
<1>7. MadeChannels'
  BY <1>1, <1>2, <1>3 DEF TypeOK, MadeChannels
<1>8. MappedChannelsAreOpen'
  <2>1. \A q \in Keys : relayChannels'[q] # NoChan =>
          q # k /\ relayChannels'[q] = relayChannels[q] /\ relayChannels[q] # c
    BY <1>1, <1>3 DEF TypeOK, KeysAgree
  <2>2. QED
    BY <1>2, <2>1 DEF MappedChannelsAreOpen
<1>9. BufferedIsSent' /\ BufferedOnce' /\ ReceivedWasSent' /\ NothingYet' /\ InjectorsNeverPanic'
  BY <1>1 DEF BufferedIsSent, BufferedOnce, ReceivedWasSent, NothingYet, InjectorsNeverPanic
<1>10. QED
  BY <1>4, <1>5, <1>6, <1>7, <1>8, <1>9

\* Inv is inductive.
LEMMA NextInv == Inv /\ [Next]_vars => Inv'
<1> SUFFICES ASSUME Inv, [Next]_vars PROVE Inv'
  OBVIOUS
<1>1. CASE \E p \in Calls : Start(p)
  BY <1>1, StartInv
<1>2. CASE \E p \in Calls : Resolve(p)
  <2> PICK p \in Calls : Resolve(p)
    BY <1>2
  <2>1. CASE Push(p)
    BY <2>1, PushInv
  <2>2. CASE PushOnClosed(p) \/ SendTimeout(p) \/ ReceiveTimeout(p)
    BY <2>2, GiveUpInv
  <2>3. CASE Receive(p)
    BY <2>3, ReceiveInv
  <2>4. CASE ReceiveClosed(p)
    BY <2>4, ReceiveClosedInv
  <2>5. CASE Forget(p)
    BY <2>5, ForgetInv
  <2>6. QED
    BY <2>1, <2>2, <2>3, <2>4, <2>5 DEF Resolve
<1>3. CASE \E p \in Senders : Cleanup(p)
  BY <1>3, CleanupInv
<1>4. CASE UNCHANGED vars
  <2>1. UNCHANGED <<relayChannels, buffer, closed, cleaners, pc, ref, got>>
    BY <1>4 DEF vars
  <2>2. TypeOK' /\ KeysAgree' /\ MadeChannels'
    BY <2>1 DEF Inv, TypeOK, KeysAgree, MadeChannels
  <2>3. OnlyServerChannelsClose' /\ MappedChannelsAreOpen' /\ InjectorsNeverPanic'
    BY <2>1 DEF Inv, OnlyServerChannelsClose, MappedChannelsAreOpen, InjectorsNeverPanic
  <2>4. BufferedIsSent' /\ BufferedOnce' /\ ReceivedWasSent' /\ NothingYet'
    BY <2>1 DEF Inv, BufferedIsSent, BufferedOnce, ReceivedWasSent, NothingYet
  <2>5. QED
    BY <2>2, <2>3, <2>4 DEF Inv
<1>5. QED
  BY <1>1, <1>2, <1>3, <1>4 DEF Next, Terminated

\* The invariant holds in every reachable state.
LEMMA InvHolds == Spec => []Inv
BY InitInv, NextInv, PTL DEF Spec

-----------------------------------------------------------------------------
\* The map, the buffers and every call's state keep their types.
THEOREM TypeCorrect == Spec => []TypeOK
<1>1. Inv => TypeOK
  BY DEF Inv
<1>2. QED
  BY <1>1, InvHolds, PTL

\* No clean-up goroutine ever finds a closed channel in the map, so none
\* closes a channel twice, whatever the calls, their keys and their timing
\* (relay.go:61-70).
THEOREM NoDoubleClose == Spec => []MappedChannelsAreOpen
<1>1. Inv => MappedChannelsAreOpen
  BY DEF Inv
<1>2. QED
  BY <1>1, InvHolds, PTL

\* No send into an agent's inbox panics (upload.go:212-218): the rebalancing
\* goroutine, which no handler's recover protects, is never ended that way.
THEOREM InboxSendsNeverPanic == Spec => []InjectorsNeverPanic
<1>1. Inv => InjectorsNeverPanic
  BY DEF Inv
<1>2. QED
  BY <1>1, InvHolds, PTL

-----------------------------------------------------------------------------
\* Every step is a step of the mailbox or leaves it unchanged.
LEMMA StepRefines == Inv /\ [Next]_vars => [Box!Next]_(Box!mailboxVars)
<1> SUFFICES ASSUME Inv, [Next]_vars PROVE Box!Next \/ UNCHANGED Box!mailboxVars
  OBVIOUS
<1> USE ConstantFacts DEF Inv, Box!mailboxVars
<1>1. ASSUME NEW p \in Calls, Push(p) PROVE Box!Post(p)
  <2>1. p \in Senders /\ pc[p] = "select" /\ pc' = [pc EXCEPT ![p] = "sent"] /\ got' = got
    BY <1>1 DEF Push
  <2>2. QED
    BY <2>1 DEF TypeOK, Box!Post, MailboxMessages
<1>2. ASSUME NEW p \in Calls, Receive(p) PROVE \E m \in Senders : Box!Take(p, m)
  <2> DEFINE c == ref[p]
             m == buffer[c][1]
  <2>1. p \in Receivers /\ pc[p] = "select" /\ c \in Calls /\ KeyOf[c] = KeyOf[p]
    BY <1>2 DEF Receive, KeysAgree
  <2>2. Len(buffer[c]) \in Nat \ {0} /\ m \in Senders
    BY <1>2, <2>1 DEF Receive, TypeOK
  <2>3. got' = [got EXCEPT ![p] = m] /\ pc' = [pc EXCEPT ![p] = "cleanup"]
    BY <1>2 DEF Receive
  <2>4. pc[m] = "sent" /\ KeyOf[m] = KeyOf[p] /\ \A q \in Receivers : got[q] # m
    BY <2>1, <2>2 DEF BufferedIsSent, KeysAgree
  <2>5. got[p] = Nothing
    BY <2>1 DEF NothingYet
  <2>6. MailboxMessages' = MailboxMessages
    BY <2>1, <2>3 DEF TypeOK, MailboxMessages
  <2>7. Box!Take(p, m)
    BY <2>2, <2>3, <2>4, <2>5, <2>6 DEF Box!Take, MailboxMessages
  <2>8. QED
    BY <2>2, <2>7
<1>3. ASSUME NEW p \in Calls, ReceiveClosed(p) PROVE Box!WakeEmpty(p)
  <2>1. p \in Receivers /\ pc[p] = "select" /\ got[p] = Nothing /\ KeyOf[p] \in ServerKeys
    BY <1>3 DEF ReceiveClosed, NothingYet, KeysAgree, OnlyServerChannelsClose
  <2>2. MailboxMessages' = MailboxMessages
    BY <1>3, <2>1 DEF ReceiveClosed, TypeOK, MailboxMessages
  <2>3. QED
    BY <1>3, <2>1, <2>2 DEF ReceiveClosed, Box!WakeEmpty
<1>4. ASSUME NEW p \in Calls, Start(p) PROVE UNCHANGED Box!mailboxVars
  <2>1. pc[p] = "idle" /\ pc' = [pc EXCEPT ![p] = "select"] /\ got' = got
    BY <1>4 DEF Start, RelaySend, InjectRelayMessage, RelayRecv, WaitForRelayData,
                StartSend, StartReceive, FindOrMake, MoveChunkListen
  <2>2. QED
    BY <2>1 DEF TypeOK, MailboxMessages
<1>5. ASSUME NEW p \in Calls,
             PushOnClosed(p) \/ SendTimeout(p) \/ ReceiveTimeout(p) \/ Forget(p)
      PROVE UNCHANGED Box!mailboxVars
  <2>1. pc[p] \in {"select", "cleanup"} /\ got' = got
    BY <1>5 DEF PushOnClosed, SendTimeout, ReceiveTimeout, Forget
  <2>2. PICK s \in Phases \ {"sent"} : pc' = [pc EXCEPT ![p] = s]
    BY <1>5 DEF PushOnClosed, SendTimeout, ReceiveTimeout, Forget, Phases
  <2>3. QED
    BY <2>1, <2>2 DEF TypeOK, MailboxMessages
<1>6. ASSUME NEW p \in Senders, Cleanup(p) PROVE UNCHANGED Box!mailboxVars
  BY <1>6 DEF Cleanup, MailboxMessages
<1>7. CASE UNCHANGED vars
  BY <1>7 DEF vars, MailboxMessages
<1>8. ASSUME NEW p \in Calls, Resolve(p) PROVE Box!Next \/ UNCHANGED Box!mailboxVars
  <2>1. Push(p) => p \in Senders
    BY DEF Push
  <2>2. Receive(p) \/ ReceiveClosed(p) => p \in Receivers
    BY DEF Receive, ReceiveClosed
  <2>3. QED
    BY <1>1, <1>2, <1>3, <1>5, <1>8, <2>1, <2>2 DEF Resolve, Box!Next
<1>9. QED
  BY <1>4, <1>6, <1>7, <1>8 DEF Next, Terminated

\* The relay implements the mailbox: whatever the channels, their buffers,
\* their replacement and their clean-up do, each accepted message reaches at
\* most one receive, one of its own key, and only a receive on a server key
\* ever returns without a message that was sent to it.
THEOREM RelayImplementsMailbox == Spec => MailboxSpec
<1>1. Init => Box!Init
  BY ConstantFacts DEF Init, Box!Init, MailboxMessages
<1>2. QED
  BY <1>1, StepRefines, InvHolds, PTL DEF Spec, MailboxSpec, Box!Spec

=============================================================================
