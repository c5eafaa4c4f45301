\* The server's keys under fairness: two acknowledgements, a wait and a move.
SPECIFICATION FairSpec
CONSTANTS
  inbox = inbox
  ackKey = ackKey
  NoChan = NoChan
  Nothing = Nothing
  Empty = Empty
  InboxKeys = {inbox}
  KeyOf <- MCKeyOf
  ServerKeys = {ackKey}
  InboxCap = 1
  Posters = {p1, p2}
  Injectors = {}
  Pollers = {}
  Waiters = {w1}
  Movers = {m1}
PROPERTIES
  EveryCallEnds
  ServerKeysAreFreed
