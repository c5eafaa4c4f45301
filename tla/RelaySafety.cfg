\* An agent's inbox and one of the server's keys at once: clean-ups that close
\* a channel and clean-ups that do not.
SPECIFICATION Spec
CONSTANTS
  inbox = inbox
  ackKey = ackKey
  NoChan = NoChan
  Nothing = Nothing
  Empty = Empty
  InboxKeys = {inbox}
  KeyOf <- MCKeyOf
  ServerKeys = {ackKey}
  InboxCap = 1
  Posters = {p1, p2}
  Injectors = {i1, i2}
  Pollers = {r1, r2}
  Waiters = {w1}
  Movers = {}
SYMMETRY MCSymmetry
INVARIANTS
  TypeOK
  MappedChannelsAreOpen
  InjectorsNeverPanic
PROPERTY MailboxSpec
