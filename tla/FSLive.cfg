\* The server's fairness alone, an agent that may do nothing at all, and two
\* faults: restarts of either, and statements the database refuses.
SPECIFICATION FairSpec
CONSTANTS
  u1 = u1
  u2 = u2
  a = a
  b = b
  c = c
  Split = FALSE
  NoRow = NoRow
  NoTask = NoTask
  Files = {u1}
  Chunks = {a}
  Devices = {d1}
  Agents = {d1}
  Downloads = {w1}
  Deletes = {x1}
  Handlers = {u1, w1, x1}
  Content <- MCContent
  FileOf <- MCFileOf
  Length <- MCLength
  ErrorLength = 3
  MaxFaults = 2
INVARIANT CommittedIsComplete
PROPERTIES
  EveryRequestEnds
  StoreSpec
