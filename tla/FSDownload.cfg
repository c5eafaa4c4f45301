\* An upload of two chunks and its download, two agents.
SPECIFICATION Spec
CONSTANTS
  u1 = u1
  u2 = u2
  a = a
  b = b
  c = c
  Split = TRUE
  NoRow = NoRow
  NoTask = NoTask
  Files = {u1}
  Chunks = {a, b}
  Devices = {d1, d2}
  Agents = {d1, d2}
  Downloads = {w1}
  Deletes = {}
  Handlers = {u1, w1}
  Content <- MCContent
  FileOf <- MCFileOf
  Length <- MCLength
  ErrorLength = 3
  MaxFaults = 0
SYMMETRY MCSymmetry
VIEW MCView
INVARIANTS
  TypeOK
  DownloadExact
  CommittedIsComplete
  CommittedWasSaved
PROPERTY StoreSpec
