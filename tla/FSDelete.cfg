\* An upload, its download and its deletion, an agent and a Google Drive.
SPECIFICATION Spec
CONSTANTS
  u1 = u1
  u2 = u2
  a = a
  b = b
  c = c
  Split = TRUE
  NoRow = NoRow
  NoTask = NoTask
  Files = {u1}
  Chunks = {a, b}
  Devices = {d1, g}
  Agents = {d1}
  Downloads = {w1}
  Deletes = {x1}
  Handlers = {u1, w1, x1}
  Content <- MCContent
  FileOf <- MCFileOf
  Length <- MCLength
  ErrorLength = 3
  MaxFaults = 0
VIEW MCView
INVARIANTS
  DownloadExact
  DeletedStaysDeleted
  CommittedIsStored
