\* A second upload of the same content.
SPECIFICATION Spec
CONSTANTS
  u1 = u1
  u2 = u2
  a = a
  b = b
  c = c
  Split = FALSE
  NoRow = NoRow
  NoTask = NoTask
  Files = {u1, u2}
  Chunks = {a}
  Devices = {d1}
  Agents = {d1}
  Downloads = {}
  Deletes = {}
  Handlers = {u1, u2}
  Content <- MCContent
  FileOf <- MCFileOf
  Length <- MCLength
  ErrorLength = 3
  MaxFaults = 0
INVARIANT CommittedIsComplete
