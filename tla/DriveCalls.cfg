\* Calls about one chunk on the server, by one user or two, and on two agents.
SPECIFICATION MCSpec
CONSTANTS
  p1 = p1
  p2 = p2
  s1 = s1
  s2 = s2
  t1 = t1
  x1 = x1
  a1 = a1
  a2 = a2
  a3 = a3
  g1 = g1
  b1 = b1
  b2 = b2
  c = c
  mine = mine
  yours = yours
  a = a
  b = b
  Server = Server
  Nothing = Nothing
  Calls = {p1, p2, s1, s2, t1, x1, a1, a2, a3, g1, b1, b2}
  Kind <- MCKind
  Chunk <- MCChunk
  Account <- MCAccount
  Store <- MCStore
  MaxErrors = 1
  MaxRestarts = 1
CHECK_DEADLOCK FALSE
INVARIANTS
  TypeOK
  SavedIsKept
  DuplicatesNeedOverlap
  DeletedIsGone
