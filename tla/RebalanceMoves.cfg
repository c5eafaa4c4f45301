\* Two rebalances over two agents, which hold two chunks in any placement, and a
\* Google Drive that has just joined; MCRebalance says when they may overlap.
SPECIFICATION MCSpec
CONSTANTS
  NoRow = NoRow
  NoTask = NoTask
  Files = {f}
  Chunks = {a, b, j}
  Fragment = j
  EmptyChunk = j
  TornOf <- MCTornOf
  Devices = {d1, d2, g}
  Agents = {d1, d2}
  Handlers = {r1, r2}
  Holders = {d1, d2}
  Content <- MCContent
SYMMETRY MCSymmetry
VIEW MCView
INVARIANTS
  TypeOK
  MovesDownhill
  ChunksStayLocated
  LoadsMatchCatalog
  NeverStuck
PROPERTY RebalancesConverge
