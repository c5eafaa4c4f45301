\* Two chunks on one agent, a second agent has just joined.
SPECIFICATION Spec
CONSTANTS
  NoRow = NoRow
  NoTask = NoTask
  Files = {f}
  Chunks = {a, b, j}
  Fragment = j
  EmptyChunk = j
  TornOf <- MCTornOf
  Devices = {d1, d2}
  Agents = {d1, d2}
  Handlers = {r1}
  Holders = {d1}
  Content <- MCContent
INVARIANT NothingIsLost
