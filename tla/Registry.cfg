\* One agent, started twice, two users and one removal.
SPECIFICATION FairSpec
CONSTANTS
  Nobody = Nobody
  NoRow = NoRow
  Devices = {d1}
  Users = {u1, u2}
  Removals = {x1}
  MaxStarts = 2
  MaxRestarts = 1
INVARIANTS
  TypeOK
  IdentityIsKept
PROPERTIES
  OwnerIsKept
  OfflineIsNoticed
