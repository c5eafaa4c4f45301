\* Three deletions, which may share a second or come after it, two crashes, and
\* an agent that may be away for longer than its window.
SPECIFICATION FairSpec
CONSTANTS
  Never = Never
  Deletions = {x1, x2, x3}
  Window = 2
  MaxTime = 3
  MaxFaults = 2
INVARIANTS
  TypeOK
  ConfigIsCarriedOut
PROPERTY TimelyDeletionsArrive
