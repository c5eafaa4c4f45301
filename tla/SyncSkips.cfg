\* Two deletions in one second.
SPECIFICATION FairSpec
CONSTANTS
  Never = Never
  Deletions = {x1, x2}
  Window = 5
  MaxTime = 0
  MaxFaults = 0
PROPERTY EveryDeletionArrives
