SPECIFICATION FairSpec
CONSTANTS
  Node = {n1, n2}
  SuspectTimeout = 1
  DeadTimeout = 2
  EventCap = 6
  MaxCrashes = 2
  KeepsId = FALSE
  Timely = TRUE
  None = None
INVARIANTS DeadIsSilentAndOffRing
PROPERTIES OrphansRebalanced
