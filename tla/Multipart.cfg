SPECIFICATION FairSpec
CONSTANTS
  Parts = 4
  Uploader = {u1, u2}
  IOFaults = TRUE
  None = None
INVARIANTS TypeOK NoPartLeftBehind
 
CHECK_DEADLOCK FALSE
