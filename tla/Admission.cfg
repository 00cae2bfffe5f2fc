SPECIFICATION Spec
CONSTANTS
  t1 = t1  t2 = t2  t3 = t3
  Tenant = {t1, t2}
  Submission = {r1, r2, r3, r4}
  MaxInFlight = 2
  Weight = {1, 2}
  InitialClass <- Lopsided
  Reconfigures = TRUE
  Direct = TRUE
  Early = FALSE
  MaxRestarts = 1
  None = None
SYMMETRY MCSymmetry
INVARIANTS TypeOK SlotsAccounted 
CHECK_DEADLOCK FALSE
