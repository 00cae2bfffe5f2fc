SPECIFICATION Spec
CONSTANTS
  Attempt = {a1, a2, a3}
  MaxGen = 2
  Faults = {"copy", "decide", "emit", "crash", "late"}
  None = None
INVARIANTS TypeOK DoneIsVisible EffectAfterCommit 
 
CHECK_DEADLOCK FALSE
