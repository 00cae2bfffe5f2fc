SPECIFICATION Spec
CONSTANTS
  Payload = {0, 1, 2, 3, 4}
  MaxVersion = 4
  MaxSeq = 4
  Torn = Torn
  None = None
  IOFaults = FALSE
  Overlap = FALSE
INVARIANTS TypeOK AckedSurvives
PROPERTIES ImplementsDurableLog
