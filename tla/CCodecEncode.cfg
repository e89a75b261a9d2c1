CONSTANTS
  Functions <- Encoders
  Inputs <- PlainTexts
  Capacities <- EncodeCapacities
  SizeModulus = 42
SPECIFICATION Spec
INVARIANTS TypeOK StoresInBuffer ReturnContract NoRawSeparator WorstCaseCapacity
PROPERTY ImplementsContract
CHECK_DEADLOCK FALSE
