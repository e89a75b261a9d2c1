CONSTANTS
  Functions <- Decoders
  Inputs <- EncodedTexts
  Capacities <- DecodeCapacities
  SizeModulus = 42
SPECIFICATION Spec
INVARIANTS StoresInBuffer ReadsInComponent ReturnContract WorstCaseCapacity
PROPERTY ImplementsContract
CHECK_DEADLOCK FALSE
