CONSTANTS
  Functions <- Encoders
  Inputs <- Texts
  Capacities <- CallCapacities
  SizeModulus = 64
SPECIFICATION RoundTripSpec
INVARIANTS RoundTrip StableRepresentation KeepsHierarchy
CHECK_DEADLOCK FALSE
