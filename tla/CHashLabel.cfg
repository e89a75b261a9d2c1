CONSTANTS
  DigestLength = 3
  HashBodyLength = 5
  MaxLabelLength = 9
  Digests <- AllDigests
  Markers <- SomeMarkers
  Capacities = {0, 8, 9, 10, 11}
SPECIFICATION Spec
INVARIANTS TypeOK StoresInLabel QuotientFits NothingLost WholeLabel RefusedUntouched PortsDigits
CHECK_DEADLOCK FALSE
