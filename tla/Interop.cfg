CONSTANTS
  MaxLabelLength = 9
  HashBodyLength = 5
  MaxMarkerLength = 4
  Digest <- Checksum
  Texts <- SomeTexts
  Labels <- SomeLabels
  Markers <- SmallMarkers
  BufferSize = 10
  LabelBufferSize = 10
SPECIFICATION Spec
INVARIANTS TypeOK PortsAgree RelayKeepsText RelayKeepsRepresentation
CHECK_DEADLOCK FALSE
