CONSTANTS
  MaxLabelLength = 9
  HashBodyLength = 5
  MaxMarkerLength = 4
  Digest <- Checksum
  Texts <- Nothing
  Labels <- ForeignLabels
  Markers <- SmallMarkers
  BufferSize = 10
  LabelBufferSize = 10
SPECIFICATION Spec
INVARIANT ForeignRejected
CHECK_DEADLOCK FALSE
