CONSTANTS
  MaxLabelLength = 9
  HashBodyLength = 5
  MaxMarkerLength = 4
  Digest <- Checksum
  Texts <- IllTexts
  Labels <- Nothing
  Markers <- SmallMarkers
  BufferSize = 10
  LabelBufferSize = 10
SPECIFICATION Spec
INVARIANT IllFormedRefused
CHECK_DEADLOCK FALSE
