CONSTANTS
  MaxLabelLength = 63
  HashBodyLength = 50
  MaxMarkerLength = 13
  Digest <- KnownDigest
  Texts <- AllTexts
  Labels <- VectorLabels
  Markers <- SomeMarkers
  Capacities = {55, 64}
  SizeMax = 1000
  CountModulus = 4096
SPECIFICATION LibrarySpec
INVARIANTS AnswersVectors LabelsInBuffer
PROPERTY ImplementsSteps
CHECK_DEADLOCK FALSE
