CONSTANTS
  MaxLabelLength = 9
  HashBodyLength = 5
  MaxMarkerLength = 4
  Digest <- Checksum
  Texts <- PlainTexts
  Labels <- ReceivedLabels
  Markers <- MarkerChoices
  Capacities <- BufferSizes
  SizeMax = 18
SPECIFICATION Spec
INVARIANTS TypeOK HeapDiscipline LabelShape LabelBounds RefusedForSpace LabelDecodes CaseBlind
PROPERTY ImplementsProfile
CHECK_DEADLOCK FALSE
