SPECIFICATION Spec
CONSTANTS
  Unset = Unset
  IntBits = 13
  SizeBits = 6
  PointerSize = 2
  Page = 16
  Nfds = 2
  MaxSeconds = 9
  MaxReports = 2
  MaxLines = 3
  Wides <- MCWides
  Chars <- MCChars
  MaxChars = 2
  Rests <- MCRests
INVARIANTS
  ReportsTruthfully
  TimeoutExact
  SelectExact
  AllocatesEnough
  TextRoundTrip
  NextEntryRead
