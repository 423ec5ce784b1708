SPECIFICATION Spec
CONSTANTS
  File <- ReportFiles
  ProtoFile <- GeneratedFiles
  Before <- Unsorted
  Goroutine = {g1, g2}
  Asked <- TwoFiles
  MaxDepth = 6
INVARIANTS
  ImportsBuilt ReferencesRight
