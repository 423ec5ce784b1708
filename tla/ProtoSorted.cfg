SPECIFICATION FairSpec
CONSTANTS
  File <- AllFiles
  ProtoFile <- GeneratedFiles
  Before <- Sorted
  Goroutine = {g1, g2, g3}
  Asked <- TwoFiles
  MaxDepth = 6
INVARIANTS
  ImportsBuilt ReferencesRight DescriptorUsable
PROPERTIES
  InitEnds DescriptorReturns
