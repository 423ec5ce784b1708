SPECIFICATION Spec
CONSTANTS
  g1 = g1
  g2 = g2
  NIL = NIL
  Goroutine <- MCGoroutines
  Contents <- MCContents
SYMMETRY MCSymmetry
INVARIANTS
  HandleSurvivesReset GoReads PeerReads
