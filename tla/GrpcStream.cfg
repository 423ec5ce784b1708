SPECIFICATION FairSpec
CONSTANTS
  Value = {begin, commit}
  MaxSends = 2
PROPERTIES
  RefinesDuplex UnimplementedTold
\* A call that is over, or that nobody goes on with.
CHECK_DEADLOCK FALSE
