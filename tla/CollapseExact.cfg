SPECIFICATION Spec
CONSTANTS
  W = 3
  Lines <- AllRanges
  MaxLines = 3
CHECK_DEADLOCK FALSE
INVARIANT TypeOK
INVARIANT Exact
INVARIANT SweepExact
INVARIANT RangesApart
INVARIANT Shortest
