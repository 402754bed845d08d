SPECIFICATION HistogramSpec
CONSTANTS
  LabelSets = {route, other}
  Bounds = {2, 5}
  Values = {1, 3, 9}
  MaxObserved = 2
INVARIANTS
  BucketsCumulative
