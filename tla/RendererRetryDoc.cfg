\* The renderer alone: is an entry whose handler raised taken up again?
SPECIFICATION Spec
CONSTANTS
  Consumer = {w1, w2}
  Entries = 3
  Malformed = {2}
  Program <- OnlyRenderer
  MaxFailures = 1
PROPERTIES
  RaisedIsRetried
\* Every entry may be acknowledged or stranded.
CHECK_DEADLOCK FALSE
