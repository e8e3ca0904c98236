\* The completion consumer alone: is every entry it acknowledges handled?
SPECIFICATION Spec
CONSTANTS
  Consumer = {w1, w2}
  Entries = 3
  Malformed = {2}
  Program <- OnlyCompletionConsumer
  MaxFailures = 1
INVARIANTS
  AtLeastOnce
\* Every entry may be acknowledged or stranded.
CHECK_DEADLOCK FALSE
