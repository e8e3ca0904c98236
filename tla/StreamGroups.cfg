\* Two processes of each program serve a stream, with errors and crashes.
SPECIFICATION Spec
CONSTANTS
  Consumer = {w1, w2}
  Entries = 3
  Malformed = {2}
  Program <- AllPrograms
  MaxFailures = 2
INVARIANTS
  TypeOK
  AckedIsHandled
  WorkBounded
  OnceWithoutClaims
PROPERTIES
  Served
\* Every entry may be acknowledged or stranded.
CHECK_DEADLOCK FALSE
