\* Two relays drain the outbox at once, with errors and crashes.
SPECIFICATION Spec
CONSTANTS
  c1 = c1
  c2 = c2
  e1 = e1
  e2 = e2
  e3 = e3
  Relay = {r1, r2}
  Command <- TwoCommands
  Event <- ThreeEvents
  Emits <- EmitsThree
  At <- AtThree
  Batch = 2
  MaxFailures = 2
INVARIANTS
  TypeOK
  MarkedWasSent
  FailureForEachCopy
PROPERTIES
  InOrder
  AllMarked
  LogSpec
\* The outbox may be empty and every unit of work ended.
CHECK_DEADLOCK FALSE
