SPECIFICATION Spec

CONSTANTS
  Calls <- Three
  Known <- Three
  Debug = FALSE
  Detached <- None
  Killable <- None
  NoCall = NoCall
  Parts = 2
  Backlog = 0
  Statuses <- Codes
  MaxInterrupts = 0
  Stops = FALSE
  SetupFails = FALSE
  c1 = c1
  c2 = c2
  c3 = c3
  c4 = c4

INVARIANT AllCallsRecorded

\* The tracer and the build come to an end.
CHECK_DEADLOCK FALSE
