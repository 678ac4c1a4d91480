SPECIFICATION Spec

CONSTANTS
  Calls <- Three
  Known <- Two
  Debug = FALSE
  Detached <- None
  Killable <- None
  NoCall = NoCall
  Parts = 2
  Backlog = 1
  Statuses <- Codes
  MaxInterrupts = 1
  Stops = FALSE
  SetupFails = FALSE
  c1 = c1
  c2 = c2
  c3 = c3
  c4 = c4

INVARIANT OutputSurvives
INVARIANT StatusReported
PROPERTY OrderKept

\* The tracer and the build come to an end.
CHECK_DEADLOCK FALSE
