SPECIFICATION FairSpec

CONSTANTS
  Calls <- Two
  Known <- Two
  Debug = FALSE
  Detached <- First
  Killable <- First
  NoCall = NoCall
  Parts = 2
  Backlog = 0
  Statuses <- Codes
  MaxInterrupts = 1
  Stops = TRUE
  SetupFails = FALSE
  c1 = c1
  c2 = c2
  c3 = c3
  c4 = c4

PROPERTY ClientUnblocked
PROPERTY EndsOrHangs

\* The tracer and the build come to an end.
CHECK_DEADLOCK FALSE
