SPECIFICATION Spec

CONSTANTS
  Procs <- Two
  Envs <- SomeEnvs
  MaxDepth = 2
  p1 = p1
  p2 = p2

INVARIANT EveryProgramTold

\* Every process of the build has ended.
CHECK_DEADLOCK FALSE
