\* Requests may be all answered: the system stops.
CHECK_DEADLOCK FALSE
SPECIFICATION LiveSpec
CONSTANTS
  r1 = r1
  r2 = r2
  Requests = {r1, r2}
  Inputs <- MCInputs
  Envs <- MCEnvs
  Protocol <- MCProtocol
  MaxCommands = 2
  MaxNormalizeDepth = 2
  NumBuckets = 2
INVARIANTS CountedAsSent Guarded Faithful
PROPERTY AnsweredUnlessDisabled
