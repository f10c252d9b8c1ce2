\* Requests may be all answered: the system stops.
CHECK_DEADLOCK FALSE
SPECIFICATION Spec
CONSTANTS
  r1 = r1
  r2 = r2
  Requests = {r1, r2}
  Inputs <- DeepInputs
  Envs <- MCEnvs
  Protocol <- MCProtocol
  MaxCommands = 2
  MaxNormalizeDepth = 2
  NumBuckets = 2
INVARIANT OwnEntryOnly
