SPECIFICATION Spec
CONSTANTS
  MaxInt64 = 8
  Envs <- MCEnvs
  Requests <- MCRequests
INVARIANTS
  SwitchesAreIndependent
