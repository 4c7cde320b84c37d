\* The same, with key sets in which a key of the kid declares another alg.
SPECIFICATION Spec
CONSTANTS
  HumanSubjects = {"human:ada"}
  MaxLifetime = 4
  Deployments <- MCDeployments
  Callers <- MCCallers
  KeySets <- MCKeySets
  Times = {2}
INVARIANT ContractCodes
CHECK_DEADLOCK FALSE
