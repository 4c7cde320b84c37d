\* Both commands, over deployments and callers of every kind; assertions have at
\* most two faults, and one secret after another may be replaced.
SPECIFICATION Spec
CONSTANTS
  HumanSubjects = {"human:ada"}
  MaxLifetime = 4
  Deployments <- MCDeployments
  Callers <- MCCallers
  KeySets <- MCKeySets
  Times = {2}
INVARIANTS  AssertionDecides NoSubstitute SecretsForEntitled TokenOfConfiguredApp Audited
CHECK_DEADLOCK FALSE
