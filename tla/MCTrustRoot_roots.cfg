\* One component that is not plain, two changes at any time.
SPECIFICATION Spec
CONSTANTS
  Trees <- MCTrees
  Plan <- MCPlan
  File = "file"
  MaxChanges = 2
INVARIANTS ActsOnlyOnTrusted PathsHold
CHECK_DEADLOCK FALSE
