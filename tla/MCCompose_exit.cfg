\* Registered by hooks-install alone and composed, and by hand with one second
\* more than the upstream has.
SPECIFICATION Spec
CONSTANTS
  Budget = 20
  WaitDelay = 1
  DrainWait = 2
  OwnDeadline = 20
  Allowance = 32
  Handwritten = {24}
INVARIANT ExitIsVerdict
CHECK_DEADLOCK FALSE
