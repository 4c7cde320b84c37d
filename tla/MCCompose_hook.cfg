\* Registered by hooks-install alone and composed, and by hand with one second
\* more than the upstream has.
SPECIFICATION FairSpec
CONSTANTS
  Budget = 20
  WaitDelay = 1
  DrainWait = 2
  OwnDeadline = 20
  Allowance = 32
  Handwritten = {24}
INVARIANTS NeverCut
PROPERTIES Answers 
CHECK_DEADLOCK FALSE
