SPECIFICATION HSpec
CONSTANTS
  Writer = {w1, w2, w3}
  None = None
  MaxFailures = 1
  MaxCrashes = 2
  Event = {"SessionStart", "PreToolUse"}
  ComposedEvent = "PreToolUse"
  Install <- MCInstall
  Document <- MCDocument
  Text <- MCText
  AllowRule = "export"
  Allowance = 8
SYMMETRY WriterSymmetry
INVARIANTS NameIsComplete SuccessSurvives ForeignKept RegisteredWhole RemoveRestores SecondRunWritesNothing
CHECK_DEADLOCK FALSE
