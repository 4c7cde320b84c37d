\* Two hooks at a time of one session and its one agent: starts, commands and stops
\* racing with one kill or failed access; resumes under another agent type and
\* refreshes (OneConcern).
SPECIFICATION Spec
CONSTANTS
  Hook = {h1, h2}
  Session = {s1}
  Agent = {a1}
  NoAgent = NoAgent
  Type = {t, odd}
  NoType = NoType
  Plain = {t}
  TTL = 1
  RefreshBelow = 1
  PruneAfter = 1
  ReapAfter = 1
  MaxClock = 2
  MaxDirs = 3
  MaxFaults = 1
SYMMETRY HookSymmetry
CONSTRAINT OneConcern
INVARIANTS StoreSound RacersAgree StoppedNotDelivered NoLeakedChild
INVARIANTS DeliveredMatchesCaller RecordMatchesDirectory
CHECK_DEADLOCK FALSE
