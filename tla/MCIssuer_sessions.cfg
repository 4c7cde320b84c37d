\* Chains of delegation down sessions while a process exits, execs or reuses the
\* pid, the definition file is edited or the issuer restarts.  The one pid is a
\* subreaper, so that a helper whose runtime is gone leads to its successor.
CONSTANTS
  Handler = {h1}
  Jti = {j1, j2, j3}
  NoJti = NoJti
  Pid = {1}
  Subreaper = {1}
  Via = {"helper"}
  Uid = {1000, 1001}
  ServingUid = 1000
  Exe = {e1, e2}
  Key = {k1}
  Role = {r1, r2}
  Def = {d1}
  NoDef = NoDef
  RuntimeRoles = {r1, r2}
  DelegableRoles = {r1}
  Restricted = TRUE
  SessionTTL = 2
  MaxLifetime = 2
  MaxClock = 2
  MaxSpawns = 1
  MaxEdits = 1
  MaxFaults = 0
  MaxRestarts = 1
SPECIFICATION Spec
SYMMETRY Symmetry
CHECK_DEADLOCK FALSE
INVARIANTS IInv SessionCeiling ChildWithinParent SessionPinned OnlyServingUid
CONSTRAINT OneDisturbance
PROPERTY KeepsThePromise
