\* One handler and two ids under fairness: faults, a restart, the reaper.
CONSTANTS
  Handler = {h1}
  Jti = {j1, j2}
  NoJti = NoJti
  Pid = {1}
  Subreaper = {}
  Via = {"direct"}
  Uid = {1000}
  ServingUid = 1000
  Exe = {e1}
  Key = {k1}
  Role = {}
  Def = {d1}
  NoDef = NoDef
  RuntimeRoles = {}
  DelegableRoles = {}
  Restricted = FALSE
  SessionTTL = 1
  MaxLifetime = 1
  MaxClock = 4
  MaxSpawns = 0
  MaxEdits = 0
  MaxFaults = 2
  MaxRestarts = 1
SPECIFICATION FairSpec
CHECK_DEADLOCK FALSE
PROPERTY StaleDirsReaped
