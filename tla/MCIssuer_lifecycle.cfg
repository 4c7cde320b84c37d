\* Two concurrent handlers, faults, a restart and the reaper.
CONSTANTS
  Handler = {h1, h2}
  Jti = {j1, j2}
  NoJti = NoJti
  Pid = {1}
  Subreaper = {}
  Via = {"direct"}
  Uid = {1000}
  ServingUid = 1000
  Exe = {e1}
  Key = {k1}
  Role = {}
  Def = {d1}
  NoDef = NoDef
  RuntimeRoles = {}
  DelegableRoles = {}
  Restricted = FALSE
  SessionTTL = 1
  MaxLifetime = 1
  MaxClock = 4
  MaxSpawns = 0
  MaxEdits = 0
  MaxFaults = 2
  MaxRestarts = 1
SPECIFICATION Spec
SYMMETRY Symmetry
CHECK_DEADLOCK FALSE
INVARIANTS AnsweredIsDelivered NoOrphanDirectory RegistryTruthful
PROPERTY RegistryKeepsLive
