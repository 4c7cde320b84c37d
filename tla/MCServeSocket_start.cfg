\* Three starts, one of them elsewhere, with failing system calls, crashes, an
\* operator and one new key, with identity.issuer and jwks_path set or not.
SPECIFICATION Spec
CONSTANTS
  Server = {x, y, z}
  Elsewhere = {z}
  Key = {k1, k2}
  NoKey = NoKey
  Free = Free
  Foreign = Foreign
  MaxFailures = 1
  MaxRotations = 1
SYMMETRY Symmetry
INVARIANTS ModeBeforeName OneOwner KeysAreTheOwners MintGoesByTheOwner
CHECK_DEADLOCK FALSE
