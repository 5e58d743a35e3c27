SPECIFICATION MCSpec
CONSTANTS
  LastLoop = 1
  Sessions = {s1, s2}
  Users = {ann, bob}
  Relays = {r1, r2, r3}
SYMMETRY Symmetry
INVARIANTS
  QuietMount
  CleanRunCompletes
  DefaultUserIsReady
  OneRegistrar
  HostStaysClean
  LimitedUnlessRaced
PROPERTIES
  RootOnlyIfTorn
CHECK_DEADLOCK FALSE
