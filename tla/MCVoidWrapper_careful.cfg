SPECIFICATION FairSpec
CONSTANTS
  Wrapper = {a1, a2}
  Udata = {u1, u2, u3}
  Ref = {r1, r2}
  Careful = TRUE
  NULL = NULL
CHECK_DEADLOCK FALSE
INVARIANT NoDangling
INVARIANT RegistryExact
INVARIANT CountExact
PROPERTY ImplementsShared
PROPERTY UnusedFreed
