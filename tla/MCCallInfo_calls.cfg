SPECIFICATION Spec
CONSTANTS
  Info = {c1, c2, c3}
  MaxArg = 2
  MaxDepth = 4
  Forms = {"nil", "inout", "boxed"}
  OutArgs = FALSE
  Errors = TRUE
  NULL = NULL
SYMMETRY Symmetry
CHECK_DEADLOCK FALSE
INVARIANT NoFault
INVARIANT PoolSound
INVARIANT FlagsExact
INVARIANT CurrentSafe
INVARIANT BoxesFreed
