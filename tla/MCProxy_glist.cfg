SPECIFICATION Spec
CONSTANTS
  Proxy = {w1, w2, w3}
  Addr = {p1}
  Stack = {}
  Type = {"GList"}
  KindOf <- MCKindOf
  Features = {"override"}
  MaxCRef = 1
  MaxRef = 4
  NULL = NULL
  Detect = Detect
SYMMETRY Symmetry
CHECK_DEADLOCK FALSE
INVARIANT NoFault
