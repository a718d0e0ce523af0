SPECIFICATION Spec
CONSTANTS
  Proxy = {w1, w2, w3}
  Addr = {p1}
  Stack = {s1}
  Type = {"GtkWidget", "GtkWindow", "GdkEvent"}
  KindOf <- MCKindOf
  Features = {"const", "destroy"}
  MaxCRef = 1
  MaxRef = 4
  NULL = NULL
  Detect = Detect
SYMMETRY Symmetry
CHECK_DEADLOCK FALSE
INVARIANT TypeOK
INVARIANT NoFault
INVARIANT ObjectsSound
INVARIANT RingOK
INVARIANT RefsCovered
