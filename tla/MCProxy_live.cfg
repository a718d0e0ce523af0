SPECIFICATION FairSpec
CONSTANTS
  Proxy = {w1, w2, w3}
  Addr = {p1}
  Stack = {}
  Type = {"GtkWidget", "GtkWindow", "GdkPixbuf", "GSList"}
  KindOf <- MCKindOf
  Features = {"override"}
  MaxCRef = 1
  MaxRef = 4
  NULL = NULL
  Detect = Detect
CHECK_DEADLOCK FALSE
INVARIANT NoFault
INVARIANT RefsExact
PROPERTY ImplementsShared
PROPERTY GarbageFreed
