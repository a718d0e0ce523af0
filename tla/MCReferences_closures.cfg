INIT Init
NEXT Next
CONSTANTS
  MaxRef = 4
  NIL = NIL
  NULL = NULL
  Box = {}
  Value = {v1}
  Thread = {main}
  ValueKey = ValueKey
  TakesBoxes = FALSE
  Closure = {c1, c2}
  Code = {t1, t2}
  Cif = {k1, k2}
  Func = {f1}
  LibFunc = {foreach, tree_new, cell_func}
  Field = {cell_func}
  TypeOf <- MCType
  Whitelist = {GHFunc, GCompareFunc}
  Blacklist = {tree_new}
  Keeps = {tree_new, cell_func}
  foreach = foreach
  tree_new = tree_new
  cell_func = cell_func
  GHFunc = GHFunc
  GCompareFunc = GCompareFunc
  Handler = {h1}
  Object = {o}
  HandlerFunc = {hf}
  ExtraArgs = {a}
  Tooltip = {}
CHECK_DEADLOCK FALSE
INVARIANT PointersGood
INVARIANT CallsDetected
INVARIANT RefsOwned
SYMMETRY Symmetry
