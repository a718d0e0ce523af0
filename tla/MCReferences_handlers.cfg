INIT Init
NEXT Next
CONSTANTS
  MaxRef = 5
  NIL = NIL
  NULL = NULL
  Box = {b1, b2}
  Value = {v1}
  Thread = {main}
  ValueKey = ValueKey
  TakesBoxes = FALSE
  Closure = {}
  Code = {}
  Cif = {}
  Func = {f1}
  LibFunc = {foreach, tree_new, cell_func}
  Field = {cell_func}
  TypeOf <- MCType
  Whitelist = {GHFunc, GCompareFunc}
  Blacklist = {tree_new}
  Keeps = {tree_new, cell_func}
  foreach = foreach
  tree_new = tree_new
  cell_func = cell_func
  GHFunc = GHFunc
  GCompareFunc = GCompareFunc
  Handler = {h1, h2}
  Object = {o}
  HandlerFunc = {hf}
  ExtraArgs = {a}
  Tooltip = {h1}
CHECK_DEADLOCK FALSE
INVARIANT RefsOwned
INVARIANT HandlersServed
SYMMETRY Symmetry
