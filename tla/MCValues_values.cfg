SPECIFICATION Spec
CONSTANTS
  NULL = NULL
  Byte = 3
  IntBits = 6
  Word = 9
  Token <- MCToken
  Declared <- MCDeclared
  Prefixed <- MCPrefixed
  Flag <- MCFlag
  Literal <- MCLiteral
  STATE_A = STATE_A
  STATE_B = STATE_B
  STATE_C = STATE_C
  KIND_NO = KIND_NO
  KIND_YES = KIND_YES
  COUNT = COUNT
  PATH = PATH
  MODE = MODE
  phrase = phrase
  letter = letter
  True = True
  False = False
  Char = {letter}
  Field <- MCField
  resize = resize
  mode = mode
  level = level
  relief = relief
  size = size
  name = name
  Kind <- MCKind
  Ofs <- MCOfs
  Size <- MCSize
  FieldType <- MCFieldType
  Padding <- MCPadding
  Library <- MCLibrary
  MaxCopies = 1
  Prop <- MCProp
  Column = {column}
  sensitive = sensitive
  digits = digits
  count = count
  long = long
  align = align
  state = state
  label = label
  ratio = ratio
  image = image
  raw = raw
  column = column
  other = other
  window = window
  button = button
  GType <- MCGType
  GSpec <- MCGSpec
  Object = {window, button}
  Class <- MCClass
  GClass <- MCGClass
  Unknown = {other}
  Sets <- MCSets
  Function <- MCFunction
  echo_bool = echo_bool
  echo_int = echo_int
  echo_uint = echo_uint
  echo_long = echo_long
  echo_enum = echo_enum
  echo_double = echo_double
  echo_text = echo_text
  echo_widget = echo_widget
  out_int = out_int
  out_uint = out_uint
  out_bool = out_bool
  out_enum = out_enum
  out_double = out_double
  ArgType <- MCArgType
  ArgSpec <- MCArgSpec
  ArgClass <- MCArgClass
  IsA <- MCIsA
  Calls <- MCCalls
  Programs <- MCPrograms
CHECK_DEADLOCK FALSE
INVARIANT ConstantsExact
INVARIANT FieldsKept
INVARIANT RoundTrip
INVARIANT OwnershipExact
