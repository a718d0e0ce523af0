SPECIFICATION Spec
CONSTANTS
  NULL = NULL
  Module <- MCModule
  Depends <- MCDepends
  Incompatible = {"old"}
  TypeName <- MCTypeName
  Native <- MCNative
  Fundamental = {"int"}
  Foreign <- MCForeign
  Provider <- MCProvider
  Class <- MCClass
  Attr <- MCAttr
  Name <- MCName
  FuncName <- MCFuncName
  Complete <- MCComplete
  show = show
  text = text
  role = role
  Listed <- MCListed
  HashValue <- MCHashValue
  LowBits = 3
  HighBits = 5
  NotFound = NotFound
  Alias <- MCAlias
  Symbols <- MCSymbols
  Overrides <- MCOverrides
  Object <- MCObject
  ClassOf <- MCClassOf
  Lineage <- MCLineage
  Interfaces <- MCInterfaces
  ModuleOf <- MCModuleOf
  Field <- MCField
  FieldType <- MCFieldType
  Virtual <- MCVirtual
  Value = {"v"}
CHECK_DEADLOCK FALSE
INVARIANT ModulesSound
INVARIANT LookupRight
INVARIANT EnvironmentsPrivate
