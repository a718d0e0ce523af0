----------------------------- MODULE Arguments -----------------------------
(***************************************************************************)
(* Arguments and results of library functions and of callbacks             *)
(* (src/gnome/types.c, lua2ffi and ffi2lua).  Each C type has a conversion *)
(* either way.  A value passes through a long, of which libffi takes what  *)
(* belongs to the type.  A pointer to a number or an enum leads to an item *)
(* of the call_info: an output argument, unless it is NULL.                *)
(***************************************************************************)
EXTENDS GValues

CONSTANTS
  Function,  (* library functions that give back what they get, the        *)
             (* argument itself or what a pointer leads to                 *)
  ArgType,   (* its type: bool, int, uint, long, enum, double, char*,      *)
             (* struct*, int*, uint*, bool*, enum* or double*             *)
  ArgSpec,   (* the typespec of an enum, also behind a pointer             *)
  ArgClass,  (* the class that is expected behind a struct*                *)
  IsA,       (* pairs of a class and one it is derived from, or itself     *)
  Calls      (* what the library calls closures with                       *)

ASSUME ArgumentsAssumption ==
  /\ \A f \in Function : ArgType[f] \in {"enum", "enum*"} => ArgSpec[f].index # 0
  /\ \A f \in Function : ArgType[f] \in {"bool", "int", "uint", "long", "enum",
       "double", "char*", "struct*", "int*", "uint*", "bool*", "enum*", "double*"}
  /\ Calls \subseteq {f \in Function : ArgType[f] \in {"bool", "int", "enum"}}
                     \X Int

-----------------------------------------------------------------------------
(* lua2ffi_bool, _long, _enum, _double, _char_ptr, _struct_ptr *)
Lua2Bool(v)   == IF v.t = "boolean" THEN Num(v.n) ELSE Error
Lua2Long(v)   == IF v.t = "enum" THEN Num(v.n)
                 ELSE IF IsNumeric(v) THEN Num(Numeric(v)) ELSE Error

(* An enum of another type only gives a warning. *)
Lua2Enum(v)   == IF v.t \in {"number", "enum"} THEN Num(v.n) ELSE Error
Lua2Double(v) == IF IsNumeric(v) THEN Num(Numeric(v)) ELSE Error
Lua2CharPtr(v) ==
  IF v.t = "number" THEN Str(<<v.n>>)
  ELSE IF v.t \in {"nil", "string"} THEN v ELSE Error

(* No constant here is a pointer, as it must be for an enum to be used.    *)
Lua2StructPtr(v, class) ==
  IF v = Nil \/ (v.t = "object" /\ <<Class[v.s[1]], class>> \in IsA)
  THEN v ELSE Error

(* lua2ffi_int_ptr, _enum_ptr, _double_ptr: what they store, or NULL.      *)
StoreInt(v, type) ==
  IF type = "bool*" THEN Lua2Bool(v)
  ELSE IF ~IsNumeric(v) THEN Error
  ELSE IF type = "int*" THEN Num(ToInt(Numeric(v)))
  ELSE Num(Unsigned(Numeric(v), IntBits))

Lua2IntPtr(v, type) == IF v = Nil THEN v ELSE StoreInt(v, type)

Lua2EnumPtr(v) ==
  IF v.t = "number" THEN Num(ToInt(v.n)) ELSE IF v = Nil THEN v ELSE Error

Lua2DoublePtr(v) == IF v.t \in {"nil", "number"} THEN v ELSE Error

Lua2Ffi(f, v) ==
  LET type == ArgType[f] IN
    CASE type = "bool"    -> Lua2Bool(v)
      [] type = "enum"    -> Lua2Enum(v)
      [] type = "double"  -> Lua2Double(v)
      [] type = "char*"   -> Lua2CharPtr(v)
      [] type = "struct*" -> Lua2StructPtr(v, ArgClass[f])
      [] type = "enum*"   -> Lua2EnumPtr(v)
      [] type = "double*" -> Lua2DoublePtr(v)
      [] type \in {"int", "uint", "long"}    -> Lua2Long(v)
      [] type \in {"int*", "uint*", "bool*"} -> Lua2IntPtr(v, type)

(* What the function gets: libffi copies as much as the type has; an enum  *)
(* and a bool are unsigned for it.                                         *)
InC(f, c) ==
  CASE ArgType[f] = "int"  -> Num(Signed(c.n, IntBits))
    [] ArgType[f] = "long" -> Num(Signed(c.n, Word))
    [] ArgType[f] \in {"bool", "enum", "uint"} -> Num(Unsigned(c.n, IntBits))
    [] OTHER -> c

(* ffi2lua_bool, _enum and _enum_ptr, and the others; nothing for NULL.    *)
(* What a bool* leads to is a number.                                      *)
Ffi2Lua(f, c) ==
  IF c = Nil THEN c
  ELSE CASE ArgType[f] = "bool" -> Bool(c.n # 0)
         [] ArgType[f] \in {"enum", "enum*"} -> PushConstant(ArgSpec[f], c.n)
         [] OTHER -> c

(* A function is called with v, and returns what it gets. *)
Back(f, c) == IF c = Error THEN Error ELSE Ffi2Lua(f, InC(f, c))

Returned(f, v) == Back(f, Lua2Ffi(f, v))

CallFunction(f) ==
  /\ ~fault
  /\ Gives(Returned(f, x))
  /\ UNCHANGED gvVars

(* An argument of a callback is read as a long, of which the caller has    *)
(* set what belongs to the type; the rest may be its sign, or zero.        *)
InRegister(f, n) ==
  IF ArgType[f] \in {"bool", "int", "enum"}
  THEN {n, Unsigned(n, IntBits)} ELSE {n}

Callback(f, n) ==
  /\ ~fault
  /\ \E l \in InRegister(f, n) : Gives(Ffi2Lua(f, Num(l)))
  /\ UNCHANGED gvVars
=============================================================================
