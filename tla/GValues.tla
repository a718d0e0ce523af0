------------------------------ MODULE GValues ------------------------------
(***************************************************************************)
(* GValues (src/gnome/gvalue.c) and what reads and sets properties with    *)
(* them (glib/override.c, gtk/override.c).  A Lua value is converted to a  *)
(* GValue of the type of the property; the GValue owns a copy of a string  *)
(* or a reference to an object, which has to be given back.                *)
(***************************************************************************)
EXTENDS Constants

CONSTANTS
  True, False, Char,  (* the words "true" and "false", words of one letter *)
  Prop, Column,       (* properties of an object, columns of a list store  *)
  GType,              (* what they hold: boolean, int, uint, long, enum,   *)
                      (* flags, string, double or object                   *)
  GSpec,              (* the typespecs of enum, flags, or NULL if unknown  *)
  Object, Class,      (* objects, and the names of their classes           *)
  GClass,             (* the classes object properties ask for             *)
  Unknown,            (* names that are no property                        *)
  Sets                (* what the library sets by itself                   *)

Slot == Prop \cup Column

(* What has the kind of an object is one. *)
Whole(v) == v.t = "object" => \E o \in Object : v = Obj(o)

(* What a GValue of the type of p can hold. *)
Fits(v, p) ==
  /\ Proper(v)
  /\ GType[p] = "boolean" => v.t = "boolean"
  /\ GType[p] \in {"int", "enum", "flags"} => v = Num(Signed(v.n, IntBits))
  /\ GType[p] = "uint" => v = Num(Unsigned(v.n, IntBits))
  /\ GType[p] = "long" => v = Num(Signed(v.n, Word))
  /\ GType[p] = "double" => v = Num(v.n)
  /\ GType[p] = "string" => v = Nil \/ v.t = "string"
  /\ GType[p] = "object" => v = Nil \/ v.t = "object"

(* The typespec of an enum or flags. *)
IsSpec(ts) == ts.index # 0 /\ ts = Spec0(ts.module, ts.index)

ASSUME GValuesAssumption ==
  /\ NULL \notin Object
  /\ Unknown \cap Slot = {}
  /\ IsFiniteSet(Prop) /\ IsFiniteSet(Column)
  /\ \A p \in Slot : GType[p] \in {"boolean", "int", "uint", "long", "enum",
                                 "flags", "string", "double", "object"}
  /\ \A p \in Slot : GSpec[p] = NULL \/ IsSpec(GSpec[p])
  /\ \A s \in Sets : s[1] \in Prop /\ Whole(s[2]) /\ Fits(s[2], s[1])
  /\ \A v \in Literal : Whole(v)

VARIABLES
  props,    (* what properties and columns hold, in C                      *)
  strings,  (* copies of strings that are not freed                        *)
  refs      (* reference counts of the objects                             *)

gvVars == <<props, strings, refs>>

Zero(p) == IF GType[p] \in {"string", "object"} THEN Nil
           ELSE IF GType[p] = "boolean" THEN Bool(FALSE) ELSE Num(0)

GValuesInit ==
  /\ props = [p \in Slot |-> Zero(p)]
  /\ strings = 0
  /\ refs = [o \in Object |-> 1]

-----------------------------------------------------------------------------
(* _to_boolean, _to_number, _to_double *)
ToBoolean(s) ==
  IF s \in {<<True>>, <<1>>} THEN Bool(TRUE)
  ELSE IF s \in {<<False>>, <<0>>} THEN Bool(FALSE) ELSE Error

(* A single letter is taken for the zero byte behind it. *)
ToInteger(v) ==
  IF IsNumeric(v) THEN Num(Numeric(v))
  ELSE IF v.t = "string" /\ (v.s = <<>> \/ v.s \in {<<c>> : c \in Char})
       THEN Num(0) ELSE Error

ToDouble(v) ==
  IF v.t = "number" \/ (IsNumeric(v) /\ Numeric(v) >= 0) THEN Num(Numeric(v))
  ELSE IF v = Str(<<>>) THEN Num(0) ELSE Error

Truncated(v, w) == IF v = Error THEN v ELSE Num(Signed(v.n, w))
UTruncated(v, w) == IF v = Error THEN v ELSE Num(Unsigned(v.n, w))

(* Constants of any type are accepted by name; one that is a string gives  *)
(* zero.                                                                   *)
EnumValue(d) ==
  IF d = NULL THEN Error
  ELSE IF d.t = "string" THEN Num(0) ELSE Num(Signed(d.v, IntBits))

EnumNamed(s) ==
  IF Len(s) # 1 \/ s[1] \notin Token THEN Error
  ELSE EnumValue(FindConstant(s[1]))

ToEnum(v, ts) ==
  IF v.t = "string" THEN EnumNamed(v.s)
  ELSE IF v.t = "number" \/ (v.t = "enum" /\ GetConstant(v, ts))
       THEN Num(Signed(v.n, IntBits)) ELSE Error

(* _fill_gvalue_flags: names and numbers with bars between them.  There is *)
(* no case for userdata.                                                   *)
FlagValue(d) == IF d = NULL \/ d.t = "string" THEN Error ELSE Num(d.v)

FlagPart(q) ==
  IF q \in Token THEN FlagValue(FindConstant(q))
  ELSE IF q >= 0 THEN Num(q) ELSE Error

Combined(parts) ==
  IF Error \in parts THEN Error
  ELSE Num(Signed(Number(UNION {Bits(q.n, IntBits) : q \in parts}), IntBits))

FillFlags(v) ==
  IF v.t = "number" THEN Num(Signed(v.n, IntBits))
  ELSE IF v.t = "string" THEN Combined({FlagPart(v.s[i]) : i \in DOMAIN v.s})
  ELSE Error

(* Whatever is no string and cannot be made one is copied from NULL. *)
ToText(v) ==
  IF v.t = "string" THEN v
  ELSE IF v.t = "number" THEN Str(<<v.n>>) ELSE Crash

(* An object of exactly this class; an enum is read as if it were one. *)
ToObject(v, class) ==
  IF v.t = "enum" THEN Crash
  ELSE IF v.t = "object" /\ Class[v.s[1]] = class THEN v ELSE Error

(* lg_lua_to_gvalue_cast *)
Cast(v, p) ==
  CASE GType[p] = "boolean" ->
         IF v.t = "boolean" THEN v
         ELSE IF v.t = "string" THEN ToBoolean(v.s) ELSE Error
    [] GType[p] = "int"    -> Truncated(ToInteger(v), IntBits)
    [] GType[p] = "uint"   -> UTruncated(ToInteger(v), IntBits)
    [] GType[p] = "long"   -> Truncated(ToInteger(v), Word)
    [] GType[p] = "enum"   -> ToEnum(v, GSpec[p])
    [] GType[p] = "flags"  -> FillFlags(v)
    [] GType[p] = "string" -> ToText(v)
    [] GType[p] = "double" -> ToDouble(v)
    [] GType[p] = "object" -> ToObject(v, GClass[p])

(* lg_gvalue_to_lua, _push_gvalue_fundamental *)
PushGValue(c, p) ==
  IF GType[p] \in {"enum", "flags"} /\ GSpec[p] # NULL
  THEN PushConstant(GSpec[p], c.n) ELSE c

-----------------------------------------------------------------------------
(* What is owned, and by how many; out tells how an operation goes. *)
Now(out) == [props |-> props, strings |-> strings, refs |-> refs, out |-> out]

Becomes(st) ==
  /\ props' = st.props /\ strings' = st.strings /\ refs' = st.refs

Owned(st, c, k) ==
  IF c.t = "string" THEN [st EXCEPT !.strings = @ + k]
  ELSE IF c.t = "object" THEN [st EXCEPT !.refs[c.s[1]] = @ + k] ELSE st

Fill(st, c)  == Owned(st, c, 1)    (* the GValue owns its contents         *)
Unset(st, c) == Owned(st, c, -1)   (* g_value_unset                        *)

(* g_object_set_property copies the contents and drops the old ones. *)
SetProperty(st, p, c) ==
  [Owned(Owned(st, c, 1), st.props[p], -1) EXCEPT !.props[p] = c]

(* Mutant: the GValue is not unset after the property has been set. *)
SetCast_NoUnset(st, p, c) ==
  IF c \in {Error, Crash} THEN [st EXCEPT !.out = c]
  ELSE SetProperty(Fill(st, c), p, c)

SetCast(st, p, c) ==
  IF c \in {Error, Crash} THEN [st EXCEPT !.out = c]
  ELSE Unset(SetProperty(Fill(st, c), p, c), c)

SetOne(st, p, v) == SetCast(st, p, Cast(v, p))

(* An operation that leads to st; an error is caught. *)
Ends(st) ==
  /\ Becomes(st)
  /\ fault' = (st.out = Crash)
  /\ UNCHANGED <<x, meant>>

(* l_g_object_set: pairs of a name and a value, one after the other; an    *)
(* unknown name is skipped, and an error leaves those before it set.       *)
SetPair(st, pair) ==
  IF st.out # Nil \/ pair[1] \notin Prop THEN st
  ELSE SetOne(st, pair[1], pair[2])

ObjectSet(pairs) ==
  LET After[i \in 0..Len(pairs)] ==
        IF i = 0 THEN Now(Nil) ELSE SetPair(After[i - 1], pairs[i])
  IN ~fault /\ Ends(After[Len(pairs)])

(* l_g_object_get: a copy of the contents, pushed and given back *)
ObjectGet(p) ==
  /\ ~fault
  /\ IF p \notin Prop THEN Gives(Nil) /\ UNCHANGED gvVars
     ELSE /\ Gives(PushGValue(props[p], p))
          /\ Becomes(Unset(Fill(Now(Nil), props[p]), props[p]))

(* l_gtk_list_store_set_value *)
ListStoreSet(c) == ~fault /\ Ends(SetOne(Now(Nil), c, x))

(* The library sets a property by itself. *)
LibrarySets(p, c) ==
  /\ ~fault
  /\ Becomes(SetProperty(Now(Nil), p, c))
  /\ UNCHANGED constVars

(* A double becomes an int on the processor. *)
ToInt(n) == IF n = Signed(n, IntBits) THEN n ELSE -(2^(IntBits - 1))

(* lg_lua_to_gvalue: the type is chosen by what is given; an enum becomes  *)
(* a long, a number that does not fit into an int its least value.         *)
LuaToGValue(v) ==
  IF v.t \in {"nil", "boolean", "string"} THEN v
  ELSE IF v.t = "enum" THEN Num(v.n)
  ELSE IF v.t = "number" THEN Num(ToInt(v.n)) ELSE Error

(* A library function with an argument of type GValue* that passes it on   *)
(* to a callback, where it is read again; it is unset after the call.      *)
PassGValue ==
  LET c == LuaToGValue(x) IN
    /\ ~fault
    /\ Gives(c)
    /\ Becomes(Unset(Fill(Now(Nil), c), c))

-----------------------------------------------------------------------------
(* Copies of strings and references to objects are exactly those of the    *)
(* properties and columns (and one reference of each object's proxy),      *)
(* whatever operations were done and failed.                               *)
OwnershipExact ==
  /\ strings = Cardinality({p \in Slot : props[p].t = "string"})
  /\ \A o \in Object :
       refs[o] = 1 + Cardinality({p \in Slot : props[p] = Obj(o)})
=============================================================================
