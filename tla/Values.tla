------------------------------- MODULE Values -------------------------------
(***************************************************************************)
(* A program that moves values between constants, fields of structures,    *)
(* properties of objects, library functions and callbacks.                 *)
(***************************************************************************)
EXTENDS Fields, Arguments

CONSTANTS
  Programs  (* bound: the constants, fields, properties, columns and        *)
            (* functions that a program uses                               *)

VARIABLES
  used  (* those of this program                                           *)

vars == <<constVars, fieldVars, gvVars, used>>

Init ==
  /\ x = Nil /\ meant = Nil /\ fault = FALSE
  /\ FieldsInit
  /\ GValuesInit
  /\ used \in Programs

Named(u) ==
  {k \in (DOMAIN Declared) \X u : k[2] \in DOMAIN Prefixed}

(* Numbers, and constants of the modules, may be used besides x. *)
Operands ==
  [u \in Programs |->
     {v \in Literal : v.t = "number"} \cup
     {Pushed(k[1], AsDeclared(Declared[k[1]][k[2]])) :
        k \in {k \in Named(u) : k[2] \in DOMAIN Declared[k[1]]}}]

Calculates ==
  \/ \E v \in Literal : Write(v)
  \/ \E o \in Object : Write(Obj(o))
  \/ \E k \in Named(used) : ReadConstant(k[1], k[2])
  \/ ToNumber
  \/ \E y \in Operands[used] : \/ Add(y) \/ AddTo(y)
                        \/ Subtract(y) \/ SubtractFrom(y)
                        \/ Test(y) \/ Compare(y)

Accesses ==
  \/ \E f \in Field \cap used : ReadField(f)
  \/ \E f \in Field \cap used : WriteField(f)
  \/ \E w \in Library : w[1] \in used /\ LibraryWrites(w[1], w[2])

Transfers ==
  \/ \E p \in (Prop \cap used) \cup Unknown : ObjectGet(p)
  \/ \E p \in (Prop \cap used) \cup Unknown : ObjectSet(<<<<p, x>>>>)
  \/ \E p \in (Prop \cap used) \cup Unknown, q \in Prop \cap used :
       \E y \in Literal : ObjectSet(<<<<p, x>>, <<q, y>>>>)
  \/ \E c \in Column \cap used : ListStoreSet(c)
  \/ \E s \in Sets : s[1] \in used /\ LibrarySets(s[1], s[2])
  \/ \E f \in Function \cap used : CallFunction(f)
  \/ \E k \in Calls : k[1] \in used /\ Callback(k[1], k[2])
  \/ PassGValue

Next ==
  \/ Calculates /\ UNCHANGED <<fieldVars, gvVars, used>>
  \/ Accesses /\ UNCHANGED <<gvVars, used>>
  \/ Transfers /\ UNCHANGED <<fieldVars, used>>

Spec == Init /\ [][Next]_vars

-----------------------------------------------------------------------------
FieldAgain(f) ==
  Kind[f] \in {"long", "enum", "double"} =>
    {i \in Bits(Struct2Lua(f, GetBits(f)).n, Word) : i < Size[f]} = GetBits(f)

Settable(p) ==
  /\ ~(GType[p] = "flags" /\ GSpec[p] # NULL)
  /\ props[p] # Nil
  /\ GType[p] = "object" => Class[props[p].s[1]] = GClass[p]

PropertyAgain(p) ==
  Settable(p) => Cast(PushGValue(props[p], p), p) = props[p]

GivenAgain(f) ==
  ArgType[f] \notin {"bool*", "enum*"} =>
    \A r \in {Returned(f, x)} : Returned(f, r) = r

HandedBack(f) ==
  ArgType[f] \in {"bool", "int", "uint", "long", "enum", "double"} =>
    \A c \in {InC(f, Lua2Ffi(f, x))} : \A l \in InRegister(f, c.n) :
      InC(f, Lua2Ffi(f, Ffi2Lua(f, Num(l)))) = c

(* A field or property can be set to what reading it gives, which leaves   *)
(* it as it was; what a function returns can be given to it again and is   *)
(* the same; what the library hands to a callback it gets back: signs,     *)
(* truth and types survive both ways.  Exceptions: flags of a known type   *)
(* cannot be set to flags, strings and objects not to nil, and objects     *)
(* must be of the very class that the property has; a bool* gives a number *)
(* and an enum* an enum, which neither accepts.                            *)
RoundTrip ==
  /\ \A f \in Field : FieldAgain(f)
  /\ \A p \in Prop : PropertyAgain(p)
  /\ \A f \in Function :
       Lua2Ffi(f, x) # Error => GivenAgain(f) /\ HandedBack(f)
=============================================================================
