----------------------------- MODULE Constants -----------------------------
(***************************************************************************)
(* Constants of the libraries and values of enumerations and flags         *)
(* (src/gnome/enum.c, the constants part of init.c and data.c, and the     *)
(* encoder in script/xml-const.lua).  At build time each constant is       *)
(* encoded as a short sequence of bytes; at run time it is found by its    *)
(* name, decoded, and given to Lua as a number, a string or a userdata     *)
(* with value and type, which can be compared, added and subtracted.       *)
(*                                                                         *)
(* The program has one variable, x.                                        *)
(***************************************************************************)
EXTENDS Integers, Sequences, FiniteSetsExt, SequencesExt

CONSTANTS
  NULL,
  Byte, IntBits, Word,  (* bits of a byte, an int and a long or pointer    *)
  Token,            (* words that occur in strings                         *)
  Declared,         (* for each module, in the order they were loaded, its *)
                    (* constants by name, a word: a kind, a value, a type  *)
  Prefixed,         (* a name with the module's prefix in front            *)
  Flag,             (* for the types, pairs of a module and an index in    *)
                    (* its list: 1 for enum, 2 for flags, 0 if GObject     *)
                    (* does not know them                                  *)
  Literal           (* values that the program writes                      *)

VARIABLES
  x,      (* the program's variable                                        *)
  meant,  (* what the constant read into it was declared as                *)
  fault   (* has NULL been dereferenced                                    *)

constVars == <<x, meant, fault>>

-----------------------------------------------------------------------------
(* Lua values: a kind, a number, the words and numbers of a string (with a *)
(* bar between them) or the address of an object, and an enum's typespec.  *)
Value(t, n, s) == [t |-> t, n |-> n, s |-> s, ts |-> NULL]

Nil     == Value("nil", 0, <<>>)
Bool(b) == Value("boolean", IF b THEN 1 ELSE 0, <<>>)
Num(n)  == Value("number", n, <<>>)
Str(s)  == Value("string", 0, s)
Obj(o)  == Value("object", 0, <<o>>)

Error == Value("error", 0, <<>>)  (* an error is raised instead            *)
Crash == Value("crash", 0, <<>>)  (* NULL is dereferenced instead          *)

Enum(ts, n) == [t |-> "enum", n |-> n, s |-> <<>>, ts |-> ts]

(* What a value is made of: a number, zero or one for FALSE or TRUE, words *)
(* and numbers.                                                            *)
Proper(v) ==
  /\ v.n \in Int
  /\ v.t = "boolean" => v.n \in {0, 1}
  /\ v.t = "string" => v.s \in Seq(Token \cup Int)

(* lua_isnumber, lua_tonumber *)
IsNumeric(v) ==
  v.t = "number" \/ (v.t = "string" /\ Len(v.s) = 1 /\ v.s[1] \notin Token)
Numeric(v) ==
  IF ~IsNumeric(v) THEN 0 ELSE IF v.t = "number" THEN v.n ELSE v.s[1]

Spec0(m, i) == [module |-> m, index |-> i, flag |-> 0]

(* Numbers of the machine: two's complement, bits as sets. *)
Unsigned(n, w) == n % 2^w
Signed(n, w) ==
  IF Unsigned(n, w) < 2^(w - 1) THEN Unsigned(n, w) ELSE Unsigned(n, w) - 2^w
Bits(n, w) == {i \in 0..(w - 1) : (n \div 2^i) % 2 = 1}
Numbers ==
  [b \in SUBSET (0..(Word - 1)) |->
     LET Sum[i \in 0..Word] ==
           IF i = 0 THEN 0 ELSE Sum[i - 1] + (IF i - 1 \in b THEN 2^(i - 1) ELSE 0)
     IN Sum[Word]]
Number(b) == Numbers[b]

-----------------------------------------------------------------------------
(* Two bits of the first byte tell how many bytes of type follow, or that  *)
(* it is a string; the others are the highest bits of the value.           *)
Room == 2^(Byte - 2)

(* encode_enum_v2: the highest bits of the value, and its bytes below.     *)
Digits[v \in Nat] ==
  IF v < Room THEN <<v>> ELSE Append(Digits[v \div 2^Byte], v % 2^Byte)

Encode(d) ==
  LET v    == IF d.v < 0 THEN -d.v ELSE d.v
      sign == IF d.v < 0 THEN 2^(2 * Byte - 1) ELSE 0
      i    == d.index + sign
      type == IF i = 0 THEN <<>>
              ELSE IF i < 2^Byte THEN <<i>>
              ELSE <<i \div 2^Byte, i % 2^Byte>>
  IN IF d.t = "string" THEN <<3 * Room, d.v>>
     ELSE <<Len(type) * Room + Digits[v][1]>> \o type \o Tail(Digits[v])

(* What the bytes behind the type add up to. *)
ValueOf(res, kind) ==
  LET Upto[i \in (kind + 1)..Len(res)] ==
        IF i = kind + 1 THEN res[1] % Room ELSE Upto[i - 1] * 2^Byte + res[i]
  IN Upto[Len(res)]

(* Mutant: the bit for the sign stays in the type. *)
Decode_SignKept(res) ==
  LET kind == res[1] \div Room
      type == IF kind = 0 THEN 0
              ELSE IF kind = 1 THEN res[2] ELSE res[2] * 2^Byte + res[3]
      val  == ValueOf(res, kind)
  IN IF kind = 3 THEN [t |-> "string", v |-> res[2], index |-> 0]
     ELSE [t |-> IF type = 0 THEN "number" ELSE "enum",
           v |-> Signed(IF type >= 2^(2 * Byte - 1) THEN -val ELSE val, IntBits),
           index |-> type]

(* _decode_constant_v2: val is an int, and what is shifted out of it lost.  *)
Decode(res) ==
  LET kind == res[1] \div Room
      type == IF kind = 0 THEN 0
              ELSE IF kind = 1 THEN res[2] ELSE res[2] * 2^Byte + res[3]
      val  == ValueOf(res, kind)
      neg  == type >= 2^(2 * Byte - 1)
      index == type % 2^(2 * Byte - 1)
  IN IF kind = 3 THEN [t |-> "string", v |-> res[2], index |-> 0]
     ELSE [t |-> IF index = 0 THEN "number" ELSE "enum",
           v |-> Signed(IF neg THEN -val ELSE val, IntBits), index |-> index]

(* There are 15 bits for the index of a type, and names for strings. *)
Encodable(d) ==
  \/ d.t = "string" /\ d.v \in Token
  \/ d.t = "number" /\ d.index = 0 /\ d.v \in Int
  \/ d.t = "enum" /\ d.index \in 1..(2^(2 * Byte - 1) - 1) /\ d.v \in Int

ASSUME ConstantsAssumption ==
  /\ Byte \in Nat /\ Byte >= 2
  /\ IntBits \in Nat \ {0} /\ Word \in Nat /\ IntBits <= Word
  /\ DOMAIN Declared \subseteq Nat
  /\ \A v \in Literal : Proper(v)
  /\ \A m \in DOMAIN Declared : \A n \in DOMAIN Declared[m] : Encodable(Declared[m][n])

(* The prover knows nothing of powers. *)
ASSUME PowersAssumption ==
  /\ Room \in Nat \ {0}
  /\ 2^Byte = 4 * Room
  /\ 2^(2 * Byte - 1) = 2 * Room * 2^Byte
  /\ 2^0 = 1 /\ \A i \in 0..Word : 2^(i + 1) = 2 * 2^i

(* The tables of the modules, as they are built. *)
Table == [m \in DOMAIN Declared |->
            [n \in DOMAIN Declared[m] |-> Encode(Declared[m][n])]]

-----------------------------------------------------------------------------
(* lg_find_constant in all modules: the first that has the name. *)
FirstIn(tables, n) ==
  LET ms == {m \in DOMAIN tables : n \in DOMAIN tables[m]} IN
    IF ms = {} THEN NULL ELSE Decode(tables[Min(ms)][n])

FindConstant(n) == FirstIn(Table, n)

(* lg_push_constant *)
FlagOf(ts) == LET k == <<ts.module, ts.index>> IN
                IF k \in DOMAIN Flag THEN Flag[k] ELSE 0

PushConstant(ts, n) ==
  IF ts.index = 0 THEN Error
  ELSE Enum([ts EXCEPT !.flag = FlagOf(ts)], Signed(n, IntBits))

(* What the program gets for a constant of module m: d.v is an int.        *)
Pushed(m, d) ==
  IF d.t = "enum" THEN PushConstant(Spec0(m, d.index), d.v)
  ELSE IF d.t = "number" THEN Num(d.v) ELSE Str(<<d.v>>)

(* What it should get: what was declared.  No constant is larger than an   *)
(* int: a #define like 0xffffffff, which the parser takes for a number     *)
(* without type, is the int with the same bits, and reads as -1.           *)
Ints == -(2^(IntBits - 1))..(2^(IntBits - 1) - 1)
AsInt(n) == IF n \in Ints THEN n ELSE Signed(n, IntBits)
AsDeclared(d) ==
  [t |-> d.t, v |-> IF d.t = "string" THEN d.v ELSE AsInt(d.v), index |-> d.index]

(* Mutant: the flag is compared, too. *)
TypeEqual_Flag(a, b) == a = b

(* lg_type_equal, lg_get_constant: an enum of the type, if one is given *)
TypeEqual(a, b) == [a EXCEPT !.flag = 0] = [b EXCEPT !.flag = 0]

GetConstant(v, ts) ==
  v.t = "enum" /\ (ts # NULL => TypeEqual(v.ts, ts))

-----------------------------------------------------------------------------
(* The outcome r of a metamethod or conversion; an error is caught. *)
Outcome(r, m) ==
  /\ x' = IF r \in {Error, Crash} THEN x ELSE r
  /\ meant' = IF r \in {Error, Crash} THEN meant ELSE m
  /\ fault' = (r = Crash)

Gives(r) == Outcome(r, r)

(* lg_generic_index for a name with a capital letter, with the prefix and  *)
(* without; if there is no such constant it goes on with functions.        *)
Spelled(m, n) == IF Prefixed[n] \in DOMAIN Table[m] THEN Prefixed[n] ELSE n

ReadConstant(m, n) ==
  /\ ~fault
  /\ Spelled(m, n) \in DOMAIN Table[m]
  /\ LET s == Spelled(m, n) IN
       Outcome(Pushed(m, Decode(Table[m][s])), Pushed(m, AsDeclared(Declared[m][s])))

Write(v) ==
  /\ ~fault
  /\ x' = v /\ meant' = v
  /\ UNCHANGED fault

(* enum_add_sub: at least one operand is an enum. *)
IsFlags(v) == v.t = "enum" => v.ts.flag = 2

Union(a, b)      == Number(Bits(a, IntBits) \cup Bits(b, IntBits))
Difference(a, b) == Number(Bits(a, IntBits) \ Bits(b, IntBits))

EnumAddSub(a, b, result) ==
  IF {a.t, b.t} \notin {{"enum"}, {"enum", "number"}} THEN Error
  ELSE IF a.t = b.t /\ a.ts # b.ts THEN Error
  ELSE IF ~IsFlags(a) \/ ~IsFlags(b)
       THEN IF a.t = "enum" THEN Error ELSE Crash
  ELSE PushConstant(IF a.t = "enum" THEN a.ts ELSE b.ts, result)

Arithmetic(y, r) ==
  /\ ~fault
  /\ "enum" \in {x.t, y.t}
  /\ Gives(r)

Add(y) == Arithmetic(y, EnumAddSub(x, y, Union(x.n, y.n)))
AddTo(y) == Arithmetic(y, EnumAddSub(y, x, Union(y.n, x.n)))
Subtract(y) == Arithmetic(y, EnumAddSub(x, y, Difference(x.n, y.n)))
SubtractFrom(y) == Arithmetic(y, EnumAddSub(y, x, Difference(y.n, x.n)))

(* enum_tonumber *)
ToNumber == x.t = "enum" /\ Arithmetic(x, Num(x.n))

(* enum_mod: have they a bit in common; b may be a string with a number.  *)
EnumMod(a, b) ==
  IF IsNumeric(b) THEN Bool(Bits(a.n, IntBits) \cap Bits(Numeric(b), IntBits) # {})
  ELSE IF ~GetConstant(b, NULL) \/ a.ts # b.ts THEN Error
  ELSE Bool(Bits(a.n, IntBits) \cap Bits(b.n, IntBits) # {})

Test(y) == x.t = "enum" /\ Arithmetic(y, EnumMod(x, y))

(* enum_eq: types that differ cannot be compared. *)
EnumEq(a, b) == IF a.ts # b.ts THEN Error ELSE Bool(a.n = b.n)

Compare(y) == x.t = "enum" /\ y.t = "enum" /\ Arithmetic(y, EnumEq(x, y))

-----------------------------------------------------------------------------
(* A constant, once encoded, decoded and perhaps found with another        *)
(* prefix, is what it was declared as: kind, sign, type, and the very      *)
(* value if an int can hold it, at the limits of the encoding, too.  A     *)
(* larger one (2^31 for an int of 32 bits, or more) is cut to an int by    *)
(* _decode_constant_v2, no more and no less: it has the same low bits.     *)
ConstantsExact == x = meant
=============================================================================
