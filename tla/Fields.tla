------------------------------- MODULE Fields -------------------------------
(***************************************************************************)
(* Fields of structures (src/gnome/types.c, struct2lua and lua2struct).    *)
(* A field is some bits at a bit offset.  Whole bytes are copied; other    *)
(* fields are read as a long from the byte where they begin, shifted and   *)
(* masked, and written by replacing their bits in such a long.             *)
(***************************************************************************)
EXTENDS Constants

CONSTANTS
  Field,      (* the fields of the structure                               *)
  Kind,       (* how they are converted: long, enum, double or char_ptr    *)
  Ofs, Size,  (* where they begin, and their bits                          *)
  FieldType,  (* the typespecs of enum fields                              *)
  Padding,    (* bits that are set in the memory around the fields         *)
  Library,    (* what the library assigns: pairs of a field and bits       *)
  MaxCopies   (* bound: strings copied                                     *)

ASSUME WidthsAssumption ==
  /\ Byte \in Nat \ {0} /\ Word \in Nat \ {0}
  /\ Word % Byte = 0

(* Bit fields lie within a word from the byte where they begin, and the    *)
(* structure is no union; an enum is an int at most, a pointer a word,     *)
(* which all copies of strings fit into.                                   *)
Place(f) == Ofs[f]..(Ofs[f] + Size[f] - 1)

ASSUME FieldsAssumption ==
  /\ Ofs \in [Field -> Nat] /\ Size \in [Field -> Nat \ {0}]
  /\ Kind \in [Field -> {"long", "enum", "double", "char_ptr"}]
  /\ \A f \in Field : (Ofs[f] % Byte) + Size[f] <= Word
  /\ \A f, g \in Field : f # g => Place(f) \cap Place(g) = {}
  /\ \A f \in Field : Padding \cap Place(f) = {}
  /\ \A f \in Field : Kind[f] = "enum" => Size[f] <= IntBits /\ FieldType[f].index # 0
  /\ \A f \in Field : Kind[f] = "char_ptr" => Size[f] = Word /\ MaxCopies < 2^Word
  /\ MaxCopies \in Nat
  /\ Padding \subseteq Nat
  /\ Library \subseteq {f \in Field : Kind[f] # "char_ptr"} \X SUBSET Nat

VARIABLES
  memory,   (* the bits that are set                                       *)
  copies,   (* copies of strings; the address of a copy is its position    *)
  assigned  (* the bits last assigned to each field                        *)

fieldVars == <<memory, copies, assigned>>

FieldsInit ==
  /\ memory = Padding
  /\ copies = <<>>
  /\ assigned = [f \in Field |-> {}]

-----------------------------------------------------------------------------
Shift(f)   == Ofs[f] % Byte
Base(f)    == Ofs[f] - Shift(f)
Aligned(f) == Shift(f) = 0 /\ Size[f] % Byte = 0

(* get_bits_unaligned: a long from the first byte on, shifted and masked *)
GetUnaligned(f) ==
  LET word == {i \in 0..(Word - 1) : Base(f) + i \in memory}
      val  == {i \in 0..(Word - 1) : i + Shift(f) \in word}
  IN IF Size[f] < Word THEN val \cap 0..(Size[f] - 1) ELSE val

(* get_bits_long *)
GetBits(f) ==
  IF Aligned(f) THEN {i \in 0..(Size[f] - 1) : Ofs[f] + i \in memory}
  ELSE GetUnaligned(f)

(* Mutant: the value is not masked. *)
SetBits_Unmasked(f, val) ==
  LET mask == {i \in 0..(Word - 1) : i >= Shift(f) /\ i < Shift(f) + Size[f]}
      all  == {i \in 0..(Word - 1) : i >= Shift(f)}
      word == {i \in 0..(Word - 1) : Base(f) + i \in memory}
      new  == (word \ mask) \cup {i \in all : i - Shift(f) \in val}
      here == Base(f)..(Base(f) + Word - 1)
  IN IF Size[f] + Shift(f) > Word THEN memory
     ELSE (memory \ here) \cup {Base(f) + i : i \in new}

(* set_bits: the long with the bits under the mask replaced *)
SetBits(f, val) ==
  LET mask == {i \in 0..(Word - 1) : i >= Shift(f) /\ i < Shift(f) + Size[f]}
      word == {i \in 0..(Word - 1) : Base(f) + i \in memory}
      new  == (word \ mask) \cup {i \in mask : i - Shift(f) \in val}
      here == Base(f)..(Base(f) + Word - 1)
  IN IF Size[f] + Shift(f) > Word THEN memory
     ELSE (memory \ here) \cup {Base(f) + i : i \in new}

(* set_bits_long: memcpy *)
SetBitsLong(f, val) ==
  (memory \ Place(f)) \cup {i \in Place(f) : i - Ofs[f] \in val}

-----------------------------------------------------------------------------
(* What the bits b of a field mean; a double is one of as many numbers as  *)
(* its bits can tell apart.                                                *)
StructLong(b)    == Num(Number(b))
StructEnum(f, b) == PushConstant(FieldType[f], Number(b))
StructDouble(b)  == Num(Signed(Number(b), Word))
StructCharPtr(b) == IF b = {} THEN Nil ELSE Str(copies[Number(b)])

Struct2Lua(f, b) ==
  IF Kind[f] = "long" THEN StructLong(b)
  ELSE IF Kind[f] = "enum" THEN StructEnum(f, b)
  ELSE IF Kind[f] = "double" THEN StructDouble(b)
  ELSE StructCharPtr(b)

ReadField(f) ==
  /\ ~fault
  /\ Gives(Struct2Lua(f, GetBits(f)))
  /\ UNCHANGED fieldVars

(* _tonumber *)
IsToNumber(v) == v.t \in {"number", "boolean", "enum"}

Assigns(f, m, b) ==
  /\ memory' = m
  /\ assigned' = [assigned EXCEPT ![f] = {i \in b : i < Size[f]}]
  /\ UNCHANGED constVars

(* What cannot be converted raises an error, and nothing changes. *)
WriteLong(f) ==                                       (* lua2struct_long   *)
  LET b == Bits(x.n, Word) IN
    /\ ~fault
    /\ Kind[f] = "long" /\ IsToNumber(x)
    /\ Assigns(f, SetBits(f, b), b)
    /\ UNCHANGED copies

WriteEnum(f) ==                                       (* lua2struct_enum   *)
  LET b == Bits(x.n, Word) IN
    /\ ~fault
    /\ Kind[f] = "enum" /\ GetConstant(x, FieldType[f])
    /\ Assigns(f, SetBits(f, b), b)
    /\ UNCHANGED copies

(* lua2struct_double: anything that is no number is taken for zero *)
WriteDouble(f) ==
  LET b == Bits(Numeric(x), Word) IN
    /\ ~fault
    /\ Kind[f] = "double" /\ Aligned(f)
    /\ Assigns(f, SetBitsLong(f, b), b)
    /\ UNCHANGED copies

(* lua2struct_char_ptr: a copy, which is never freed *)
WriteCharPtr(f) ==
  LET b == Bits(Len(copies) + 1, Word) IN
    /\ ~fault /\ Len(copies) < MaxCopies
    /\ Kind[f] = "char_ptr" /\ Aligned(f)
    /\ x.t \in {"string", "number"}
    /\ copies' = Append(copies, IF x.t = "number" THEN <<x.n>> ELSE x.s)
    /\ Assigns(f, SetBitsLong(f, b), b)

WriteField(f) ==
  WriteLong(f) \/ WriteEnum(f) \/ WriteDouble(f) \/ WriteCharPtr(f)

(* The library assigns to a field of its structure. *)
LibraryWrites(f, b) ==
  /\ ~fault
  /\ Assigns(f, SetBitsLong(f, b), b)
  /\ UNCHANGED copies

-----------------------------------------------------------------------------
(* Reading and writing fields of any offset and size: each field has the   *)
(* bits that were last assigned to it, cut to its size, and nothing around *)
(* the fields has changed.                                                 *)
FieldsKept ==
  /\ \A f \in Field : GetBits(f) = assigned[f]
  /\ memory \ UNION {Place(f) : f \in Field} = Padding
=============================================================================
