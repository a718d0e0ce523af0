------------------------------ MODULE MCValues ------------------------------
(* Instance of Values for TLC: bytes of three bits, ints of six, longs of  *)
(* nine; constants on both sides of every limit of the encoding.           *)
EXTENDS Values

CONSTANTS STATE_A, STATE_B, STATE_C, KIND_NO, KIND_YES, COUNT, PATH, MODE,
          phrase, letter

MCToken == {STATE_A, STATE_B, STATE_C, KIND_NO, KIND_YES, COUNT, PATH, MODE,
            True, False, phrase, letter}

Number0(n)  == [t |-> "number", v |-> n, index |-> 0]
Typed(i, n) == [t |-> "enum", v |-> n, index |-> i]

(* Flags are type 1 of the first module, an enum its type 8; an enum that  *)
(* GObject does not know is type 31, the last one, of the second module.   *)
MCLimits == {-32, -31, -17, -16, -15, -2, -1, 0, 1, 2, 14, 15, 16, 31, 32, 63}
MCWide == {-64, -33, 64, 95, 96, 127, 128}  \* more than an int can hold, as
                                           \* 32..63 are
MCNumbered == ({0, 31} \X (-32..63)) \cup ({1, 7, 8, 30} \X MCLimits)
              \cup ({0, 8} \X MCWide)

MCDeclared ==
  <<STATE_A :> Typed(1, 1) @@ STATE_B :> Typed(1, 6)
      @@ STATE_C :> Typed(1, -32)
      @@ KIND_NO :> Typed(8, -1) @@ KIND_YES :> Typed(8, 3)
      @@ COUNT :> Number0(-9)
      @@ [n \in MCNumbered |->
            IF n[1] = 0 THEN Number0(n[2]) ELSE Typed(n[1], n[2])],
    MODE :> Typed(31, 2) @@ STATE_B :> Number0(5)
      @@ PATH :> [t |-> "string", v |-> phrase, index |-> 0]>>

MCPrefixed ==
  [n \in MCToken \cup MCNumbered |-> IF n = letter THEN STATE_C ELSE n]
MCFlag == <<1, 1>> :> 2 @@ <<1, 8>> :> 1

MCLiteral == {Num(0), Num(2), Num(-31), Num(66), Bool(TRUE), Nil,
              Str(<<1>>), Str(<<STATE_A, STATE_B>>), Str(<<letter>>),
              Str(<<PATH>>), Str(<<True>>)}

CONSTANTS resize, mode, level, relief, size, name

MCField == {resize, mode, level, relief, size, name}
MCKind == [f \in MCField |->
  IF f = relief THEN "enum" ELSE IF f = size THEN "double"
  ELSE IF f = name THEN "char_ptr" ELSE "long"]
MCOfs == resize :> 0 @@ mode :> 1 @@ level :> 4 @@ relief :> 12 @@ size :> 18
         @@ name :> 27
MCSize == resize :> 1 @@ mode :> 2 @@ level :> 4 @@ relief :> 6 @@ size :> 9
          @@ name :> 9
MCFieldType == [f \in MCField |-> Spec0(1, 8)]
MCPadding == {3, 11, 37}
MCLibrary == {<<relief, {0, 1, 2, 3, 4, 5}>>, <<level, {0, 3}>>, <<resize, {0}>>}

CONSTANTS sensitive, digits, count, long, align, state, label, ratio, image,
          raw, column, other, window, button

MCProp == {sensitive, digits, count, long, align, state, label, ratio, image,
           raw}
MCGType == [p \in MCProp \cup {column} |->
  CASE p = sensitive -> "boolean" [] p = digits -> "int"
    [] p = count -> "uint" [] p = long -> "long" [] p = align -> "enum"
    [] p = state -> "flags" [] p = label -> "string" [] p = ratio -> "double"
    [] p = image -> "object" [] p = raw -> "enum" [] p = column -> "string"]
MCGSpec == [p \in MCProp \cup {column} |->
  IF p = align THEN Spec0(1, 8) ELSE IF p = state THEN Spec0(1, 1) ELSE NULL]
MCClass == window :> "Window" @@ button :> "Button"
MCGClass == [p \in MCProp \cup {column} |-> "Window"]
MCSets == {<<digits, Num(-1)>>, <<count, Num(63)>>, <<align, Num(-1)>>,
           <<label, Nil>>, <<label, Str(<<phrase>>)>>, <<image, Obj(button)>>,
           <<state, Num(-32)>>}

CONSTANTS echo_bool, echo_int, echo_uint, echo_long, echo_enum, echo_double,
          echo_text, echo_widget, out_int, out_uint, out_bool, out_enum,
          out_double

MCFunction == {echo_bool, echo_int, echo_uint, echo_long, echo_enum,
               echo_double, echo_text, echo_widget, out_int, out_uint,
               out_bool, out_enum, out_double}
MCArgType ==
  echo_bool :> "bool" @@ echo_int :> "int" @@ echo_uint :> "uint"
  @@ echo_long :> "long" @@ echo_enum :> "enum" @@ echo_double :> "double"
  @@ echo_text :> "char*" @@ echo_widget :> "struct*" @@ out_int :> "int*"
  @@ out_uint :> "uint*" @@ out_bool :> "bool*" @@ out_enum :> "enum*"
  @@ out_double :> "double*"
MCArgSpec == [f \in MCFunction |-> Spec0(1, 8)]
MCArgClass == [f \in MCFunction |-> "Widget"]
MCIsA == {<<c, "Widget">> : c \in {"Window", "Button"}}
MCCalls == {<<echo_int, -1>>, <<echo_bool, 1>>, <<echo_enum, -1>>,
            <<echo_int, 31>>}

MCPrograms ==
  {{n} : n \in MCNumbered} \cup
  {{STATE_A, STATE_B, STATE_C, KIND_NO}, {STATE_A, letter, MODE, COUNT},
   {STATE_B, PATH, KIND_YES},
   {resize, mode, STATE_A}, {resize, level, STATE_C}, {resize, relief, KIND_NO},
   {relief, align, KIND_NO}, {mode, size, KIND_YES}, {name, resize},
   {name, COUNT}, {label, PATH}, {state, STATE_A, STATE_B},
   {relief, digits, KIND_NO}, {relief, raw, KIND_YES}, {level, long},
   {resize, count, KIND_NO}, {sensitive, ratio, STATE_A},
   {image, column, COUNT},
   {echo_bool, echo_text, out_bool, sensitive}, {echo_int, echo_uint, STATE_C},
   {echo_long, out_uint, STATE_C}, {echo_enum, out_enum, align, MODE},
   {echo_double, out_double, size}, {out_int, long, COUNT},
   {echo_widget, image}}
=============================================================================
