---------------------------- MODULE ValuesProofs ----------------------------
(***************************************************************************)
(* Fields of structures keep what was assigned to them, for any layout;    *)
(* GValues and properties own exactly what they hold; constants are        *)
(* decoded as they were declared; and values survive the way to C and      *)
(* back: a machine number is the sum of its bits, and signed, unsigned and *)
(* signed again is what it was.                                            *)
(***************************************************************************)
EXTENDS Values, FiniteSetTheorems, WellFoundedInduction, TLAPS

(* Where a field begins: a shift within the byte at its base. *)
LEMMA Begins ==
  ASSUME NEW f \in Field
  PROVE  /\ Shift(f) \in Nat /\ Base(f) \in Nat
         /\ Ofs[f] \in Nat /\ Size[f] \in Nat \ {0} /\ Word \in Nat
         /\ Ofs[f] = Base(f) + Shift(f)
         /\ Shift(f) + Size[f] <= Word
<1>1. /\ Ofs[f] \in Nat /\ Size[f] \in Nat \ {0} /\ Word \in Nat
      /\ Byte \in Nat \ {0}
      /\ (Ofs[f] % Byte) + Size[f] <= Word
  BY WidthsAssumption, FieldsAssumption
<1>2. Ofs[f] % Byte \in Nat /\ Ofs[f] % Byte <= Ofs[f]
  BY <1>1
<1>3. Ofs[f] - (Ofs[f] % Byte) \in Nat
      /\ Ofs[f] = (Ofs[f] - (Ofs[f] % Byte)) + (Ofs[f] % Byte)
  <2> DEFINE o == Ofs[f]
             k == Ofs[f] % Byte
  <2>1. o \in Nat /\ k \in Nat /\ k <= o
    BY <1>1, <1>2
  <2> HIDE DEF o, k
  <2>2. o - k \in Nat /\ o = (o - k) + k
    BY <2>1
  <2> QED
    BY <2>2 DEF o, k
<1> QED
  BY <1>1, <1>2, <1>3 DEF Shift, Base

(* Reading: both ways of reading give the bits in the field's place. *)
LEMMA GetsPlace ==
  ASSUME NEW f \in Field
  PROVE  GetBits(f) = {i \in 0..(Size[f] - 1) : Ofs[f] + i \in memory}
<1>1. CASE Aligned(f)
  BY <1>1 DEF GetBits
<1>2. CASE ~Aligned(f)
  <2> DEFINE word == {i \in 0..(Word - 1) : Base(f) + i \in memory}
             val  == {i \in 0..(Word - 1) : i + Shift(f) \in word}
             here == {i \in 0..(Size[f] - 1) : Ofs[f] + i \in memory}
  <2>1. GetBits(f) = IF Size[f] < Word THEN val \cap 0..(Size[f] - 1) ELSE val
    BY <1>2 DEF GetBits, GetUnaligned
  <2>2. \A i \in 0..(Size[f] - 1) :
           i \in 0..(Word - 1) /\ i + Shift(f) \in 0..(Word - 1)
    BY Begins
  <2>3. \A i \in 0..(Size[f] - 1) : Base(f) + (i + Shift(f)) = Ofs[f] + i
    BY Begins
  <2>4. \A i \in 0..(Size[f] - 1) : i \in val <=> i \in here
    BY <2>2, <2>3
  <2>5. ~(Size[f] < Word) => val \subseteq 0..(Size[f] - 1)
    BY Begins
  <2>6. val \cap 0..(Size[f] - 1) = here
    BY <2>4
  <2> QED
    BY <2>1, <2>5, <2>6
<1> QED
  BY <1>1, <1>2

(* Writing: both ways replace what is in the field's place, only. *)
LEMMA SetsPlace ==
  ASSUME memory \subseteq Nat, NEW f \in Field, NEW val
  PROVE  SetBits(f, val) = SetBitsLong(f, val)
<1> DEFINE mask == {i \in 0..(Word - 1) :
                      i >= Shift(f) /\ i < Shift(f) + Size[f]}
           word == {i \in 0..(Word - 1) : Base(f) + i \in memory}
           new  == (word \ mask) \cup {i \in mask : i - Shift(f) \in val}
           here == Base(f)..(Base(f) + Word - 1)
<1>1. SetBits(f, val) = (memory \ here) \cup {Base(f) + i : i \in new}
  <2>1. ~(Size[f] + Shift(f) > Word)
    BY Begins
  <2> QED
    BY <2>1 DEF SetBits
<1>2. ASSUME NEW j \in Nat
      PROVE  j \in {Base(f) + i : i \in new} <=>
               j \in here /\ j - Base(f) \in new
  <2>1. new \subseteq 0..(Word - 1)
    OBVIOUS
  <2>2. \A i \in new : Base(f) + i \in here /\ (Base(f) + i) - Base(f) = i
    BY <2>1, Begins
  <2>3. j \in here => j = Base(f) + (j - Base(f))
    BY Begins
  <2> HIDE DEF new, here
  <2> QED
    BY <2>2, <2>3
<1>3. ASSUME NEW j \in Nat, j \in here
      PROVE  /\ j - Base(f) \in 0..(Word - 1)
             /\ j - Base(f) \in mask <=> j \in Place(f)
             /\ (j - Base(f)) - Shift(f) = j - Ofs[f]
             /\ Base(f) + (j - Base(f)) = j
  BY <1>3, Begins DEF Place
<1>4. Place(f) \subseteq here /\ Place(f) \subseteq Nat
  BY Begins DEF Place
<1>5. ASSUME NEW j \in Nat
      PROVE  j \in SetBits(f, val) <=> j \in SetBitsLong(f, val)
  <2>1. CASE j \notin here
    BY <2>1, <1>1, <1>2, <1>4 DEF SetBitsLong
  <2>2. CASE j \in here
    <3>1. j - Base(f) \in new <=>
            IF j \in Place(f) THEN j - Ofs[f] \in val ELSE j \in memory
      BY <2>2, <1>3
    <3> HIDE DEF new, here
    <3> QED
      BY <3>1, <2>2, <1>1, <1>2 DEF SetBitsLong
  <2> QED
    BY <2>1, <2>2
<1>6. SetBits(f, val) \subseteq Nat
  <2>1. \A i \in new : Base(f) + i \in Nat
    BY Begins
  <2> HIDE DEF new, here
  <2> QED
    BY <2>1, <1>1
<1>7. SetBitsLong(f, val) \subseteq Nat
  BY <1>4 DEF SetBitsLong
<1> QED
  BY <1>5, <1>6, <1>7

-----------------------------------------------------------------------------
(* The inductive invariant: FieldsKept bit by bit. *)
Kept ==
  /\ memory \subseteq Nat
  /\ assigned \in [Field -> SUBSET Nat]
  /\ \A f \in Field : \A i \in Nat :
       i \in assigned[f] <=> i < Size[f] /\ Ofs[f] + i \in memory
  /\ memory \ UNION {Place(f) : f \in Field} = Padding

LEMMA KeptEnough == Kept => FieldsKept
<1> SUFFICES ASSUME Kept
             PROVE  FieldsKept
  OBVIOUS
<1>1. ASSUME NEW f \in Field
      PROVE  GetBits(f) = assigned[f]
  <2>1. \A i : i \in 0..(Size[f] - 1) <=> i \in Nat /\ i < Size[f]
    BY Begins
  <2>2. assigned[f] \subseteq Nat
    BY DEF Kept
  <2> QED
    BY <2>1, <2>2, GetsPlace DEF Kept
<1> QED
  BY <1>1 DEF FieldsKept, Kept

(* An assignment of bits to a field, in either of the two ways. *)
LEMMA AssignsKeeps ==
  ASSUME Kept, NEW f \in Field, NEW b \in SUBSET Nat,
         Assigns(f, SetBitsLong(f, b), b)
  PROVE  Kept'
<1> DEFINE low == {i \in b : i < Size[f]}
<1>1. /\ memory' = SetBitsLong(f, b)
      /\ assigned' = [assigned EXCEPT ![f] = low]
  BY DEF Assigns
<1>2. \A g \in Field : Place(g) \subseteq Nat
  BY Begins DEF Place
<1>3. \A j : j \in memory' <=>
         IF j \in Place(f) THEN j - Ofs[f] \in b ELSE j \in memory
  BY <1>1 DEF SetBitsLong
<1>4. memory' \subseteq Nat
  BY <1>2, <1>3 DEF Kept
<1>5. assigned' \in [Field -> SUBSET Nat]
  BY <1>1 DEF Kept
<1>6. ASSUME NEW g \in Field, NEW i \in Nat
      PROVE  i \in assigned'[g] <=> i < Size[g] /\ Ofs[g] + i \in memory'
  <2>1. CASE g = f
    <3>1. assigned'[g] = low
      BY <1>1, <2>1 DEF Kept
    <3>2. i < Size[f] => Ofs[f] + i \in Place(f) /\ (Ofs[f] + i) - Ofs[f] = i
      BY Begins DEF Place
    <3> QED
      BY <3>1, <3>2, <1>3, <2>1
  <2>2. CASE g # f
    <3>1. assigned'[g] = assigned[g]
      BY <1>1, <2>2 DEF Kept
    <3>2. i < Size[g] => Ofs[g] + i \in Place(g)
      BY Begins DEF Place
    <3>3. Place(f) \cap Place(g) = {}
      BY <2>2, FieldsAssumption
    <3>4. i < Size[g] => (Ofs[g] + i \in memory' <=> Ofs[g] + i \in memory)
      BY <3>2, <3>3, <1>3
    <3> QED
      BY <3>1, <3>4 DEF Kept
  <2> QED
    BY <2>1, <2>2
<1>7. memory' \ UNION {Place(g) : g \in Field} = Padding
  <2>1. Place(f) \subseteq UNION {Place(g) : g \in Field}
    OBVIOUS
  <2> QED
    BY <2>1, <1>3 DEF Kept
<1> QED
  BY <1>4, <1>5, <1>6, <1>7 DEF Kept, Place

LEMMA InitKept == Init => Kept
<1> SUFFICES ASSUME Init
             PROVE  Kept
  OBVIOUS
<1>1. memory = Padding /\ assigned = [f \in Field |-> {}]
  BY DEF Init, FieldsInit
<1>2. ASSUME NEW f \in Field, NEW i \in Nat, i < Size[f]
      PROVE  Ofs[f] + i \notin memory
  <2>1. Ofs[f] + i \in Place(f)
    BY <1>2, Begins DEF Place
  <2> QED
    BY <1>1, <2>1, FieldsAssumption
<1>3. memory \ UNION {Place(f) : f \in Field} = Padding
  BY <1>1, FieldsAssumption
<1> QED
  BY <1>1, <1>2, <1>3, FieldsAssumption DEF Kept

LEMMA NextKept == Kept /\ [Next]_vars => Kept'
<1> SUFFICES ASSUME Kept, [Next]_vars
             PROVE  Kept'
  OBVIOUS
<1>0. Word \in Nat /\ memory \subseteq Nat
  BY WidthsAssumption DEF Kept
<1>1. ASSUME UNCHANGED <<memory, assigned>>
      PROVE  Kept'
  BY <1>1 DEF Kept, Place
<1>2. ASSUME NEW n
      PROVE  Bits(n, Word) \in SUBSET Nat
  BY <1>0 DEF Bits
<1>3. ASSUME NEW f \in Field, WriteLong(f)
      PROVE  Kept'
  BY <1>0, <1>2, <1>3, SetsPlace, AssignsKeeps DEF WriteLong
<1>4. ASSUME NEW f \in Field, WriteEnum(f)
      PROVE  Kept'
  BY <1>0, <1>2, <1>4, SetsPlace, AssignsKeeps DEF WriteEnum
<1>5. ASSUME NEW f \in Field, WriteDouble(f)
      PROVE  Kept'
  BY <1>2, <1>5, AssignsKeeps DEF WriteDouble
<1>6. ASSUME NEW f \in Field, WriteCharPtr(f)
      PROVE  Kept'
  BY <1>2, <1>6, AssignsKeeps DEF WriteCharPtr
<1>7. ASSUME NEW w \in Library, LibraryWrites(w[1], w[2])
      PROVE  Kept'
  <2>1. w[1] \in Field /\ w[2] \in SUBSET Nat
    BY FieldsAssumption
  <2> QED
    BY <1>7, <2>1, AssignsKeeps DEF LibraryWrites
<1>8. ASSUME Accesses
      PROVE  Kept'
  BY <1>8, <1>1, <1>3, <1>4, <1>5, <1>6, <1>7
  DEF Accesses, ReadField, WriteField, fieldVars
<1> QED
  BY <1>1, <1>8 DEF Next, vars, fieldVars

(* Every field of a structure has the bits that were last assigned to it,  *)
(* cut to its size, and the memory around the fields is as it was, for any *)
(* number of fields of any offset and size that fit into a word from the   *)
(* byte where they begin (set_bits, get_bits_unaligned).                   *)
THEOREM FieldsStay == Spec => []FieldsKept
<1>1. Init => Kept
  BY InitKept
<1>2. Kept /\ [Next]_vars => Kept'
  BY NextKept
<1>3. Kept => FieldsKept
  BY KeptEnough
<1> QED
  BY <1>1, <1>2, <1>3, PTL DEF Spec

-----------------------------------------------------------------------------
(***************************************************************************)
(* What GValues and properties own.                                        *)
(***************************************************************************)
LEMMA ObjectsDiffer ==
  ASSUME NEW o, NEW q, Obj(o) = Obj(q)
  PROVE  o = q
<1>1. Obj(o).s = <<o>> /\ Obj(q).s = <<q>>
  BY DEF Obj, Value
<1>2. <<o>> = <<q>>
  BY <1>1
<1> QED BY <1>2

(* The slots that hold a string, and those that hold the object o. *)
Texts(g)      == {p \in Slot : g[p].t = "string"}
Holding(g, o) == {p \in Slot : g[p] = Obj(o)}

(* The state st, and a GValue beside it that owns d, have all that is owned. *)
Balance(st, d) ==
  /\ st = [props |-> st.props, strings |-> st.strings, refs |-> st.refs, out |-> st.out]
  /\ DOMAIN st.props = Slot /\ \A p \in Slot : Whole(st.props[p])
  /\ st.refs \in [Object -> Int]
  /\ st.strings = Cardinality(Texts(st.props)) + (IF d.t = "string" THEN 1 ELSE 0)
  /\ \A o \in Object :
       st.refs[o] = 1 + Cardinality(Holding(st.props, o)) + (IF d = Obj(o) THEN 1 ELSE 0)

LEMMA SlotsFinite ==
  ASSUME NEW g
  PROVE  /\ IsFiniteSet(Texts(g)) /\ Cardinality(Texts(g)) \in Nat
         /\ \A o : IsFiniteSet(Holding(g, o)) /\ Cardinality(Holding(g, o)) \in Nat
<1>1. IsFiniteSet(Slot)
  BY GValuesAssumption, FS_Union DEF Slot
<1>2. Texts(g) \in SUBSET Slot /\ \A o : Holding(g, o) \in SUBSET Slot
  BY DEF Texts, Holding
<1>3. IsFiniteSet(Texts(g)) /\ \A o : IsFiniteSet(Holding(g, o))
  BY <1>1, <1>2, FS_Subset
<1> QED BY <1>3, FS_CardinalityType

(* One slot gets other contents. *)
LEMMA OneMember ==
  ASSUME NEW S, NEW T, IsFiniteSet(S), IsFiniteSet(T), NEW p,
         \A q : q # p => (q \in S <=> q \in T)
  PROVE  Cardinality(T) - (IF p \in T THEN 1 ELSE 0)
           = Cardinality(S) - (IF p \in S THEN 1 ELSE 0)
<1>1. Cardinality(S) \in Nat /\ Cardinality(T) \in Nat
  BY FS_CardinalityType
<1>2. CASE p \in S <=> p \in T
  <2>1. S = T
    BY <1>2
  <2> QED BY <1>2, <2>1
<1>3. CASE p \in S /\ p \notin T
  <2>1. T = S \ {p}
    BY <1>3
  <2>2. Cardinality(T) = Cardinality(S) - 1
    BY <1>3, <2>1, FS_RemoveElement
  <2> QED BY <1>1, <1>3, <2>2
<1>4. CASE p \notin S /\ p \in T
  <2>1. T = S \cup {p}
    BY <1>4
  <2>2. Cardinality(T) = Cardinality(S) + 1
    BY <1>4, <2>1, FS_AddElement
  <2> QED BY <1>1, <1>4, <2>2
<1> QED BY <1>2, <1>3, <1>4

(* What Owned changes, by the kind of the value. *)
LEMMA OwnedIs ==
  ASSUME NEW st, NEW c, Whole(c), NEW k \in Int,
         st = [props |-> st.props, strings |-> st.strings, refs |-> st.refs, out |-> st.out],
         st.refs \in [Object -> Int], st.strings \in Int,
         NEW u, u = Owned(st, c, k)
  PROVE  /\ u = [props |-> u.props, strings |-> u.strings, refs |-> u.refs, out |-> u.out]
         /\ u.props = st.props /\ u.out = st.out
         /\ u.refs \in [Object -> Int] /\ u.strings \in Int
         /\ u.strings = st.strings + (IF c.t = "string" THEN k ELSE 0)
         /\ \A o \in Object : u.refs[o] = st.refs[o] + (IF c = Obj(o) THEN k ELSE 0)
<1>1. \A o : Obj(o).t = "object" /\ Obj(o).s[1] = o
  BY DEF Obj, Value
<1>2. CASE c.t = "string"
  <2>1. u = [st EXCEPT !.strings = @ + k]
    BY <1>2 DEF Owned
  <2>2. \A o \in Object : c # Obj(o)
    BY <1>1, <1>2
  <2> QED BY <1>2, <2>1, <2>2
<1>3. CASE c.t = "object"
  <2>1. PICK q \in Object : c = Obj(q)
    BY <1>3 DEF Whole
  <2>2. c.s[1] = q
    BY <1>1, <2>1
  <2>3. u = [st EXCEPT !.refs[q] = @ + k]
    BY <1>3, <2>2 DEF Owned
  <2>4. u.refs = [st.refs EXCEPT ![q] = @ + k]
    BY <2>3
  <2>5. \A o \in Object : c = Obj(o) <=> o = q
    BY <2>1, ObjectsDiffer
  <2>6. \A o \in Object : u.refs[o] = st.refs[o] + (IF c = Obj(o) THEN k ELSE 0)
    BY <2>4, <2>5
  <2>7. u.refs \in [Object -> Int]
    BY <2>4
  <2>8. /\ u = [props |-> u.props, strings |-> u.strings, refs |-> u.refs, out |-> u.out]
        /\ u.props = st.props /\ u.out = st.out /\ u.strings = st.strings
    BY <2>3
  <2> QED BY <1>3, <2>6, <2>7, <2>8
<1>4. CASE c.t # "string" /\ c.t # "object"
  <2>1. u = st
    BY <1>4 DEF Owned
  <2>2. \A o \in Object : c # Obj(o)
    BY <1>1, <1>4
  <2> QED BY <1>4, <2>1, <2>2
<1> QED BY <1>2, <1>3, <1>4

LEMMA NilFacts == Nil.t = "nil" /\ Whole(Nil) /\ (\A o : Nil # Obj(o))
BY DEF Nil, Obj, Value, Whole

LEMMA FillBalance ==
  ASSUME NEW st, Balance(st, Nil), NEW c, Whole(c), NEW u, u = Fill(st, c)
  PROVE  Balance(u, c) /\ u.props = st.props /\ u.out = st.out
<1>1. u = Owned(st, c, 1) /\ 1 \in Int
  BY DEF Fill
<1>2. st.strings \in Int
  BY SlotsFinite DEF Balance
<1> QED BY <1>1, <1>2, OwnedIs, NilFacts, SlotsFinite DEF Balance

LEMMA UnsetBalance ==
  ASSUME NEW st, NEW c, Balance(st, c), Whole(c), NEW u, u = Unset(st, c)
  PROVE  Balance(u, Nil) /\ u.props = st.props /\ u.out = st.out
<1>1. u = Owned(st, c, -1) /\ -1 \in Int
  BY DEF Unset
<1>2. st.strings \in Int
  BY SlotsFinite DEF Balance
<1> QED BY <1>1, <1>2, OwnedIs, NilFacts, SlotsFinite DEF Balance

LEMMA SetPropertyBalance ==
  ASSUME NEW st, NEW d, Balance(st, d), NEW p \in Slot, NEW c, Whole(c),
         NEW u, u = SetProperty(st, p, c)
  PROVE  Balance(u, d) /\ u.out = st.out /\ u.props = [st.props EXCEPT ![p] = c]
<1>1. PICK a : a = Owned(st, c, 1)
  OBVIOUS
<1>2. PICK old : old = st.props[p]
  OBVIOUS
<1>3. PICK b : b = Owned(a, old, -1)
  OBVIOUS
<1>4. st.strings \in Int /\ 1 \in Int /\ -1 \in Int /\ Whole(old)
  BY <1>2, SlotsFinite DEF Balance
<1>5. /\ a = [props |-> a.props, strings |-> a.strings, refs |-> a.refs, out |-> a.out]
      /\ a.props = st.props /\ a.out = st.out
      /\ a.refs \in [Object -> Int] /\ a.strings \in Int
      /\ a.strings = st.strings + (IF c.t = "string" THEN 1 ELSE 0)
      /\ \A o \in Object : a.refs[o] = st.refs[o] + (IF c = Obj(o) THEN 1 ELSE 0)
  BY <1>1, <1>4, OwnedIs DEF Balance
<1>6. /\ b = [props |-> b.props, strings |-> b.strings, refs |-> b.refs, out |-> b.out]
      /\ b.props = st.props /\ b.out = st.out
      /\ b.refs \in [Object -> Int] /\ b.strings \in Int
      /\ b.strings = a.strings + (IF old.t = "string" THEN -1 ELSE 0)
      /\ \A o \in Object : b.refs[o] = a.refs[o] + (IF old = Obj(o) THEN -1 ELSE 0)
  BY <1>3, <1>4, <1>5, OwnedIs
<1>7. u = [b EXCEPT !.props[p] = c]
  BY <1>1, <1>2, <1>3 DEF SetProperty
<1>8. PICK g : g = [st.props EXCEPT ![p] = c]
  OBVIOUS
<1>9. /\ u = [props |-> u.props, strings |-> u.strings, refs |-> u.refs, out |-> u.out]
      /\ u.props = g /\ u.strings = b.strings /\ u.refs = b.refs /\ u.out = st.out
  BY <1>6, <1>7, <1>8
<1>10. /\ DOMAIN g = Slot /\ g[p] = c
       /\ \A q \in Slot : q # p => g[q] = st.props[q]
  BY <1>8 DEF Balance
<1>11. Cardinality(Texts(g)) - (IF c.t = "string" THEN 1 ELSE 0)
         = Cardinality(Texts(st.props)) - (IF old.t = "string" THEN 1 ELSE 0)
  <2>1. /\ \A q : q # p => (q \in Texts(st.props) <=> q \in Texts(g))
        /\ p \in Texts(g) <=> c.t = "string"
        /\ p \in Texts(st.props) <=> old.t = "string"
    BY <1>2, <1>10 DEF Texts
  <2> QED BY <2>1, OneMember, SlotsFinite
<1>12. ASSUME NEW o \in Object
       PROVE  Cardinality(Holding(g, o)) - (IF c = Obj(o) THEN 1 ELSE 0)
                = Cardinality(Holding(st.props, o)) - (IF old = Obj(o) THEN 1 ELSE 0)
  <2>1. /\ \A q : q # p => (q \in Holding(st.props, o) <=> q \in Holding(g, o))
        /\ p \in Holding(g, o) <=> c = Obj(o)
        /\ p \in Holding(st.props, o) <=> old = Obj(o)
    BY <1>2, <1>10 DEF Holding
  <2>2. PICK S, T : S = Holding(st.props, o) /\ T = Holding(g, o)
    OBVIOUS
  <2>3. IsFiniteSet(S) /\ IsFiniteSet(T)
    BY <2>2, SlotsFinite
  <2>4. Cardinality(T) - (IF p \in T THEN 1 ELSE 0)
          = Cardinality(S) - (IF p \in S THEN 1 ELSE 0)
    BY <2>1, <2>2, <2>3, OneMember
  <2> QED BY <2>1, <2>2, <2>4
<1>13. u.strings = Cardinality(Texts(g)) + (IF d.t = "string" THEN 1 ELSE 0)
  BY <1>5, <1>6, <1>9, <1>11, SlotsFinite DEF Balance
<1>14. ASSUME NEW o \in Object
       PROVE  u.refs[o] = 1 + Cardinality(Holding(g, o)) + (IF d = Obj(o) THEN 1 ELSE 0)
  <2>1. /\ Cardinality(Holding(g, o)) \in Nat /\ Cardinality(Holding(st.props, o)) \in Nat
        /\ st.refs[o] \in Int
    BY SlotsFinite DEF Balance
  <2>2. st.refs[o] = 1 + Cardinality(Holding(st.props, o)) + (IF d = Obj(o) THEN 1 ELSE 0)
    BY DEF Balance
  <2>3. u.refs[o] = st.refs[o] + (IF c = Obj(o) THEN 1 ELSE 0)
                    + (IF old = Obj(o) THEN -1 ELSE 0)
    BY <1>5, <1>6, <1>9
  <2> QED BY <1>12, <2>1, <2>2, <2>3
<1>15. \A q \in Slot : Whole(g[q])
  BY <1>10 DEF Balance
<1> QED BY <1>6, <1>8, <1>9, <1>10, <1>13, <1>14, <1>15 DEF Balance

(* lg_lua_to_gvalue_cast raises an error or makes a whole value. *)
LEMMA CastWhole ==
  ASSUME NEW v, Whole(v), NEW p \in Slot
  PROVE  Whole(Cast(v, p))
<1>1. \A n, b, s : /\ Num(n).t # "object" /\ Bool(b).t # "object" /\ Str(s).t # "object"
                   /\ Error.t # "object" /\ Crash.t # "object"
  BY DEF Num, Bool, Str, Error, Crash, Value
<1>2. \A s : ToBoolean(s).t # "object"
  BY <1>1 DEF ToBoolean
<1>3. \A w : Truncated(ToInteger(v), w).t # "object" /\ UTruncated(ToInteger(v), w).t # "object"
  BY <1>1 DEF Truncated, UTruncated
<1>4. \A ts : ToEnum(v, ts).t # "object"
  BY <1>1 DEF ToEnum, EnumNamed, EnumValue
<1>5. FillFlags(v).t # "object"
  BY <1>1 DEF FillFlags, Combined
<1>6. ToText(v).t # "object"
  BY <1>1 DEF ToText
<1>7. ToDouble(v).t # "object"
  BY <1>1 DEF ToDouble
<1>8. \A c : Whole(ToObject(v, c))
  BY <1>1 DEF ToObject, Whole
<1>9. GType[p] \in {"boolean", "int", "uint", "long", "enum", "flags", "string",
                    "double", "object"}
  BY GValuesAssumption
<1>10. CASE GType[p] = "boolean"
  <2>1. Cast(v, p) = IF v.t = "boolean" THEN v
                     ELSE IF v.t = "string" THEN ToBoolean(v.s) ELSE Error
    BY <1>10 DEF Cast
  <2> QED BY <1>1, <1>2, <2>1 DEF Whole
<1>11. CASE GType[p] # "boolean"
  BY <1>3, <1>4, <1>5, <1>6, <1>7, <1>8, <1>9, <1>11 DEF Cast, Whole
<1> QED BY <1>10, <1>11

LEMMA SetCastBalance ==
  ASSUME NEW st, Balance(st, Nil), NEW p \in Slot, NEW c, Whole(c),
         NEW u, u = SetCast(st, p, c)
  PROVE  Balance(u, Nil)
<1>1. CASE c \in {Error, Crash}
  <2>1. u = [st EXCEPT !.out = c]
    BY <1>1 DEF SetCast
  <2>2. /\ u = [props |-> u.props, strings |-> u.strings, refs |-> u.refs, out |-> u.out]
        /\ u.props = st.props /\ u.strings = st.strings /\ u.refs = st.refs
    BY <2>1 DEF Balance
  <2> QED BY <2>2 DEF Balance
<1>2. CASE c \notin {Error, Crash}
  <2>1. PICK a : a = Fill(st, c)
    OBVIOUS
  <2>2. PICK b : b = SetProperty(a, p, c)
    OBVIOUS
  <2>3. u = Unset(b, c)
    BY <1>2, <2>1, <2>2 DEF SetCast
  <2>4. Balance(a, c)
    BY <2>1, FillBalance
  <2>5. Balance(b, c)
    BY <2>2, <2>4, SetPropertyBalance
  <2> QED BY <2>3, <2>5, UnsetBalance
<1> QED BY <1>1, <1>2

(* Induction over the natural numbers, for sets of them. *)
LEMMA AllNumbers ==
  ASSUME NEW S, 0 \in S, \A n \in Nat : n \in S => n + 1 \in S
  PROVE  Nat \subseteq S
<1> SUFFICES ASSUME NEW k \in Nat, k \notin S
             PROVE  FALSE
  OBVIOUS
<1> DEFINE below(n) == 0..n
           T == {n \in Nat : n \notin S}
           B == {below(n) : n \in T}
           R == StrictSubsetOrdering(Nat)
<1>1. IsWellFoundedOn(R, FiniteSubsetsOf(Nat))
  BY FS_StrictSubsetOrderingWellFounded
<1>2. ASSUME NEW n \in T
      PROVE  below(n) \in FiniteSubsetsOf(Nat)
  <2>1. IsFiniteSet(0..n)
    BY FS_Interval
  <2> QED BY <2>1 DEF FiniteSubsetsOf
<1>3. B \subseteq FiniteSubsetsOf(Nat) /\ B # {}
  BY <1>2
<1> HIDE DEF B, R
<1>4. PICK b \in B : \A c \in B : <<c, b>> \notin R
  BY <1>1, <1>3, WFMin
<1>5. PICK m \in T : b = below(m)
  BY DEF B
<1>6. m # 0 /\ m - 1 \in Nat /\ (m - 1) + 1 = m
  OBVIOUS
<1>7. m - 1 \in T
  BY <1>6
<1>8. below(m - 1) \in B
  BY <1>7 DEF B
<1>9. below(m - 1) \subseteq below(m) /\ m \in below(m) /\ m \notin below(m - 1)
  BY <1>6
<1>10. <<below(m - 1), below(m)>> \in R
  BY <1>9 DEF R, StrictSubsetOrdering
<1> QED BY <1>4, <1>5, <1>8, <1>10

(* One pair after the other: what is owned stays in balance.               *)
LEMMA SetPairBalance ==
  ASSUME NEW st, Balance(st, Nil), NEW pair, Whole(pair[2])
  PROVE  Balance(SetPair(st, pair), Nil)
<1>1. CASE st.out # Nil \/ pair[1] \notin Prop
  BY <1>1 DEF SetPair
<1>2. CASE ~(st.out # Nil \/ pair[1] \notin Prop)
  <2>1. pair[1] \in Slot
    BY <1>2 DEF Slot
  <2>2. PICK c : c = Cast(pair[2], pair[1])
    OBVIOUS
  <2>3. Whole(c)
    BY <2>1, <2>2, CastWhole
  <2>4. SetPair(st, pair) = SetCast(st, pair[1], c)
    BY <1>2, <2>2 DEF SetPair, SetOne
  <2> QED BY <2>1, <2>3, <2>4, SetCastBalance
<1> QED BY <1>1, <1>2

(* The states after the first pairs. *)
Follow(After, pairs, n) ==
  /\ After[0] = Now(Nil)
  /\ \A k \in 0..(n - 1) : After[k + 1] = SetPair(After[k], pairs[k + 1])

LEMMA AfterFollow ==
  ASSUME NEW pairs, NEW n \in Nat, NEW After,
         After = CHOOSE f : f = [i \in 0..n |-> IF i = 0 THEN Now(Nil)
                                                ELSE SetPair(f[i - 1], pairs[i])]
  PROVE  Follow(After, pairs, n)
<1> DEFINE Runs(f, k) == f = [i \in 0..k |-> IF i = 0 THEN Now(Nil)
                                             ELSE SetPair(f[i - 1], pairs[i])]
           S == {k \in Nat : \E f : Runs(f, k)}
<1>1. 0 \in S
  <2> DEFINE f == [i \in 0..0 |-> Now(Nil)]
  <2>1. Runs(f, 0)
    OBVIOUS
  <2> QED BY <2>1
<1>2. ASSUME NEW k \in Nat, k \in S
      PROVE  k + 1 \in S
  <2>1. PICK f : Runs(f, k)
    BY <1>2
  <2> DEFINE g == [i \in 0..(k + 1) |-> IF i = k + 1 THEN SetPair(f[k], pairs[k + 1])
                                        ELSE f[i]]
             h == [i \in 0..(k + 1) |-> IF i = 0 THEN Now(Nil)
                                        ELSE SetPair(g[i - 1], pairs[i])]
  <2>2. ASSUME NEW i \in 0..(k + 1)
        PROVE  g[i] = h[i]
    <3>1. CASE i = k + 1
      BY <3>1
    <3>2. CASE i # k + 1
      <4>1. i \in 0..k /\ f[i] = IF i = 0 THEN Now(Nil) ELSE SetPair(f[i - 1], pairs[i])
        BY <2>1, <3>2
      <4>2. i # 0 => i - 1 \in 0..k
        BY <4>1
      <4> QED BY <3>2, <4>1, <4>2
    <3> QED BY <3>1, <3>2
  <2>3. g = h
    BY <2>2
  <2>4. Runs(g, k + 1)
    BY <2>3
  <2> HIDE DEF g, Runs
  <2>5. k + 1 \in Nat
    OBVIOUS
  <2> QED BY <2>4, <2>5, Zenon
<1>3. n \in S
  <2> HIDE DEF S
  <2> QED BY <1>1, <1>2, AllNumbers
<1>4. Runs(After, n)
  BY <1>3
<1>5. After[0] = Now(Nil)
  <2>1. 0 \in 0..n
    OBVIOUS
  <2> QED BY <1>4, <2>1
<1>6. ASSUME NEW k \in 0..(n - 1)
      PROVE  After[k + 1] = SetPair(After[k], pairs[k + 1])
  <2>1. k + 1 \in 0..n /\ k + 1 # 0 /\ (k + 1) - 1 = k
    OBVIOUS
  <2> QED BY <1>4, <2>1
<1> QED BY <1>5, <1>6 DEF Follow

LEMMA AfterAll ==
  ASSUME Balance(Now(Nil), Nil), NEW pairs, NEW n \in Nat,
         \A i \in 1..n : Whole(pairs[i][2]), NEW After, Follow(After, pairs, n)
  PROVE  Balance(After[n], Nil)
<1> DEFINE Held == {k \in Nat : k <= n => Balance(After[k], Nil)}
<1>1. 0 \in Held
  BY DEF Follow
<1>2. ASSUME NEW k \in Nat, k \in Held
      PROVE  k + 1 \in Held
  <2> SUFFICES ASSUME k + 1 <= n
               PROVE  Balance(After[k + 1], Nil)
    OBVIOUS
  <2>1. k + 1 \in 1..n /\ k \in 0..(n - 1)
    OBVIOUS
  <2>2. After[k + 1] = SetPair(After[k], pairs[k + 1])
    BY <2>1 DEF Follow
  <2>3. Balance(After[k], Nil)
    BY <1>2
  <2> QED BY <2>1, <2>2, <2>3, SetPairBalance
<1>3. n \in Held
  <2> HIDE DEF Held
  <2> QED BY <1>1, <1>2, AllNumbers
<1> QED BY <1>3

(* What is owned, and by whom: the properties and columns hold whole       *)
(* values, and so does the program.                                        *)
Holds(g, n, r) ==
  /\ DOMAIN g = Slot /\ \A p \in Slot : Whole(g[p])
  /\ r \in [Object -> Int]
  /\ n = Cardinality(Texts(g))
  /\ \A o \in Object : r[o] = 1 + Cardinality(Holding(g, o))

Owning == Whole(x) /\ Holds(props, strings, refs)

LEMMA HoldsIf ==
  ASSUME NEW u, Balance(u, Nil)
  PROVE  Holds(u.props, u.strings, u.refs)
BY NilFacts, SlotsFinite DEF Balance, Holds

LEMMA NowBalance ==
  ASSUME Owning, NEW u, u = Now(Nil)
  PROVE  Balance(u, Nil) /\ u.props = props
<1>1. /\ u = [props |-> u.props, strings |-> u.strings, refs |-> u.refs, out |-> u.out]
      /\ u.props = props /\ u.strings = strings /\ u.refs = refs
  BY DEF Now
<1> QED BY <1>1, NilFacts, SlotsFinite DEF Owning, Holds, Balance

LEMMA BecomesHolds ==
  ASSUME NEW u, Balance(u, Nil), Becomes(u)
  PROVE  Holds(props', strings', refs')
BY HoldsIf DEF Becomes

(* The values that conversions make. *)
LEMMA Plain ==
  /\ \A n : Whole(Num(n))
  /\ \A b : Whole(Bool(b))
  /\ \A s : Whole(Str(s))
  /\ \A ts, n : Whole(Enum(ts, n))
  /\ \A ts, n : Whole(PushConstant(ts, n))
  /\ Whole(Error) /\ Whole(Crash)
  /\ \A o \in Object : Whole(Obj(o))
<1>1. \A n, b, s : /\ Num(n).t # "object" /\ Bool(b).t # "object" /\ Str(s).t # "object"
                   /\ Error.t # "object" /\ Crash.t # "object"
  BY DEF Num, Bool, Str, Error, Crash, Value
<1>2. \A ts, n : Enum(ts, n).t # "object"
  BY DEF Enum
<1>3. \A ts, n : PushConstant(ts, n).t # "object"
  BY <1>1, <1>2 DEF PushConstant
<1> QED BY <1>1, <1>2, <1>3 DEF Whole

LEMMA OutcomeWhole ==
  ASSUME Whole(x), NEW r, Whole(r), NEW m, Outcome(r, m)
  PROVE  Whole(x')
BY DEF Outcome

LEMMA PushedWhole == \A m, d : Whole(Pushed(m, d))
BY Plain DEF Pushed

LEMMA ArithmeticWhole ==
  ASSUME NEW a, NEW b, NEW r
  PROVE  /\ Whole(EnumAddSub(a, b, r)) /\ Whole(EnumMod(a, b)) /\ Whole(EnumEq(a, b))
<1>1. Whole(EnumAddSub(a, b, r))
  BY Plain DEF EnumAddSub
<1>2. Whole(EnumMod(a, b))
  BY Plain DEF EnumMod
<1>3. Whole(EnumEq(a, b))
  BY Plain DEF EnumEq
<1> QED BY <1>1, <1>2, <1>3

LEMMA CalculatesWhole ==
  ASSUME Whole(x), Calculates
  PROVE  Whole(x')
<1>1. ASSUME NEW v, Whole(v), Write(v)
      PROVE  Whole(x')
  BY <1>1 DEF Write
<1>2. ASSUME NEW m, NEW n, ReadConstant(m, n)
      PROVE  Whole(x')
  BY <1>2, PushedWhole, OutcomeWhole DEF ReadConstant
<1>3. ASSUME NEW y, NEW r, Whole(r), Arithmetic(y, r)
      PROVE  Whole(x')
  BY <1>3, OutcomeWhole DEF Arithmetic, Gives
<1>4. CASE ToNumber
  BY <1>3, <1>4, Plain DEF ToNumber
<1>5. ASSUME NEW y, Add(y) \/ AddTo(y)
      PROVE  Whole(x')
  BY <1>3, <1>5, ArithmeticWhole DEF Add, AddTo
<1>6. ASSUME NEW y, Subtract(y) \/ SubtractFrom(y)
      PROVE  Whole(x')
  BY <1>3, <1>6, ArithmeticWhole DEF Subtract, SubtractFrom
<1>7. ASSUME NEW y, Test(y) \/ Compare(y)
      PROVE  Whole(x')
  BY <1>3, <1>7, ArithmeticWhole DEF Test, Compare
<1>8. (\A v \in Literal : Whole(v)) /\ (\A o \in Object : Whole(Obj(o)))
  BY GValuesAssumption, Plain
<1> QED BY <1>1, <1>2, <1>4, <1>5, <1>6, <1>7, <1>8 DEF Calculates

LEMMA AccessesWhole ==
  ASSUME Whole(x), Accesses
  PROVE  Whole(x')
<1>1. ASSUME NEW f, ReadField(f)
      PROVE  Whole(x')
  <2>1. \A b : Whole(Struct2Lua(f, b))
    BY Plain, NilFacts DEF Struct2Lua, StructLong, StructEnum, StructDouble, StructCharPtr
  <2> QED BY <1>1, <2>1, OutcomeWhole DEF ReadField, Gives
<1>2. ASSUME NEW f, WriteField(f)
      PROVE  x' = x
  BY <1>2 DEF WriteField, WriteLong, WriteEnum, WriteDouble, WriteCharPtr, Assigns, constVars
<1>3. ASSUME NEW f, NEW b, LibraryWrites(f, b)
      PROVE  x' = x
  BY <1>3 DEF LibraryWrites, Assigns, constVars
<1> QED BY <1>1, <1>2, <1>3 DEF Accesses

(* A function gives back what it got, if that is an object. *)
LEMMA ReturnedWhole ==
  ASSUME Whole(x), NEW f \in Function
  PROVE  Whole(Returned(f, x))
<1>1. Whole(Lua2Ffi(f, x))
  <2>1. /\ Whole(Lua2Bool(x)) /\ Whole(Lua2Enum(x)) /\ Whole(Lua2Double(x))
        /\ Whole(Lua2CharPtr(x)) /\ Whole(Lua2EnumPtr(x)) /\ Whole(Lua2DoublePtr(x))
        /\ Whole(Lua2Long(x))
    BY Plain DEF Lua2Bool, Lua2Enum, Lua2Double, Lua2CharPtr, Lua2EnumPtr,
                 Lua2DoublePtr, Lua2Long
  <2>2. \A c : Whole(Lua2StructPtr(x, c))
    BY Plain DEF Lua2StructPtr
  <2>3. \A t : Whole(StoreInt(x, t))
    BY <2>1, Plain DEF StoreInt
  <2>4. \A t : Whole(Lua2IntPtr(x, t))
    BY <2>3 DEF Lua2IntPtr
  <2>5. ArgType[f] \in {"bool", "int", "uint", "long", "enum", "double", "char*",
          "struct*", "int*", "uint*", "bool*", "enum*", "double*"}
    BY ArgumentsAssumption
  <2> QED BY <2>1, <2>2, <2>4, <2>5 DEF Lua2Ffi
<1>2. \A c : Whole(c) => Whole(InC(f, c))
  BY Plain DEF InC
<1>3. \A c : Whole(c) => Whole(Ffi2Lua(f, c))
  BY Plain DEF Ffi2Lua
<1> QED BY <1>1, <1>2, <1>3, Plain DEF Returned, Back

LEMMA EndsOwning ==
  ASSUME Owning, NEW u, Balance(u, Nil), Ends(u)
  PROVE  Owning'
BY BecomesHolds DEF Owning, Ends, Holds, Whole, Texts, Holding

LEMMA ObjectSetOwning ==
  ASSUME Owning, NEW pairs, NEW n \in Nat, Len(pairs) = n,
         \A i \in 1..n : Whole(pairs[i][2]), ObjectSet(pairs)
  PROVE  Owning'
<1> DEFINE After == CHOOSE f : f = [i \in 0..n |-> IF i = 0 THEN Now(Nil)
                                                   ELSE SetPair(f[i - 1], pairs[i])]
<1>1. Ends(After[n])
  BY DEF ObjectSet
<1>2. Balance(Now(Nil), Nil)
  BY NowBalance
<1>3. Follow(After, pairs, n)
  BY AfterFollow
<1> HIDE DEF After
<1>4. Balance(After[n], Nil)
  BY <1>2, <1>3, AfterAll
<1> QED BY <1>1, <1>4, EndsOwning

(* A value is copied into a GValue, which is given back. *)
LEMMA FilledAndUnset ==
  ASSUME Owning, NEW c, Whole(c), Becomes(Unset(Fill(Now(Nil), c), c))
  PROVE  Holds(props', strings', refs')
<1>1. PICK a : a = Now(Nil)
  OBVIOUS
<1>2. PICK b : b = Fill(a, c)
  OBVIOUS
<1>3. PICK u : u = Unset(b, c)
  OBVIOUS
<1>4. Balance(a, Nil)
  BY <1>1, NowBalance
<1>5. Balance(b, c)
  BY <1>2, <1>4, FillBalance
<1>6. Balance(u, Nil)
  BY <1>3, <1>5, UnsetBalance
<1> QED BY <1>1, <1>2, <1>3, <1>6, BecomesHolds

LEMMA ObjectGetOwning ==
  ASSUME Owning, NEW p, ObjectGet(p)
  PROVE  Owning'
<1>1. CASE p \notin Prop
  BY <1>1, NilFacts, OutcomeWhole
  DEF ObjectGet, Gives, gvVars, Owning, Holds, Whole, Texts, Holding
<1>2. CASE p \in Prop
  <2>1. PICK c : c = props[p]
    OBVIOUS
  <2>2. Whole(c)
    BY <1>2, <2>1 DEF Owning, Holds, Slot
  <2>3. Becomes(Unset(Fill(Now(Nil), c), c)) /\ Gives(PushGValue(c, p))
    BY <1>2, <2>1 DEF ObjectGet
  <2>4. Whole(PushGValue(c, p))
    BY <2>2, Plain DEF PushGValue
  <2>5. Whole(x')
    BY <2>3, <2>4, OutcomeWhole DEF Owning, Gives
  <2>6. Holds(props', strings', refs')
    BY <2>2, <2>3, FilledAndUnset
  <2> QED BY <2>5, <2>6 DEF Owning, Holds, Whole, Texts, Holding
<1> QED BY <1>1, <1>2

LEMMA TransfersOwning ==
  ASSUME Owning, Transfers
  PROVE  Owning'
<1>0. Whole(x) /\ \A v \in Literal : Whole(v)
  BY GValuesAssumption DEF Owning
<1>1. ASSUME NEW p, ObjectGet(p)
      PROVE  Owning'
  BY <1>1, ObjectGetOwning
<1>2. ASSUME NEW p, ObjectSet(<<<<p, x>>>>)
      PROVE  Owning'
  <2>1. PICK s : s = <<<<p, x>>>>
    OBVIOUS
  <2>2. Len(s) = 1 /\ \A i \in 1..1 : Whole(s[i][2])
    BY <1>0, <2>1
  <2> QED BY <1>2, <2>1, <2>2, ObjectSetOwning
<1>3. ASSUME NEW p, NEW q, NEW y \in Literal, ObjectSet(<<<<p, x>>, <<q, y>>>>)
      PROVE  Owning'
  <2>1. PICK s : s = <<<<p, x>>, <<q, y>>>>
    OBVIOUS
  <2>2. Len(s) = 2 /\ \A i \in 1..2 : Whole(s[i][2])
    BY <1>0, <2>1
  <2> QED BY <1>3, <2>1, <2>2, ObjectSetOwning
<1>4. ASSUME NEW c \in Column, ListStoreSet(c)
      PROVE  Owning'
  <2>1. PICK a : a = Now(Nil)
    OBVIOUS
  <2>2. PICK v : v = Cast(x, c)
    OBVIOUS
  <2>3. PICK u : u = SetCast(a, c, v)
    OBVIOUS
  <2>4. c \in Slot
    BY DEF Slot
  <2>5. Whole(v)
    BY <1>0, <2>2, <2>4, CastWhole
  <2>6. Balance(u, Nil)
    BY <2>1, <2>3, <2>4, <2>5, NowBalance, SetCastBalance
  <2>7. Ends(u)
    BY <1>4, <2>1, <2>2, <2>3 DEF ListStoreSet, SetOne
  <2> QED BY <2>6, <2>7, EndsOwning
<1>5. ASSUME NEW s \in Sets, LibrarySets(s[1], s[2])
      PROVE  Owning'
  <2>1. s[1] \in Slot /\ Whole(s[2])
    BY GValuesAssumption DEF Slot
  <2>2. PICK a : a = Now(Nil)
    OBVIOUS
  <2>3. PICK u : u = SetProperty(a, s[1], s[2])
    OBVIOUS
  <2>4. Balance(u, Nil)
    BY <2>1, <2>2, <2>3, NowBalance, SetPropertyBalance
  <2>5. Becomes(u) /\ x' = x
    BY <1>5, <2>2, <2>3 DEF LibrarySets, constVars
  <2>6. Holds(props', strings', refs')
    BY <2>4, <2>5, BecomesHolds
  <2> QED BY <1>0, <2>5, <2>6 DEF Owning, Holds, Whole, Texts, Holding
<1>6. ASSUME NEW f \in Function, CallFunction(f)
      PROVE  Owning'
  <2>1. Whole(x')
    BY <1>0, <1>6, ReturnedWhole, OutcomeWhole DEF CallFunction, Gives
  <2> QED BY <1>6, <2>1 DEF CallFunction, gvVars, Owning, Holds, Whole, Texts, Holding
<1>7. ASSUME NEW f, NEW n, Callback(f, n)
      PROVE  Owning'
  <2>1. \A l : Whole(Ffi2Lua(f, Num(l)))
    BY Plain DEF Ffi2Lua
  <2>2. Whole(x')
    BY <1>0, <1>7, <2>1, OutcomeWhole DEF Callback, Gives
  <2> QED BY <1>7, <2>2 DEF Callback, gvVars, Owning, Holds, Whole, Texts, Holding
<1>8. CASE PassGValue
  <2>1. PICK c : c = LuaToGValue(x)
    OBVIOUS
  <2>2. Whole(c)
    BY <1>0, <2>1, Plain DEF LuaToGValue
  <2>3. Gives(c) /\ Becomes(Unset(Fill(Now(Nil), c), c))
    BY <1>8, <2>1 DEF PassGValue
  <2>4. Whole(x')
    BY <1>0, <2>2, <2>3, OutcomeWhole DEF Gives
  <2>5. Holds(props', strings', refs')
    BY <2>2, <2>3, FilledAndUnset
  <2> QED BY <2>4, <2>5 DEF Owning, Holds, Whole, Texts, Holding
<1> QED BY <1>1, <1>2, <1>3, <1>4, <1>5, <1>6, <1>7, <1>8 DEF Transfers

LEMMA InitOwning == Init => Owning
<1> SUFFICES ASSUME Init PROVE Owning
  OBVIOUS
<1>1. \A p \in Slot : props[p].t # "string" /\ props[p].t # "object"
  BY DEF Init, GValuesInit, Zero, Nil, Bool, Num, Value
<1>2. Texts(props) = {} /\ \A o \in Object : Holding(props, o) = {}
  BY <1>1 DEF Texts, Holding, Obj, Value
<1>3. Cardinality(Texts(props)) = 0 /\ \A o \in Object : Cardinality(Holding(props, o)) = 0
  BY <1>2, FS_EmptySet
<1>4. strings = 0 /\ refs = [o \in Object |-> 1] /\ DOMAIN props = Slot /\ x = Nil
  BY DEF Init, GValuesInit
<1>5. Holds(props, strings, refs)
  BY <1>1, <1>3, <1>4 DEF Holds, Whole
<1> QED BY <1>4, <1>5, NilFacts DEF Owning

LEMMA NextOwning == Owning /\ [Next]_vars => Owning'
<1> SUFFICES ASSUME Owning, [Next]_vars
             PROVE  Owning'
  OBVIOUS
<1>1. ASSUME Whole(x'), UNCHANGED gvVars
      PROVE  Owning'
  BY <1>1 DEF gvVars, Owning, Holds, Whole, Texts, Holding
<1> QED BY <1>1, CalculatesWhole, AccessesWhole, TransfersOwning
        DEF Next, vars, constVars, Owning

(* Copies of strings and references to objects are those of the properties *)
(* and columns, whatever is set, read, passed and refused, for any         *)
(* properties, objects and lists of pairs (lg_lua_to_gvalue_cast,          *)
(* l_g_object_set, l_g_object_get, l_gtk_list_store_set_value).            *)
THEOREM OwnershipStays == Spec => []OwnershipExact
<1>1. Owning => OwnershipExact
  BY DEF Owning, Holds, Texts, Holding, OwnershipExact
<1> QED BY <1>1, InitOwning, NextOwning, PTL DEF Spec

-----------------------------------------------------------------------------
(* Constants: what is encoded is decoded again.                           *)
(* The digits of all numbers; a function that adds up the digits in s,     *)
(* behind the first k; one that does so for what lies behind them in res.  *)
(* s begins with a digit below R; its digits add up to v; the bytes a, of  *)
(* type, and of s but its first make up res.                               *)
IsDigits(D, R, B) ==
  \A v \in Nat : D[v] = IF v < R THEN <<v>> ELSE Append(D[v \div B], v % B)
Adds(f, k, s, B) ==
  \A i \in 1..Len(s) : f[k + i] = IF i = 1 THEN s[1] ELSE f[k + i - 1] * B + s[i]
Sums(f, k, n, a, res, B) ==
  f = [i \in (k + 1)..n |-> IF i = k + 1 THEN a ELSE f[i - 1] * B + res[i]]
BeginsBelow(s, R) == s \in Seq(Nat) /\ Len(s) # 0 /\ s[1] \in 0..(R - 1)
AddsUp(s, B, v) == \A f : \A k \in Nat : Adds(f, k, s, B) => f[k + Len(s)] = v
Joins(res, a, type, s) ==
  /\ res[1] = a /\ Len(res) = Len(type) + Len(s)
  /\ \A i \in 1..Len(type) : res[1 + i] = type[i]
  /\ \A i \in 2..Len(s) : res[Len(type) + i] = s[i]

(* A number without its lowest digit is smaller.                           *)
LEMMA Shorter ==
  ASSUME NEW R \in Nat \ {0}, NEW B \in Nat, B = 4 * R, NEW v \in Nat, v >= R
  PROVE  v \div B \in 0..(v - 1)
OBVIOUS

LEMMA Restored ==
  ASSUME NEW B \in Nat \ {0}, NEW v \in Nat
  PROVE  (v \div B) * B + (v % B) = v
<1>1. v \div B \in Nat /\ v % B \in Nat
  OBVIOUS
<1>2. v = B * (v \div B) + (v % B)
  OBVIOUS
<1>3. B * (v \div B) = (v \div B) * B
  OBVIOUS
<1> QED BY <1>1, <1>2, <1>3

(* There are such digits and such a sum.                                   *)
LEMMA DigitsExist ==
  ASSUME NEW R \in Nat \ {0}, NEW B \in Nat, B = 4 * R
  PROVE  \E F : F = [v \in Nat |-> IF v < R THEN <<v>>
                                   ELSE Append(F[v \div B], v % B)]
<1> DEFINE Step(f, v) == IF v < R THEN <<v>> ELSE Append(f[v \div B], v % B)
           Runs(f, n) == f = [v \in 0..n |-> Step(f, v)]
           S == {n \in Nat : \E f : Runs(f, n)}
<1>0. ASSUME NEW f, NEW g, NEW n \in Nat, NEW v \in 0..n,
             \A i \in 0..(v - 1) : f[i] = g[i]
      PROVE  Step(f, v) = Step(g, v)
  BY <1>0, Shorter
<1>9. ASSUME NEW f, NEW n \in Nat, Runs(f, n), NEW v \in 0..n
      PROVE  f[v] = Step(f, v)
  <2>1. f = [u \in 0..n |-> Step(f, u)]
    BY <1>9
  <2> HIDE DEF Step
  <2>2. \A u \in 0..n : [t \in 0..n |-> Step(f, t)][u] = Step(f, u)
    OBVIOUS
  <2> QED BY <2>1, <2>2
<1>1. 0 \in S
  <2> DEFINE f == [v \in 0..0 |-> <<v>>]
  <2>1. Runs(f, 0)
    OBVIOUS
  <2> QED BY <2>1
<1>2. ASSUME NEW n \in Nat, n \in S
      PROVE  n + 1 \in S
  <2>1. PICK f : Runs(f, n)
    BY <1>2
  <2> DEFINE g == [v \in 0..(n + 1) |-> IF v = n + 1 THEN Step(f, n + 1) ELSE f[v]]
             h == [v \in 0..(n + 1) |-> Step(g, v)]
  <2> HIDE DEF Step
  <2>2. \A i \in 0..n : g[i] = f[i] /\ f[i] = Step(f, i)
    <3>1. \A i \in 0..n : f[i] = Step(f, i)
      <4> HIDE DEF Runs
      <4> QED BY <2>1, <1>9
    <3>2. \A i \in 0..n : g[i] = f[i]
      OBVIOUS
    <3> QED BY <3>1, <3>2
  <2>3. ASSUME NEW v \in 0..(n + 1)
        PROVE  g[v] = h[v]
    <3>0. n + 1 \in Nat /\ \A i \in 0..(v - 1) : f[i] = g[i]
      BY <2>2
    <3>1. Step(f, v) = Step(g, v)
      <4> HIDE DEF g
      <4> QED BY <3>0, <1>0
    <3>2. CASE v = n + 1
      <4>1. g[n + 1] = Step(f, n + 1)
        OBVIOUS
      <4> HIDE DEF g, h
      <4>2. h[v] = Step(g, v)
        BY DEF h
      <4>3. g[v] = Step(f, v)
        BY <3>2, <4>1
      <4> QED BY <3>1, <4>2, <4>3
    <3>3. CASE v # n + 1
      <4>1. v \in 0..n
        BY <3>3
      <4> HIDE DEF g, h
      <4>2. g[v] = Step(f, v)
        BY <2>2, <4>1
      <4> QED BY <4>2, <3>1 DEF h
    <3> QED BY <3>2, <3>3, <3>1, <3>2
  <2>4. g = h
    BY <2>3
  <2>5. Runs(g, n + 1)
    BY <2>4
  <2> HIDE DEF g, Runs
  <2>6. n + 1 \in Nat
    OBVIOUS
  <2> QED BY <2>5, <2>6, Zenon
<1>3. \A n \in Nat : \E f : Runs(f, n)
  <2>1. Nat \subseteq S
    <3> HIDE DEF S
    <3> QED BY <1>1, <1>2, AllNumbers
  <2> QED BY <2>1
<1>4. ASSUME NEW n \in Nat, NEW m \in Nat, n <= m,
             NEW f, NEW g, Runs(f, n), Runs(g, m)
      PROVE  \A v \in 0..n : f[v] = g[v]
  <2> DEFINE P == {k \in Nat : \A v \in 0..n : v < k => f[v] = g[v]}
  <2> HIDE DEF Step
  <2>1. 0 \in P
    OBVIOUS
  <2>2. ASSUME NEW k \in Nat, k \in P
        PROVE  k + 1 \in P
    <3> SUFFICES ASSUME k \in 0..n PROVE f[k] = g[k]
      BY <2>2
    <3>1. \A i \in 0..(k - 1) : f[i] = g[i]
      BY <2>2
    <3>2. Step(f, k) = Step(g, k)
      BY <3>1, <1>0
    <3>3. f[k] = Step(f, k) /\ g[k] = Step(g, k)
      <4>1. k \in 0..m
        BY <1>4
      <4> HIDE DEF Runs
      <4> QED BY <1>4, <1>9, <4>1
    <3> QED BY <3>2, <3>3
  <2>3. n + 1 \in P
    <3> HIDE DEF P
    <3> QED BY <2>1, <2>2, AllNumbers
  <2> QED BY <2>3
<1> DEFINE G == [v \in Nat |-> CHOOSE f : Runs(f, v)]
           F == [v \in Nat |-> G[v][v]]
<1>5. \A n \in Nat : Runs(G[n], n)
  <2> HIDE DEF Runs
  <2> QED BY <1>3
<1> HIDE DEF G
<1>6. ASSUME NEW v \in Nat
      PROVE  F[v] = Step(F, v)
  <2>1. \A i \in 0..(v - 1) : G[v][i] = F[i]
    <3> TAKE i \in 0..(v - 1)
    <3>1. Runs(G[v], v) /\ Runs(G[i], i) /\ i \in Nat /\ i <= v
      <4> HIDE DEF Runs
      <4> QED BY <1>5
    <3>2. i \in 0..i
      OBVIOUS
    <3> HIDE DEF Runs
    <3> QED BY <3>1, <3>2, <1>4
  <2>2. G[v][v] = Step(G[v], v)
    <3> HIDE DEF Step
    <3>1. v \in 0..v
      OBVIOUS
    <3> QED BY <1>5, <3>1
  <2>3. Step(G[v], v) = Step(F, v)
    <3> HIDE DEF Step, F
    <3>1. v \in 0..v
      OBVIOUS
    <3> QED BY <2>1, <1>0, <3>1
  <2> QED BY <2>2, <2>3
<1>7. F = [v \in Nat |-> Step(F, v)]
  <2> HIDE DEF Step
  <2> QED BY <1>6
<1> HIDE DEF F
<1> QED BY <1>7

LEMMA SumsExist ==
  ASSUME NEW B \in Nat, NEW k \in Nat, NEW n \in Nat, NEW a, NEW res
  PROVE  \E f : Sums(f, k, n, a, res, B)
<1> DEFINE Step(f, i) == IF i = k + 1 THEN a ELSE f[i - 1] * B + res[i]
           Runs(f, m) == f = [i \in (k + 1)..m |-> Step(f, i)]
           S == {m \in Nat : \E f : Runs(f, m)}
<1>1. 0 \in S
  <2> DEFINE f == [i \in (k + 1)..0 |-> a]
  <2>1. Runs(f, 0)
    OBVIOUS
  <2> QED BY <2>1
<1>2. ASSUME NEW m \in Nat, m \in S
      PROVE  m + 1 \in S
  <2>1. PICK f : Runs(f, m)
    BY <1>2
  <2> DEFINE g == [i \in (k + 1)..(m + 1) |-> IF i = m + 1 THEN Step(f, m + 1) ELSE f[i]]
             h == [i \in (k + 1)..(m + 1) |-> Step(g, i)]
  <2>2. ASSUME NEW i \in (k + 1)..(m + 1)
        PROVE  g[i] = h[i]
    <3>0. i # k + 1 => i - 1 \in (k + 1)..m /\ g[i - 1] = f[i - 1]
      OBVIOUS
    <3>1. CASE i = m + 1
      BY <3>0, <3>1
    <3>2. CASE i # m + 1
      <4>1. i \in (k + 1)..m /\ f[i] = Step(f, i)
        BY <2>1, <3>2
      <4> QED BY <3>0, <3>2, <4>1
    <3> QED BY <3>1, <3>2
  <2>3. g = h
    BY <2>2
  <2>4. Runs(g, m + 1)
    BY <2>3
  <2> HIDE DEF g, Runs
  <2>5. m + 1 \in Nat
    OBVIOUS
  <2> QED BY <2>4, <2>5, Zenon
<1>3. n \in S
  <2> HIDE DEF S
  <2> QED BY <1>1, <1>2, AllNumbers
<1> QED BY <1>3 DEF Sums

(* The digits of a number add up to it.                                    *)
LEMMA DigitsAddUp ==
  ASSUME NEW R \in Nat \ {0}, NEW B \in Nat, B = 4 * R, NEW D,
         IsDigits(D, R, B), NEW v \in Nat
  PROVE  BeginsBelow(D[v], R) /\ AddsUp(D[v], B, v)
<1> DEFINE Right(u) == /\ D[u] \in Seq(Nat) /\ Len(D[u]) # 0 /\ D[u][1] \in 0..(R - 1)
                       /\ \A f : \A k \in Nat : Adds(f, k, D[u], B) => f[k + Len(D[u])] = u
           S == {n \in Nat : \A u \in 0..n : Right(u)}
<1>1. ASSUME NEW u \in Nat, u < R
      PROVE  Right(u)
  <2>1. D[u] = <<u>>
    BY <1>1 DEF IsDigits
  <2>2. Len(D[u]) = 1 /\ D[u][1] = u /\ D[u] \in Seq(Nat)
    BY <2>1
  <2>3. ASSUME NEW k \in Nat, NEW f, Adds(f, k, D[u], B)
        PROVE  f[k + Len(D[u])] = u
    <3>1. 1 \in 1..Len(D[u])
      BY <2>2
    <3> QED BY <2>2, <2>3, <3>1 DEF Adds
  <2> QED BY <1>1, <2>2, <2>3
<1>2. ASSUME NEW u \in Nat, u >= R, Right(u \div B)
      PROVE  Right(u)
  <2> DEFINE w == u \div B
             d == u % B
  <2>1. w \in Nat /\ d \in Nat /\ w * B + d = u
    <3>1. B \in Nat \ {0} /\ w \in Nat /\ d \in Nat
      OBVIOUS
    <3> QED BY <3>1, Restored
  <2>2. D[u] = Append(D[w], d)
    <3> HIDE DEF Right
    <3>1. ~(u < R)
      BY <1>2
    <3> QED BY <3>1 DEF IsDigits
  <2>3. D[w] \in Seq(Nat) /\ Len(D[w]) # 0 /\ D[w][1] \in 0..(R - 1)
    BY <1>2
  <2> HIDE DEF w, d
  <2>4. PICK s \in Seq(Nat) : s = D[w]
    BY <2>3
  <2>5. D[u] \in Seq(Nat) /\ Len(D[u]) = Len(s) + 1 /\ D[u][Len(s) + 1] = d
        /\ \A i \in 1..Len(s) : D[u][i] = s[i]
    BY <2>1, <2>2, <2>4
  <2>6. Len(s) \in Nat /\ Len(s) # 0 /\ D[u][1] = s[1]
    <3>1. Len(s) \in Nat /\ Len(s) # 0
      BY <2>3, <2>4
    <3>2. 1 \in 1..Len(s)
      BY <3>1
    <3> QED BY <2>5, <3>1, <3>2
  <2>7. ASSUME NEW k \in Nat, NEW f, Adds(f, k, D[u], B)
        PROVE  f[k + Len(D[u])] = u
    <3>1. Adds(f, k, s, B)
      <4>1. ASSUME NEW i \in 1..Len(s)
            PROVE  f[k + i] = IF i = 1 THEN s[1] ELSE f[k + i - 1] * B + s[i]
        <5>1. i \in 1..Len(D[u]) /\ D[u][i] = s[i] /\ D[u][1] = s[1]
          BY <2>5, <2>6
        <5> QED BY <2>7, <5>1 DEF Adds
      <4> QED BY <4>1 DEF Adds
    <3>2. f[k + Len(s)] = w
      <4> QED BY <1>2, <2>4, <3>1 DEF w
    <3>3. Len(s) + 1 \in 1..Len(D[u]) /\ Len(s) + 1 # 1
      <4> HIDE DEF Right
      <4>1. \A l \in Nat : l # 0 => l + 1 \in 1..(l + 1) /\ l + 1 # 1
        OBVIOUS
      <4> QED BY <2>5, <2>6, <4>1
    <3>4. f[k + (Len(s) + 1)] = f[k + (Len(s) + 1) - 1] * B + D[u][Len(s) + 1]
      BY <2>7, <3>3 DEF Adds
    <3>5. k + (Len(s) + 1) - 1 = k + Len(s)
      BY <2>6
    <3> QED BY <2>1, <2>5, <3>2, <3>4, <3>5
  <2> QED BY <2>3, <2>4, <2>5, <2>6, <2>7
<1> HIDE DEF Right
<1>3. 0 \in S
  <2>1. \A u \in 0..0 : u \in Nat /\ u < R
    OBVIOUS
  <2> QED BY <1>1, <2>1
<1>4. ASSUME NEW n \in Nat, n \in S
      PROVE  n + 1 \in S
  <2>1. ASSUME NEW u \in 0..(n + 1)
        PROVE  Right(u)
    <3>1. u <= n => Right(u)
      BY <1>4
    <3>2. u >= R => u \div B \in 0..n
      <4>1. u >= R => u \div B \in 0..(u - 1)
        <5>1. u \in Nat
          OBVIOUS
        <5> QED BY <5>1, Shorter
      <4> QED BY <4>1
    <3>3. u >= R => Right(u \div B)
      BY <1>4, <3>2
    <3> QED BY <1>1, <1>2, <3>3
  <2> QED BY <2>1
<1>5. v \in S
  <2> HIDE DEF S
  <2> QED BY <1>3, <1>4, AllNumbers
<1>6. Right(v)
  BY <1>5
<1> QED BY <1>6 DEF Right, BeginsBelow, AddsUp

LEMMA FirstDigit ==
  ASSUME NEW R \in Nat \ {0}, NEW B \in Nat, B = 4 * R, NEW D,
         IsDigits(D, R, B), NEW v \in Nat
  PROVE  D[v] \in Seq(Nat) /\ Len(D[v]) # 0 /\ D[v][1] \in 0..(R - 1)
BY DigitsAddUp DEF BeginsBelow

LEMMA Powers == 2^Byte \in Nat \ {0} /\ 2^Byte = 4 * Room /\ Room \in Nat \ {0}
<1>1. Room \in Nat \ {0} /\ 2^Byte = 4 * Room
  BY PowersAssumption
<1>2. \A r \in Nat \ {0} : 4 * r \in Nat \ {0}
  OBVIOUS
<1> QED BY <1>1, <1>2

(* The digits of a number, as the encoder computes them.                   *)
LEMMA DigitsAre ==
  \A v \in Nat : Digits[v] = IF v < Room THEN <<v>>
                             ELSE Append(Digits[v \div 2^Byte], v % 2^Byte)
<1> DEFINE Eq(F) == F = [v \in Nat |-> IF v < Room THEN <<v>>
                                       ELSE Append(F[v \div 2^Byte], v % 2^Byte)]
<1>1. \E F : Eq(F)
  <2>1. PICK B \in Nat : B = 2^Byte /\ B = 4 * Room
    BY Powers
  <2>2. \E F : F = [v \in Nat |-> IF v < Room THEN <<v>>
                                  ELSE Append(F[v \div B], v % B)]
    BY <2>1, Powers, DigitsExist
  <2> QED BY <2>1, <2>2
<1>2. Digits = CHOOSE F : Eq(F)
  BY DEF Digits
<1>3. Eq(Digits)
  <2> HIDE DEF Eq
  <2> QED BY <1>1, <1>2
<1> QED BY <1>3

(* What lies behind the type adds up to the value.                         *)
LEMMA SumOfDigits ==
  ASSUME NEW v \in Nat, NEW k \in Nat, NEW res,
         Len(res) = k + Len(Digits[v]), res[1] % Room = Digits[v][1],
         \A i \in 2..Len(Digits[v]) : res[k + i] = Digits[v][i]
  PROVE  ValueOf(res, k) = v
<1>1. PICK B \in Nat : B = 2^Byte /\ B = 4 * Room
  BY Powers
<1>2. PICK D : D = Digits
  OBVIOUS
<1>3. IsDigits(D, Room, B)
  BY <1>1, <1>2, DigitsAre DEF IsDigits
<1>4. /\ D[v] \in Seq(Nat) /\ Len(D[v]) # 0
      /\ \A f : \A j \in Nat : Adds(f, j, D[v], B) => f[j + Len(D[v])] = v
  <2>1. BeginsBelow(D[v], Room) /\ AddsUp(D[v], B, v)
    BY <1>1, <1>3, Powers, DigitsAddUp
  <2> QED BY <2>1 DEF BeginsBelow, AddsUp
<1>5. PICK n \in Nat \ {0} : n = Len(D[v])
  BY <1>4
<1>6. Len(res) = k + n /\ k + n \in Nat
  BY <1>2, <1>5
<1>7. PICK a : a = res[1] % Room
  OBVIOUS
<1>8. \E f : Sums(f, k, k + n, a, res, B)
  BY <1>6, SumsExist
<1>9. ValueOf(res, k) = (CHOOSE f : Sums(f, k, k + n, a, res, B))[k + n]
  BY <1>1, <1>6, <1>7 DEF ValueOf, Sums
<1>10. PICK f : /\ Sums(f, k, k + n, a, res, B)
                /\ f = CHOOSE g : Sums(g, k, k + n, a, res, B)
  BY <1>8
<1>11. \A i \in (k + 1)..(k + n) :
          f[i] = IF i = k + 1 THEN a ELSE f[i - 1] * B + res[i]
  BY <1>10 DEF Sums
<1>12. ASSUME NEW i \in 1..n
       PROVE  f[k + i] = IF i = 1 THEN D[v][1] ELSE f[k + i - 1] * B + D[v][i]
  <2>1. PICK j \in (k + 1)..(k + n) : j = k + i /\ (j = k + 1 <=> i = 1)
    OBVIOUS
  <2>2. f[j] = IF j = k + 1 THEN a ELSE f[j - 1] * B + res[j]
    BY <1>11
  <2>3. i # 1 => res[j] = D[v][i]
    <3>1. i # 1 => i \in 2..n
      OBVIOUS
    <3>2. \A h \in 2..n : res[k + h] = D[v][h]
      BY <1>2, <1>5
    <3> QED BY <2>1, <3>1, <3>2
  <2>4. a = D[v][1]
    BY <1>2, <1>7
  <2> QED BY <2>1, <2>2, <2>3, <2>4
<1>13. f[k + n] = v
  BY <1>4, <1>5, <1>12 DEF Adds
<1> QED BY <1>9, <1>10, <1>13

(* The bytes of the first sequence in front of those of the second but     *)
(* its first.                                                              *)
LEMMA Bytes ==
  ASSUME NEW a \in Nat, NEW type \in Seq(Nat), NEW s \in Seq(Nat), Len(s) # 0
  PROVE  Joins(<<a>> \o type \o Tail(s), a, type, s)
<1>1. PICK k \in Nat, n \in Nat : k = Len(type) /\ n + 1 = Len(s)
  OBVIOUS
<1>2. PICK t : t = Tail(s)
  OBVIOUS
<1>3. Len(t) = n /\ t \in Seq(Nat) /\ \A i \in 1..n : t[i] = s[i + 1]
  BY <1>1, <1>2
<1>4. PICK u : u = <<a>> \o type
  OBVIOUS
<1>5. /\ u \in Seq(Nat) /\ Len(u) = 1 + k /\ u[1] = a
      /\ \A i \in 1..k : u[1 + i] = type[i]
  BY <1>1, <1>4
<1>6. PICK res : res = u \o t
  OBVIOUS
<1>7. /\ Len(res) = (1 + k) + n
      /\ \A i \in 1..(1 + k) : res[i] = u[i]
      /\ \A i \in 1..n : res[(1 + k) + i] = t[i]
  <2>1. u \in Seq(Nat) /\ t \in Seq(Nat)
    BY <1>3, <1>5
  <2>2. /\ Len(res) = Len(u) + Len(t)
        /\ \A i \in 1..Len(u) : res[i] = u[i]
        /\ \A i \in 1..Len(t) : res[Len(u) + i] = t[i]
    BY <1>6, <2>1
  <2> QED BY <1>3, <1>5, <2>2
<1>8. res[1] = a /\ \A i \in 1..k : res[1 + i] = type[i]
  <2>1. 1 \in 1..(1 + k) /\ \A i \in 1..k : 1 + i \in 1..(1 + k)
    OBVIOUS
  <2>2. \A i \in 1..(1 + k) : res[i] = u[i]
    BY <1>7
  <2>3. u[1] = a /\ \A i \in 1..k : u[1 + i] = type[i]
    BY <1>5
  <2> QED BY <2>1, <2>2, <2>3
<1>9. ASSUME NEW i \in 2..(n + 1)
      PROVE  res[k + i] = s[i]
  <2>1. i - 1 \in 1..n /\ (1 + k) + (i - 1) = k + i /\ (i - 1) + 1 = i
    OBVIOUS
  <2> QED BY <1>3, <1>7, <2>1
<1>10. Joins(res, a, type, s)
  <2>1. Len(res) = k + (n + 1)
    <3>1. Len(res) = (1 + k) + n
      BY <1>7
    <3> QED BY <3>1
  <2>2. \A i \in 2..(n + 1) : res[k + i] = s[i]
    BY <1>9
  <2>3. Len(type) = k /\ Len(s) = n + 1
    BY <1>1
  <2> QED BY <1>8, <2>1, <2>2, <2>3, Zenon DEF Joins
<1> QED BY <1>2, <1>4, <1>6, <1>10

(* What is encoded is decoded again: the value with its sign, as an int,   *)
(* and the type.                                                           *)
LEMMA Decoded ==
  ASSUME NEW d, Encodable(d), d.t # "string"
  PROVE  /\ Decode(Encode(d)).t = d.t
         /\ Decode(Encode(d)).v = Signed(d.v, IntBits)
         /\ Decode(Encode(d)).index = d.index
<1>1. PICK B \in Nat, R \in Nat \ {0}, M \in Nat :
        /\ R = Room /\ B = 2^Byte /\ B = 4 * R
        /\ M = 2^(2 * Byte - 1) /\ M = 2 * R * B
  <2>1. \A r \in Nat \ {0} : 4 * r \in Nat /\ 2 * r * (4 * r) \in Nat
    OBVIOUS
  <2> QED BY <2>1, PowersAssumption
<1>2. PICK v \in Nat : v = IF d.v < 0 THEN -d.v ELSE d.v
  BY DEF Encodable
<1>3. PICK index \in 0..(M - 1) : index = d.index /\ (index = 0 <=> d.t = "number")
  <2>1. M - 1 \in Nat
    BY <1>1
  <2> QED BY <1>1, <2>1 DEF Encodable
<1>4. PICK i \in Nat : i = index + (IF d.v < 0 THEN M ELSE 0)
  OBVIOUS
<1>5. /\ i < B * B
      /\ (d.v < 0) <=> (i >= M)
      /\ i % M = index
  <2>1. B * B = 2 * M
    BY <1>1
  <2>2. i % M = index
    <3>1. \A m \in Nat : \A j \in 0..(m - 1) : j % m = j /\ (j + m) % m = j
      OBVIOUS
    <3> QED BY <1>4, <3>1
  <2> QED BY <1>4, <2>1, <2>2
<1>6. PICK type : type = IF i = 0 THEN <<>>
                         ELSE IF i < B THEN <<i>>
                         ELSE <<i \div B, i % B>>
  OBVIOUS
<1>7. type \in Seq(Nat) /\ Len(type) \in 0..2
  <2>1. B # 0
    BY <1>1
  <2> QED BY <1>6, <2>1
<1>8. PICK s : s = Digits[v]
  OBVIOUS
<1>9. s \in Seq(Nat) /\ Len(s) # 0 /\ s[1] \in 0..(R - 1)
  <2>1. PICK D : D = Digits
    OBVIOUS
  <2>2. IsDigits(D, R, B)
    BY <1>1, <2>1, DigitsAre DEF IsDigits
  <2>3. D[v] \in Seq(Nat) /\ Len(D[v]) # 0 /\ D[v][1] \in 0..(R - 1)
    <3>1. B = 4 * R
      BY <1>1
    <3> QED BY <2>2, <3>1, FirstDigit
  <2> QED BY <1>8, <2>1, <2>3
<1>10. PICK a \in Nat : a = Len(type) * R + s[1]
  BY <1>7, <1>9
<1>11. a \div R = Len(type) /\ a % R = s[1]
  <2>1. \A k \in 0..2, r \in Nat \ {0} : \A j \in 0..(r - 1) :
          (k * r + j) \div r = k /\ (k * r + j) % r = j
    OBVIOUS
  <2> QED BY <1>7, <1>9, <1>10, <2>1
<1>12. PICK res : res = <<a>> \o type \o Tail(s)
  OBVIOUS
<1>13. /\ res[1] = a /\ Len(res) = Len(type) + Len(s)
       /\ \A j \in 1..Len(type) : res[1 + j] = type[j]
       /\ \A j \in 2..Len(s) : res[Len(type) + j] = s[j]
  <2>1. a \in Nat /\ type \in Seq(Nat) /\ s \in Seq(Nat) /\ Len(s) # 0
    BY <1>7, <1>9, <1>10
  <2>2. Joins(<<a>> \o type \o Tail(s), a, type, s)
    BY <2>1, Bytes
  <2>3. Joins(res, a, type, s)
    BY <1>12, <2>2
  <2> QED BY <2>3 DEF Joins
<1>14. Encode(d) = res
  BY <1>1, <1>2, <1>3, <1>4, <1>6, <1>8, <1>10, <1>12 DEF Encode
<1>15. ValueOf(res, Len(type)) = v
  <2>1. Len(type) \in Nat
    BY <1>7
  <2> QED BY <1>1, <1>8, <1>11, <1>13, <2>1, SumOfDigits
<1>16. i = IF Len(type) = 0 THEN 0
           ELSE IF Len(type) = 1 THEN res[2] ELSE res[2] * B + res[3]
  <2>1. CASE i = 0
    BY <1>6, <2>1
  <2>2. CASE i # 0 /\ i < B
    <3>1. Len(type) = 1 /\ type[1] = i
      BY <1>6, <2>2
    <3>2. 1 \in 1..1 /\ 1 + 1 = 2
      OBVIOUS
    <3> QED BY <1>13, <3>1, <3>2
  <2>3. CASE i # 0 /\ ~(i < B)
    <3>1. Len(type) = 2 /\ type[1] = i \div B /\ type[2] = i % B
      BY <1>6, <2>3
    <3>2. 1 \in 1..2 /\ 1 + 1 = 2 /\ 2 \in 1..2 /\ 1 + 2 = 3
      OBVIOUS
    <3>3. res[2] = i \div B /\ res[3] = i % B
      BY <1>13, <3>1, <3>2
    <3>4. (i \div B) * B + (i % B) = i
      <4>1. B \in Nat \ {0}
        BY <1>1
      <4> QED BY <4>1, Restored
    <3> QED BY <3>1, <3>3, <3>4
  <2> QED BY <2>1, <2>2, <2>3
<1>17. Decode(res) = [t |-> IF index = 0 THEN "number" ELSE "enum",
                      v |-> Signed(IF i >= M THEN -v ELSE v, IntBits),
                      index |-> index]
  <2>1. Len(type) # 3
    <3>1. \A k \in 0..2 : k # 3
      OBVIOUS
    <3> QED BY <1>7, <3>1
  <2>2. Decode(res) = [t |-> IF i % M = 0 THEN "number" ELSE "enum",
                       v |-> Signed(IF i >= M THEN -v ELSE v, IntBits),
                       index |-> i % M]
    BY <1>1, <1>11, <1>13, <1>15, <1>16, <2>1 DEF Decode
  <2> QED BY <1>5, <2>2
<1>18. d.t \in {"number", "enum"} /\ (IF d.v < 0 THEN -v ELSE v) = d.v
  BY <1>2 DEF Encodable
<1>19. (IF i >= M THEN -v ELSE v) = d.v
  BY <1>5, <1>18
<1> QED BY <1>3, <1>14, <1>17, <1>18, <1>19

-----------------------------------------------------------------------------
(***************************************************************************)
(* What is converted there and back again is the same.                     *)
(***************************************************************************)
(* Quotient and remainder are unique.                                      *)
LEMMA Quotient ==
  ASSUME NEW p \in Nat \ {0}, NEW q \in Int, NEW r \in 0..(p - 1),
         NEW n \in Int, n = q * p + r
  PROVE  n \div p = q /\ n % p = r
<1>1. PICK d \in Int, s \in 0..(p - 1) : d = n \div p /\ s = n % p /\ n = d * p + s
  <2>1. n \div p \in Int /\ n % p \in 0..(p - 1)
    OBVIOUS
  <2>2. n = p * (n \div p) + (n % p)
    OBVIOUS
  <2>3. p * (n \div p) = (n \div p) * p
    OBVIOUS
  <2> QED BY <2>1, <2>2, <2>3
<1>2. (q - d) * p = s - r
  <2>1. (q - d) * p = q * p - d * p
    OBVIOUS
  <2> QED BY <1>1, <2>1
<1>3. s - r < p /\ s - r > -p
  BY <1>1
<1>4. q - d = 0
  <2>1. PICK e \in Int : e = q - d
    OBVIOUS
  <2>2. e * p < p /\ e * p > -p
    BY <1>2, <1>3, <2>1
  <2>3. e >= 1 => e * p >= p
    OBVIOUS
  <2>4. e <= -1 => e * p <= -p
    OBVIOUS
  <2> QED BY <2>1, <2>2, <2>3, <2>4
<1>5. q = d /\ s = r
  BY <1>1, <1>4
<1> QED BY <1>1, <1>5

(* A multiple of 2 * p does not change what there is of p, but for an even *)
(* number.                                                                 *)
LEMMA EvenShift ==
  ASSUME NEW p \in Nat \ {0}, NEW a \in Int, NEW k \in Int
  PROVE  ((a + k * (2 * p)) \div p) % 2 = (a \div p) % 2
<1>1. PICK q \in Int, r \in 0..(p - 1) : q = a \div p /\ a = q * p + r
  <2>1. a \div p \in Int /\ a % p \in 0..(p - 1)
    OBVIOUS
  <2>2. a = p * (a \div p) + (a % p)
    OBVIOUS
  <2>3. p * (a \div p) = (a \div p) * p
    OBVIOUS
  <2> QED BY <2>1, <2>2, <2>3
<1>2. PICK n \in Int : n = a + k * (2 * p)
  OBVIOUS
<1>3. PICK c \in Int : c = q + 2 * k
  OBVIOUS
<1>4. n = c * p + r
  <2>1. PICK t \in Int, u \in Int, v \in Int : t = k * (2 * p) /\ u = q * p /\ v = c * p
    OBVIOUS
  <2>2. (q + 2 * k) * p = q * p + k * (2 * p)
    OBVIOUS
  <2>3. v = u + t
    BY <1>3, <2>1, <2>2
  <2>4. n = a + t /\ a = u + r
    BY <1>1, <1>2, <2>1
  <2>5. n = v + r
    BY <2>3, <2>4
  <2> QED BY <2>1, <2>5
<1>5. n \div p = c
  BY <1>4, Quotient
<1>6. c % 2 = q % 2
  BY <1>3
<1> QED BY <1>1, <1>2, <1>5, <1>6

(* The powers of two up to one for a word, and sums of them.               *)
Pow == [i \in 0..(Word + 1) |-> 2^i]

ArePowers(P, w) ==
  /\ w \in Nat
  /\ P[0] = 1 /\ \A i \in 0..w : P[i + 1] = 2 * P[i]

LEMMA PowPowers == ArePowers(Pow, Word) /\ \A i \in 0..(Word + 1) : Pow[i] = 2^i
<1>1. Word \in Nat
  BY ConstantsAssumption
<1>2. 2^0 = 1 /\ \A i \in 0..Word : 2^(i + 1) = 2 * 2^i
  BY PowersAssumption
<1>3. \A i \in 0..(Word + 1) : Pow[i] = 2^i
  BY DEF Pow
<1>4. 0 \in 0..(Word + 1) /\ \A i \in 0..Word : i \in 0..(Word + 1) /\ i + 1 \in 0..(Word + 1)
  BY <1>1
<1>5. Pow[0] = 1
  BY <1>2, <1>3, <1>4
<1>6. ASSUME NEW i \in 0..Word
      PROVE  Pow[i + 1] = 2 * Pow[i]
  <2>1. Pow[i] = 2^i /\ Pow[i + 1] = 2^(i + 1)
    BY <1>3, <1>4
  <2> QED BY <1>2, <2>1
<1> QED BY <1>1, <1>3, <1>5, <1>6 DEF ArePowers

LEMMA PowersGrow ==
  ASSUME NEW P, NEW w, ArePowers(P, w)
  PROVE  /\ \A i \in 0..(w + 1) : P[i] \in Nat \ {0}
         /\ \A i \in 0..(w + 1) : \A j \in 0..(i - 1) :
              \E k \in Nat : P[i] = k * (2 * P[j])
<1>0. w \in Nat
  BY DEF ArePowers
<1> DEFINE Right(i) == /\ P[i] \in Nat \ {0}
                       /\ \A j \in 0..(i - 1) : \E k \in Nat : P[i] = k * (2 * P[j])
           S == {i \in Nat : i <= w + 1 => \A j \in 0..i : P[j] \in Nat \ {0} /\ Right(i)}
<1>1. 0 \in S
  BY DEF ArePowers
<1>2. ASSUME NEW i \in Nat, i \in S
      PROVE  i + 1 \in S
  <2> SUFFICES ASSUME i + 1 <= w + 1
               PROVE  \A j \in 0..(i + 1) : P[j] \in Nat \ {0} /\ Right(i + 1)
    OBVIOUS
  <2>1. i \in 0..w
    BY <1>0
  <2>2. P[i + 1] = 2 * P[i]
    BY <2>1 DEF ArePowers
  <2>3. (\A j \in 0..i : P[j] \in Nat \ {0}) /\ Right(i)
    <3>1. i <= w + 1 /\ i \in 0..i
      BY <2>1, <1>0
    <3> QED BY <1>2, <3>1
  <2>4. P[i] \in Nat \ {0} /\ P[i + 1] \in Nat \ {0}
    <3>1. i \in 0..i
      OBVIOUS
    <3>2. P[i] \in Nat \ {0}
      BY <2>3, <3>1
    <3> QED BY <2>2, <3>2
  <2>5. ASSUME NEW j \in 0..i
        PROVE  \E k \in Nat : P[i + 1] = k * (2 * P[j])
    <3>1. CASE j = i
      <4>1. P[i + 1] = 1 * (2 * P[j])
        BY <2>2, <2>4, <3>1
      <4> QED BY <4>1
    <3>2. CASE j # i
      <4>1. j \in 0..(i - 1)
        BY <3>2
      <4>2. PICK k \in Nat : P[i] = k * (2 * P[j])
        BY <2>3, <4>1
      <4>3. P[j] \in Nat
        BY <2>3
      <4>4. PICK m \in Nat : m = P[j]
        BY <4>3
      <4>5. 2 * (k * (2 * m)) = (2 * k) * (2 * m)
        OBVIOUS
      <4>6. P[i + 1] = (2 * k) * (2 * P[j]) /\ 2 * k \in Nat
        BY <2>2, <4>2, <4>4, <4>5
      <4> QED BY <4>6
    <3> QED BY <3>1, <3>2
  <2>6. \A j \in 0..(i + 1) : P[j] \in Nat \ {0}
    <3>1. \A j \in 0..(i + 1) : j \in 0..i \/ j = i + 1
      OBVIOUS
    <3> QED BY <2>3, <2>4, <3>1
  <2>7. (i + 1) - 1 = i
    OBVIOUS
  <2> QED BY <2>4, <2>5, <2>6, <2>7
<1>3. Nat \subseteq S
  <2> HIDE DEF S
  <2> QED BY <1>1, <1>2, AllNumbers
<1>4. ASSUME NEW i \in 0..(w + 1)
      PROVE  Right(i)
  <2>1. i \in S /\ i <= w + 1 /\ i \in 0..i
    BY <1>0, <1>3
  <2> QED BY <2>1
<1> QED BY <1>4

(* S adds up the powers of the members of b.                               *)
AddsPowers(S, P, b, w) ==
  S[0] = 0 /\ \A i \in 0..(w - 1) : S[i + 1] = S[i] + (IF i \in b THEN P[i] ELSE 0)

Bit(n, p) == (n \div p) % 2 = 1

LEMMA TopBit ==
  ASSUME NEW p \in Nat \ {0}, NEW a \in 0..(p - 1)
  PROVE  ~Bit(a, p) /\ Bit(a + p, p)
<1>1. a = 0 * p + a /\ a + p = 1 * p + a /\ 0 \in Int /\ 1 \in Int /\ a + p \in Int /\ a \in Int
  OBVIOUS
<1>2. a \div p = 0
  <2>1. PICK z \in Int : z = 0
    OBVIOUS
  <2>2. a = z * p + a
    BY <2>1
  <2>3. a \div p = z
    BY <2>2, Quotient
  <2> QED BY <2>1, <2>3
<1>3. (a + p) \div p = 1
  <2>1. PICK z \in Int, n \in Int : z = 1 /\ n = a + p
    OBVIOUS
  <2>2. n = z * p + a
    BY <2>1
  <2>3. n \div p = z
    BY <2>2, Quotient
  <2> QED BY <2>1, <2>3
<1> QED BY <1>2, <1>3 DEF Bit

(* The bits of such a sum are the members of b.                            *)
LEMMA SumBits ==
  ASSUME NEW P, NEW w, ArePowers(P, w), NEW b, NEW S, AddsPowers(S, P, b, w)
  PROVE  S[w] \in 0..(P[w] - 1) /\ \A j \in 0..(w - 1) : Bit(S[w], P[j]) <=> j \in b
<1>0. w \in Nat /\ \A i \in 0..(w + 1) : P[i] \in Nat \ {0}
  BY PowersGrow DEF ArePowers
<1> DEFINE Right(i) == /\ S[i] \in 0..(P[i] - 1)
                       /\ \A j \in 0..(i - 1) : Bit(S[i], P[j]) <=> j \in b
           T == {i \in Nat : i <= w => Right(i)}
<1>1. 0 \in T
  BY DEF AddsPowers, ArePowers
<1>2. ASSUME NEW i \in Nat, i \in T
      PROVE  i + 1 \in T
  <2> SUFFICES ASSUME i + 1 <= w PROVE Right(i + 1)
    OBVIOUS
  <2>1. i \in 0..(w - 1) /\ i \in 0..(w + 1) /\ i \in 0..w
    BY <1>0
  <2>2. PICK p \in Nat \ {0} : p = P[i]
    BY <1>0, <2>1
  <2>3. P[i + 1] = 2 * p
    BY <2>1, <2>2 DEF ArePowers
  <2>4. i <= w
    BY <2>1
  <2>5. Right(i)
    BY <1>2, <2>4
  <2>6. PICK a \in 0..(p - 1) : a = S[i]
    BY <2>2, <2>5
  <2>7. S[i + 1] = a + (IF i \in b THEN p ELSE 0)
    BY <2>1, <2>2, <2>6 DEF AddsPowers
  <2>8. S[i + 1] \in 0..(2 * p - 1)
    BY <2>7
  <2>9. Bit(S[i + 1], p) <=> i \in b
    <3>1. ~Bit(a, p) /\ Bit(a + p, p)
      BY TopBit
    <3>2. i \in b => S[i + 1] = a + p
      BY <2>7
    <3>3. i \notin b => S[i + 1] = a
      BY <2>7
    <3> QED BY <3>1, <3>2, <3>3
  <2>10. ASSUME NEW j \in 0..(i - 1)
         PROVE  Bit(S[i + 1], P[j]) <=> j \in b
    <3>1. Bit(a, P[j]) <=> j \in b
      BY <2>5, <2>6
    <3>2. i \notin b => S[i + 1] = a
      BY <2>7
    <3>3. i \in b => (Bit(S[i + 1], P[j]) <=> Bit(a, P[j]))
      <4>1. PICK q \in Nat \ {0} : q = P[j]
        <5>1. j \in 0..(w + 1)
          BY <1>0, <2>1
        <5> QED BY <1>0, <5>1
      <4>2. \E k \in Nat : P[i] = k * (2 * P[j])
        BY <2>1, PowersGrow
      <4>3. PICK k \in Nat : p = k * (2 * q)
        BY <2>2, <4>1, <4>2
      <4>4. ((a + k * (2 * q)) \div q) % 2 = (a \div q) % 2
        BY EvenShift
      <4>5. ((a + p) \div q) % 2 = (a \div q) % 2
        BY <4>3, <4>4
      <4>6. i \in b => S[i + 1] = a + p
        BY <2>7
      <4> QED BY <4>1, <4>5, <4>6 DEF Bit
    <3> QED BY <3>1, <3>2, <3>3
  <2>11. \A j \in 0..((i + 1) - 1) : j = i \/ j \in 0..(i - 1)
    OBVIOUS
  <2> QED BY <2>2, <2>3, <2>8, <2>9, <2>10, <2>11
<1>3. w \in T
  <2> HIDE DEF T
  <2> QED BY <1>0, <1>1, <1>2, AllNumbers
<1>4. w <= w
  BY <1>0
<1> QED BY <1>3, <1>4

(* A number is the sum of the powers of its bits.                          *)
LEMMA BitsSum ==
  ASSUME NEW P, NEW w, ArePowers(P, w), NEW n \in Nat, n < P[w], NEW b, NEW S,
         AddsPowers(S, P, b, w), \A i \in 0..(w - 1) : i \in b <=> Bit(n, P[i])
  PROVE  S[w] = n
<1>0. w \in Nat /\ \A i \in 0..(w + 1) : P[i] \in Nat \ {0}
  BY PowersGrow DEF ArePowers
<1> DEFINE T == {i \in Nat : i <= w => S[i] = n % P[i]}
<1>1. 0 \in T
  <2>1. n % 1 = 0
    OBVIOUS
  <2> QED BY <2>1 DEF AddsPowers, ArePowers
<1>2. ASSUME NEW i \in Nat, i \in T
      PROVE  i + 1 \in T
  <2> SUFFICES ASSUME i + 1 <= w PROVE S[i + 1] = n % P[i + 1]
    OBVIOUS
  <2>1. i \in 0..(w - 1) /\ i \in 0..(w + 1) /\ i \in 0..w /\ i <= w
    BY <1>0
  <2>2. PICK p \in Nat \ {0} : p = P[i]
    BY <1>0, <2>1
  <2>3. P[i + 1] = 2 * p
    BY <2>1, <2>2 DEF ArePowers
  <2>4. PICK q \in Nat, r \in 0..(p - 1) : q = n \div p /\ r = n % p /\ n = q * p + r
    <3>1. n \div p \in Nat /\ n % p \in 0..(p - 1)
      OBVIOUS
    <3>2. (n \div p) * p + (n % p) = n
      BY Restored
    <3> QED BY <3>1, <3>2
  <2>5. S[i] = r
    BY <1>2, <2>1, <2>2, <2>4
  <2>6. i \in b <=> q % 2 = 1
    BY <2>1, <2>2, <2>4 DEF Bit
  <2>7. PICK h \in Nat, t \in {0, 1} : q = 2 * h + t /\ t = q % 2
    <3>1. q = 2 * (q \div 2) + (q % 2) /\ q \div 2 \in Nat /\ q % 2 \in {0, 1}
      OBVIOUS
    <3> QED BY <3>1
  <2>8. PICK m \in Nat \ {0}, l \in Nat : m = 2 * p /\ l = t * p + r
    <3>1. t = 0 \/ t = 1
      OBVIOUS
    <3>2. 2 * p \in Nat \ {0}
      OBVIOUS
    <3>3. t * p + r \in Nat
      BY <3>1
    <3> QED BY <3>2, <3>3
  <2>9. l \in 0..(m - 1)
    <3>1. t = 0 \/ t = 1
      OBVIOUS
    <3> QED BY <2>8, <3>1
  <2>10. n = h * m + l
    <3>1. PICK u \in Int, v \in Int : u = h * (2 * p) /\ v = t * p
      OBVIOUS
    <3>2. (2 * h + t) * p = h * (2 * p) + t * p
      OBVIOUS
    <3>3. q * p = u + v
      BY <2>7, <3>1, <3>2
    <3>4. h * m = u /\ l = v + r
      BY <2>8, <3>1
    <3> QED BY <2>4, <3>3, <3>4
  <2>11. n % m = l
    <3>1. h \in Int /\ n \in Int
      OBVIOUS
    <3> HIDE <2>4, <2>7, <2>8
    <3> QED BY <3>1, <2>9, <2>10, Quotient
  <2>12. S[i + 1] = r + (IF i \in b THEN p ELSE 0)
    BY <2>1, <2>2, <2>5 DEF AddsPowers
  <2>13. t = 0 \/ t = 1
    OBVIOUS
  <2>14. l = r + (IF i \in b THEN p ELSE 0)
    BY <2>6, <2>7, <2>8, <2>13
  <2> QED BY <2>3, <2>8, <2>11, <2>12, <2>14
<1>3. w \in T
  <2> HIDE DEF T
  <2> QED BY <1>0, <1>1, <1>2, AllNumbers
<1>4. w <= w /\ w \in 0..(w + 1)
  BY <1>0
<1>5. S[w] = n % P[w] /\ P[w] \in Nat \ {0}
  BY <1>0, <1>3, <1>4
<1>6. \A m \in Nat \ {0} : n < m => n % m = n
  OBVIOUS
<1> QED BY <1>5, <1>6

(* f adds them up one after the other.                                     *)
SumsUp(f, P, b, w) ==
  f = [i \in 0..w |-> IF i = 0 THEN 0
                      ELSE f[i - 1] + (IF i - 1 \in b THEN P[i - 1] ELSE 0)]

LEMMA AddsExist ==
  ASSUME NEW P, NEW b, NEW w \in Nat
  PROVE  \E f : SumsUp(f, P, b, w)
<1> DEFINE Step(f, i) == IF i = 0 THEN 0
                         ELSE f[i - 1] + (IF i - 1 \in b THEN P[i - 1] ELSE 0)
           Runs(f, m) == f = [i \in 0..m |-> Step(f, i)]
           T == {m \in Nat : \E f : Runs(f, m)}
<1>1. 0 \in T
  <2> DEFINE f == [i \in 0..0 |-> 0]
  <2>1. Runs(f, 0)
    OBVIOUS
  <2> QED BY <2>1
<1>2. ASSUME NEW m \in Nat, m \in T
      PROVE  m + 1 \in T
  <2>1. PICK f : Runs(f, m)
    BY <1>2
  <2> DEFINE g == [i \in 0..(m + 1) |-> IF i = m + 1 THEN Step(f, m + 1) ELSE f[i]]
             h == [i \in 0..(m + 1) |-> Step(g, i)]
  <2>2. ASSUME NEW i \in 0..(m + 1)
        PROVE  g[i] = h[i]
    <3>1. i # 0 => g[i - 1] = f[i - 1]
      BY <2>1
    <3>2. CASE i = m + 1
      BY <3>1, <3>2
    <3>3. CASE i # m + 1
      <4>1. f[i] = Step(f, i)
        BY <2>1, <3>3
      <4> QED BY <3>1, <3>3, <4>1
    <3> QED BY <3>2, <3>3
  <2>3. g = h
    BY <2>2
  <2>4. Runs(g, m + 1)
    BY <2>3
  <2> HIDE DEF g, Runs
  <2>5. m + 1 \in Nat
    OBVIOUS
  <2> QED BY <2>4, <2>5, Zenon
<1>3. w \in T
  <2> HIDE DEF T
  <2> QED BY <1>1, <1>2, AllNumbers
<1> QED BY <1>3 DEF SumsUp

LEMMA NumberSum ==
  ASSUME NEW b \in SUBSET (0..(Word - 1))
  PROVE  \E S : AddsPowers(S, Pow, b, Word) /\ Number(b) = S[Word]
<1>0. Word \in Nat
  BY ConstantsAssumption
<1> DEFINE Runs(f) == f = [i \in 0..Word |->
                             IF i = 0 THEN 0
                             ELSE f[i - 1] + (IF i - 1 \in b THEN 2^(i - 1) ELSE 0)]
<1>1. \E f : Runs(f)
  <2>1. PICK P : P = [i \in 0..(Word + 1) |-> 2^i]
    OBVIOUS
  <2>2. PICK f : SumsUp(f, P, b, Word)
    BY <1>0, AddsExist
  <2>3. ASSUME NEW i \in 0..Word
        PROVE  (IF i = 0 THEN 0 ELSE f[i - 1] + (IF i - 1 \in b THEN P[i - 1] ELSE 0))
                 = (IF i = 0 THEN 0 ELSE f[i - 1] + (IF i - 1 \in b THEN 2^(i - 1) ELSE 0))
    <3>1. i # 0 => i - 1 \in 0..(Word + 1)
      BY <1>0
    <3>2. i # 0 => P[i - 1] = 2^(i - 1)
      BY <2>1, <3>1
    <3> QED BY <3>2
  <2>4. Runs(f)
    BY <2>2, <2>3 DEF SumsUp
  <2> HIDE DEF Runs
  <2> QED BY <2>4
<1>2. Number(b) = (CHOOSE f : Runs(f))[Word]
  BY DEF Number, Numbers
<1>3. PICK S : S = CHOOSE f : Runs(f)
  OBVIOUS
<1>4. Runs(S)
  <2> HIDE DEF Runs
  <2> QED BY <1>1, <1>3
<1>5. S[0] = 0
  <2>1. 0 \in 0..Word
    BY <1>0
  <2> QED BY <1>4, <2>1
<1>6. ASSUME NEW i \in 0..(Word - 1)
      PROVE  S[i + 1] = S[i] + (IF i \in b THEN Pow[i] ELSE 0)
  <2>1. i + 1 \in 0..Word /\ i + 1 # 0 /\ (i + 1) - 1 = i /\ i \in 0..(Word + 1)
    BY <1>0
  <2>2. S[i + 1] = S[i] + (IF i \in b THEN 2^i ELSE 0)
    BY <1>4, <2>1
  <2> QED BY <2>1, <2>2, PowPowers
<1> QED BY <1>2, <1>3, <1>5, <1>6 DEF AddsPowers

LEMMA WordPowers ==
  /\ Word \in Nat /\ IntBits \in Nat /\ IntBits # 0 /\ IntBits <= Word
  /\ \A i \in 0..Word : 2^i \in Nat \ {0} /\ Pow[i] = 2^i
<1>1. Word \in Nat /\ IntBits \in Nat /\ IntBits # 0 /\ IntBits <= Word
  BY ConstantsAssumption
<1>2. \A i \in 0..Word : i \in 0..(Word + 1)
  BY <1>1
<1> QED BY <1>1, <1>2, PowPowers, PowersGrow

(* The number of a set of bits has those bits.                             *)
LEMMA NumberBits ==
  ASSUME NEW b \in SUBSET (0..(Word - 1))
  PROVE  /\ Number(b) \in Nat
         /\ \A i \in 0..(Word - 1) : Bit(Number(b), 2^i) <=> i \in b
<1>1. PICK S : AddsPowers(S, Pow, b, Word) /\ Number(b) = S[Word]
  BY NumberSum
<1>2. S[Word] \in 0..(Pow[Word] - 1) /\ \A i \in 0..(Word - 1) : Bit(S[Word], Pow[i]) <=> i \in b
  BY <1>1, PowPowers, SumBits
<1>3. \A i \in 0..(Word - 1) : i \in 0..Word
  BY WordPowers
<1> QED BY <1>1, <1>2, <1>3, WordPowers

(* The number of the bits of a number is that number.                      *)
LEMMA NumberOfBits ==
  ASSUME NEW n \in Nat, n < 2^Word
  PROVE  Bits(n, Word) \subseteq 0..(Word - 1) /\ Number(Bits(n, Word)) = n
<1>1. PICK b : b = Bits(n, Word)
  OBVIOUS
<1>2. b \in SUBSET (0..(Word - 1))
  BY <1>1 DEF Bits
<1>3. PICK S : AddsPowers(S, Pow, b, Word) /\ Number(b) = S[Word]
  BY <1>2, NumberSum
<1>4. \A i \in 0..(Word - 1) : i \in 0..Word
  BY WordPowers
<1>5. \A i \in 0..(Word - 1) : i \in b <=> Bit(n, Pow[i])
  BY <1>1, <1>4, WordPowers DEF Bits, Bit
<1>6. n < Pow[Word]
  <2>1. Word \in 0..Word
    BY WordPowers
  <2> QED BY <2>1, WordPowers
<1>7. S[Word] = n
  BY <1>3, <1>5, <1>6, PowPowers, BitsSum
<1> QED BY <1>1, <1>2, <1>3, <1>7

(* Two's complement: what is cut to w bits stays as it is when it is cut   *)
(* again, with or without its sign.                                        *)
LEMMA SignedAgain ==
  ASSUME NEW n \in Int, NEW w \in {IntBits, Word}
  PROVE  /\ Signed(n, w) \in Int /\ Unsigned(n, w) \in Int
         /\ Unsigned(Signed(n, w), w) = Unsigned(n, w)
         /\ Unsigned(Unsigned(n, w), w) = Unsigned(n, w)
         /\ Signed(Unsigned(n, w), w) = Signed(n, w)
         /\ Signed(Signed(n, w), w) = Signed(n, w)
         /\ \E k \in Int : Signed(n, w) = n + k * 2^w
<1>1. w \in Nat /\ w - 1 \in 0..Word /\ w \in 0..Word
  BY WordPowers
<1>2. PICK H \in Nat \ {0}, M \in Nat \ {0} : H = 2^(w - 1) /\ M = 2^w
  BY <1>1, WordPowers
<1>3. M = 2 * H
  <2>1. (w - 1) + 1 = w
    BY <1>1
  <2> QED BY <1>1, <1>2, <2>1, PowersAssumption
<1>4. PICK u \in 0..(M - 1), q \in Int : u = n % M /\ n = q * M + u
  <2>1. n \div M \in Int /\ n % M \in 0..(M - 1)
    OBVIOUS
  <2>2. n = M * (n \div M) + (n % M)
    OBVIOUS
  <2>3. M * (n \div M) = (n \div M) * M
    OBVIOUS
  <2> QED BY <2>1, <2>2, <2>3
<1>5. PICK s \in Int : s = IF u < H THEN u ELSE u - M
  OBVIOUS
<1>6. \A m \in Int : Unsigned(m, w) = m % M
  BY <1>2 DEF Unsigned
<1>7. \A m \in Int : Signed(m, w) = IF m % M < H THEN m % M ELSE (m % M) - M
  BY <1>2, <1>6 DEF Signed
<1>8. Unsigned(n, w) = u /\ Signed(n, w) = s
  BY <1>4, <1>5, <1>6, <1>7
<1>9. u % M = u /\ (u - M) % M = u
  <2>1. \A m \in Nat \ {0} : \A j \in 0..(m - 1) : j % m = j /\ (j - m) % m = j
    OBVIOUS
  <2> QED BY <2>1
<1>10. s % M = u
  BY <1>5, <1>9
<1>11. \E k \in Int : s = n + k * M
  <2>1. PICK t \in Int : t = q * M
    OBVIOUS
  <2>2. PICK a \in Int, b \in Int : a = -q /\ b = -q - 1
    OBVIOUS
  <2>3. a * M = -t /\ b * M = -t - M
    <3>1. (-q) * M = -(q * M) /\ (-q - 1) * M = -(q * M) - M
      OBVIOUS
    <3> QED BY <2>1, <2>2, <3>1
  <2>4. n = t + u
    BY <1>4, <2>1
  <2>5. s = n - t \/ s = n - t - M
    BY <1>5, <2>4
  <2>6. s = n + a * M \/ s = n + b * M
    BY <2>3, <2>5
  <2> QED BY <2>6
<1>12. u \in Int
  OBVIOUS
<1>13. Unsigned(u, w) = u /\ Unsigned(s, w) = u
  BY <1>6, <1>9, <1>10, <1>12
<1>14. Signed(u, w) = s /\ Signed(s, w) = s
  BY <1>5, <1>7, <1>9, <1>10, <1>12
<1> QED BY <1>2, <1>8, <1>11, <1>12, <1>13, <1>14

LEMMA BitOfSigned ==
  ASSUME NEW n \in Int, NEW w \in {IntBits, Word}, NEW i \in 0..(w - 1)
  PROVE  Bit(Signed(n, w), 2^i) <=> Bit(n, 2^i)
<1>1. /\ w \in Nat /\ w \in 0..(Word + 1) /\ w \in 0..Word /\ i \in 0..Word
  BY WordPowers
<1>2. PICK p \in Nat \ {0} : p = 2^i /\ p = Pow[i]
  BY <1>1, WordPowers
<1>3. \E m \in Nat : Pow[w] = m * (2 * Pow[i])
  BY <1>1, PowPowers, PowersGrow
<1>4. PICK m \in Nat : 2^w = m * (2 * p)
  BY <1>1, <1>2, <1>3, WordPowers
<1>5. PICK k \in Int : Signed(n, w) = n + k * 2^w
  BY SignedAgain
<1>6. PICK c \in Int : c = k * m
  OBVIOUS
<1>7. k * (m * (2 * p)) = (k * m) * (2 * p)
  OBVIOUS
<1>8. Signed(n, w) = n + c * (2 * p)
  BY <1>4, <1>5, <1>6, <1>7
<1>9. ((n + c * (2 * p)) \div p) % 2 = (n \div p) % 2
  BY EvenShift
<1> QED BY <1>2, <1>8, <1>9 DEF Bit

(* A field can be set to what reading it gives.                            *)
LEMMA FieldsAgain ==
  ASSUME NEW f \in Field
  PROVE  FieldAgain(f)
<1> SUFFICES ASSUME Kind[f] \in {"long", "enum", "double"}
             PROVE  {i \in Bits(Struct2Lua(f, GetBits(f)).n, Word) : i < Size[f]} = GetBits(f)
  BY DEF FieldAgain
<1>1. PICK b : b = GetBits(f)
  OBVIOUS
<1>2. Size[f] \in Nat /\ Size[f] <= Word /\ Word \in Nat /\ IntBits \in Nat /\ IntBits <= Word
      /\ (Kind[f] = "enum" => Size[f] <= IntBits)
  BY Begins, WordPowers, FieldsAssumption
<1>3. b \subseteq 0..(Size[f] - 1)
  BY <1>1, GetsPlace
<1>4. b \in SUBSET (0..(Word - 1))
  BY <1>2, <1>3
<1>5. PICK N \in Nat : N = Number(b) /\ \A i \in 0..(Word - 1) : Bit(N, 2^i) <=> i \in b
  BY <1>4, NumberBits
<1>6. PICK n : n = Struct2Lua(f, b).n
  OBVIOUS
<1>7. \A i \in 0..(Size[f] - 1) : Bit(n, 2^i) <=> Bit(N, 2^i)
  <2>0. N \in Int
    OBVIOUS
  <2>1. CASE Kind[f] = "long"
    <3>1. n = N
      BY <1>5, <1>6, <2>1 DEF Struct2Lua, StructLong, Num, Value
    <3> QED BY <3>1
  <2>2. CASE Kind[f] = "enum"
    <3>1. n = Signed(N, IntBits)
      BY <1>5, <1>6, <2>2, FieldsAssumption DEF Struct2Lua, StructEnum, PushConstant, Enum
    <3>2. \A i \in 0..(Size[f] - 1) : i \in 0..(IntBits - 1)
      BY <1>2, <2>2
    <3> QED BY <2>0, <3>1, <3>2, BitOfSigned
  <2>3. CASE Kind[f] = "double"
    <3>1. n = Signed(N, Word)
      BY <1>5, <1>6, <2>3 DEF Struct2Lua, StructDouble, Num, Value
    <3>2. \A i \in 0..(Size[f] - 1) : i \in 0..(Word - 1)
      BY <1>2
    <3> QED BY <2>0, <3>1, <3>2, BitOfSigned
  <2> QED BY <2>1, <2>2, <2>3
<1>8. \A i \in 0..(Size[f] - 1) : i \in 0..(Word - 1)
  BY <1>2
<1>9. \A i : i \in {j \in Bits(n, Word) : j < Size[f]} <=> i \in b
  <2>1. \A i : i \in Bits(n, Word) <=> i \in 0..(Word - 1) /\ Bit(n, 2^i)
    BY DEF Bits, Bit
  <2>2. \A i \in 0..(Word - 1) : i < Size[f] <=> i \in 0..(Size[f] - 1)
    BY <1>2
  <2> QED BY <1>3, <1>5, <1>7, <1>8, <2>1, <2>2
<1> QED BY <1>1, <1>6, <1>9

(* What fits an int stays what it is.                                      *)
LEMMA AsIntIs ==
  ASSUME NEW n \in Int
  PROVE  AsInt(n) = Signed(n, IntBits) /\ AsInt(n) \in Int
<1>1. IntBits \in {IntBits, Word} /\ IntBits - 1 \in 0..Word /\ IntBits \in 0..Word
  BY WordPowers
<1>2. PICK H \in Nat \ {0}, M \in Nat \ {0} :
        H = 2^(IntBits - 1) /\ M = 2^IntBits /\ M = 2 * H
  <2>1. (IntBits - 1) + 1 = IntBits
    BY <1>1, WordPowers
  <2>2. 2^((IntBits - 1) + 1) = 2 * 2^(IntBits - 1)
    BY <1>1, PowersAssumption
  <2> QED BY <1>1, <2>1, <2>2, WordPowers
<1>3. Signed(n, IntBits) = IF n % M < H THEN n % M ELSE (n % M) - M
  BY <1>2 DEF Signed, Unsigned
<1>4. ASSUME n \in -H..(H - 1)
      PROVE  (IF n % M < H THEN n % M ELSE (n % M) - M) = n
  <2>1. CASE n >= 0
    <3>1. n % M = n
      BY <1>2, <1>4, <2>1, Quotient
    <3> QED BY <1>4, <3>1
  <2>2. CASE n < 0
    <3>1. n = (-1) * M + (n + M) /\ n + M \in 0..(M - 1)
      BY <1>2, <1>4, <2>2
    <3>2. n % M = n + M
      BY <3>1, Quotient
    <3> QED BY <1>2, <1>4, <2>2, <3>2
  <2> QED BY <1>4, <2>1, <2>2
<1>5. AsInt(n) = Signed(n, IntBits)
  BY <1>2, <1>3, <1>4 DEF AsInt, Ints
<1>6. Signed(n, IntBits) \in Int
  BY SignedAgain
<1> QED BY <1>5, <1>6

(* Each constant of the tables, at the limits of the encoding, too.        *)
LEMMA PushedAgain ==
  ASSUME NEW m, NEW d, Encodable(d)
  PROVE  Pushed(m, Decode(Encode(d))) = Pushed(m, AsDeclared(d))
<1>1. CASE d.t = "string"
  <2>1. Encode(d) = <<3 * Room, d.v>>
    BY <1>1 DEF Encode
  <2>2. (3 * Room) \div Room = 3
    <3>1. \A r \in Nat \ {0} : (3 * r) \div r = 3
      OBVIOUS
    <3> QED BY <3>1, Powers
  <2>3. Decode(Encode(d)) = [t |-> "string", v |-> d.v, index |-> 0]
    BY <2>1, <2>2 DEF Decode
  <2> QED BY <1>1, <2>3 DEF Pushed, AsDeclared
<1>2. CASE d.t # "string"
  <2>1. AsInt(d.v) = Signed(d.v, IntBits)
    BY <1>2, AsIntIs DEF Encodable
  <2> QED BY <1>2, <2>1, Decoded DEF Pushed, AsDeclared
<1> QED BY <1>1, <1>2

LEMMA GivesExact ==
  ASSUME ConstantsExact, NEW r, Gives(r)
  PROVE  x' = meant'
BY DEF ConstantsExact, Gives, Outcome

LEMMA CalculatesExact ==
  ASSUME ConstantsExact, Calculates
  PROVE  x' = meant'
<1>1. ASSUME NEW v, Write(v)
      PROVE  x' = meant'
  BY <1>1 DEF Write
<1>2. ASSUME NEW k \in Named(used), ReadConstant(k[1], k[2])
      PROVE  x' = meant'
  <2>0. PICK m \in DOMAIN Declared : m = k[1]
    BY DEF Named
  <2>1. PICK n : n = Spelled(m, k[2])
    OBVIOUS
  <2>2. DOMAIN Table[m] = DOMAIN Declared[m]
        /\ \A s \in DOMAIN Declared[m] : Table[m][s] = Encode(Declared[m][s])
    BY DEF Table
  <2>3. n \in DOMAIN Declared[m]
        /\ Outcome(Pushed(m, Decode(Table[m][n])),
                   Pushed(m, AsDeclared(Declared[m][n])))
    BY <1>2, <2>0, <2>1, <2>2 DEF ReadConstant
  <2>4. Encodable(Declared[m][n])
    BY <2>3, ConstantsAssumption
  <2>5. Outcome(Pushed(m, AsDeclared(Declared[m][n])),
               Pushed(m, AsDeclared(Declared[m][n])))
    BY <2>2, <2>3, <2>4, PushedAgain
  <2> QED BY <2>5, GivesExact DEF Gives
<1>3. ASSUME NEW y, NEW r, Arithmetic(y, r)
      PROVE  x' = meant'
  BY <1>3, GivesExact DEF Arithmetic
<1>4. CASE ToNumber
  BY <1>3, <1>4 DEF ToNumber
<1>5. ASSUME NEW y, Add(y) \/ AddTo(y) \/ Subtract(y) \/ SubtractFrom(y)
      PROVE  x' = meant'
  BY <1>3, <1>5 DEF Add, AddTo, Subtract, SubtractFrom
<1>6. ASSUME NEW y, Test(y) \/ Compare(y)
      PROVE  x' = meant'
  BY <1>3, <1>6 DEF Test, Compare
<1> QED BY <1>1, <1>2, <1>4, <1>5, <1>6 DEF Calculates

LEMMA AccessesExact ==
  ASSUME ConstantsExact, Accesses
  PROVE  x' = meant'
<1>1. ASSUME NEW f, ReadField(f)
      PROVE  x' = meant'
  BY <1>1, GivesExact DEF ReadField
<1>2. ASSUME NEW f, WriteField(f)
      PROVE  x' = meant'
  BY <1>2 DEF WriteField, WriteLong, WriteEnum, WriteDouble, WriteCharPtr, Assigns,
              constVars, ConstantsExact
<1>3. ASSUME NEW f, NEW b, LibraryWrites(f, b)
      PROVE  x' = meant'
  BY <1>3 DEF LibraryWrites, Assigns, constVars, ConstantsExact
<1> QED BY <1>1, <1>2, <1>3 DEF Accesses

LEMMA TransfersExactly ==
  ASSUME ConstantsExact, Transfers
  PROVE  x' = meant'
<1>1. ASSUME NEW st, Ends(st)
      PROVE  x' = meant'
  BY <1>1 DEF Ends, constVars, ConstantsExact
<1>2. ASSUME NEW p, ObjectGet(p)
      PROVE  x' = meant'
  BY <1>2, GivesExact DEF ObjectGet
<1>3. ASSUME NEW pairs, ObjectSet(pairs)
      PROVE  x' = meant'
  BY <1>1, <1>3 DEF ObjectSet
<1>4. ASSUME NEW c, ListStoreSet(c)
      PROVE  x' = meant'
  BY <1>1, <1>4 DEF ListStoreSet
<1>5. ASSUME NEW p, NEW c, LibrarySets(p, c)
      PROVE  x' = meant'
  BY <1>5 DEF LibrarySets, constVars, ConstantsExact
<1>6. ASSUME NEW f, CallFunction(f)
      PROVE  x' = meant'
  BY <1>6, GivesExact DEF CallFunction
<1>7. ASSUME NEW f, NEW n, Callback(f, n)
      PROVE  x' = meant'
  BY <1>7, GivesExact DEF Callback
<1>8. CASE PassGValue
  BY <1>8, GivesExact DEF PassGValue
<1> QED BY <1>2, <1>3, <1>4, <1>5, <1>6, <1>7, <1>8 DEF Transfers

(* A constant that the program reads is what it was declared as: kind,     *)
(* sign and type, and the value itself if an int can hold it, else the int *)
(* that it is cut to, whatever values, types and tables there are, as long *)
(* as types have 15 bits (encode_enum_v2, _decode_constant_v2).            *)
THEOREM ConstantsStay == Spec => []ConstantsExact
<1>1. Init => ConstantsExact
  BY DEF Init, ConstantsExact
<1>2. ConstantsExact /\ [Next]_vars => ConstantsExact'
  BY CalculatesExact, AccessesExact, TransfersExactly
     DEF Next, vars, constVars, ConstantsExact
<1> QED BY <1>1, <1>2, PTL DEF Spec

(* The values that conversions make are proper.                            *)
LEMMA ProperValues ==
  /\ \A n \in Int : Proper(Num(n))
  /\ \A b : Proper(Bool(b))
  /\ \A s \in Seq(Token \cup Int) : Proper(Str(s))
  /\ \A ts : \A n \in Int : Proper(Enum(ts, n))
  /\ Proper(Nil) /\ Proper(Error) /\ Proper(Crash)
  /\ \A o : Proper(Obj(o))
BY DEF Proper, Num, Bool, Str, Enum, Nil, Error, Crash, Obj, Value

LEMMA SignedInt ==
  ASSUME NEW n \in Int, NEW w \in {IntBits, Word}
  PROVE  Signed(n, w) \in Int /\ Unsigned(n, w) \in Int
BY SignedAgain

LEMMA PushProper ==
  ASSUME NEW ts, NEW n \in Int
  PROVE  Proper(PushConstant(ts, n))
BY SignedInt, ProperValues DEF PushConstant

LEMMA NumericInt ==
  ASSUME NEW v, Proper(v)
  PROVE  Numeric(v) \in Int
<1>1. CASE ~IsNumeric(v) \/ v.t = "number"
  BY <1>1 DEF Numeric, Proper
<1>2. CASE IsNumeric(v) /\ v.t # "number"
  <2>1. v.s \in Seq(Token \cup Int) /\ Len(v.s) = 1 /\ v.s[1] \notin Token
    BY <1>2 DEF IsNumeric, Proper
  <2>2. v.s[1] \in Token \cup Int
    BY <2>1
  <2> QED BY <1>2, <2>1, <2>2 DEF Numeric
<1> QED BY <1>1, <1>2

(* What the tables have: a number, or a word.                              *)
LEMMA PushedProper ==
  ASSUME NEW m, NEW d, Encodable(d)
  PROVE  Proper(Pushed(m, AsDeclared(d)))
<1>1. CASE d.t = "string"
  <2>1. <<d.v>> \in Seq(Token \cup Int)
    BY <1>1 DEF Encodable
  <2> QED BY <1>1, <2>1, ProperValues DEF Pushed, AsDeclared
<1>2. CASE d.t # "string"
  <2>1. AsInt(d.v) \in Int
    BY <1>2, AsIntIs DEF Encodable
  <2> QED BY <1>2, <2>1, PushProper, ProperValues DEF Pushed, AsDeclared, Encodable
<1> QED BY <1>1, <1>2

(* A set of numbers has a least member.                                    *)
LEMMA LeastMember ==
  ASSUME NEW T, T \subseteq Nat, T # {}
  PROVE  Min(T) \in T
<1> DEFINE Below == {n \in Nat : \A m \in T : n <= m}
<1>1. PICK t \in T : t \in Nat
  OBVIOUS
<1>2. \E m \in T : \A k \in T : m <= k
  <2> SUFFICES ASSUME \A m \in T : \E k \in T : ~(m <= k)
               PROVE  FALSE
    OBVIOUS
  <2>1. 0 \in Below
    OBVIOUS
  <2>2. ASSUME NEW n \in Nat, n \in Below
        PROVE  n + 1 \in Below
    <3> SUFFICES ASSUME NEW m \in T PROVE n + 1 <= m
      OBVIOUS
    <3>1. PICK k \in T : ~(m <= k)
      OBVIOUS
    <3>2. k \in Nat /\ m \in Nat /\ n <= k
      BY <2>2
    <3> QED BY <3>1, <3>2
  <2>3. Nat \subseteq Below
    <3> HIDE DEF Below
    <3> QED BY <2>1, <2>2, AllNumbers
  <2>4. t + 1 \in Below
    BY <1>1, <2>3
  <2> QED BY <1>1, <2>4
<1> QED BY <1>2 DEF Min

(* A constant that is found by its name is decoded to its value.           *)
LEMMA FoundConstant ==
  ASSUME NEW n
  PROVE  \/ FindConstant(n) = NULL
         \/ FindConstant(n).t = "string"
         \/ FindConstant(n).v \in Int
<1> SUFFICES ASSUME FindConstant(n) # NULL
             PROVE  FindConstant(n).t = "string" \/ FindConstant(n).v \in Int
  OBVIOUS
<1>1. PICK ms : ms = {m \in DOMAIN Table : n \in DOMAIN Table[m]}
  OBVIOUS
<1>2. ms # {} /\ FindConstant(n) = Decode(Table[Min(ms)][n])
  BY <1>1 DEF FindConstant, FirstIn
<1>3. ms \subseteq Nat
  BY <1>1, ConstantsAssumption DEF Table
<1>4. PICK m \in ms : m = Min(ms)
  BY <1>2, <1>3, LeastMember
<1>5. m \in DOMAIN Declared /\ n \in DOMAIN Declared[m]
      /\ Table[m][n] = Encode(Declared[m][n])
  BY <1>1, <1>4 DEF Table
<1>6. PICK d : d = Declared[m][n]
  OBVIOUS
<1>7. Encodable(d)
  BY <1>5, <1>6, ConstantsAssumption
<1>8. FindConstant(n) = Decode(Encode(d))
  BY <1>2, <1>4, <1>5, <1>6
<1>9. CASE d.t = "string"
  <2>1. Encode(d) = <<3 * Room, d.v>>
    BY <1>9 DEF Encode
  <2>2. (3 * Room) \div Room = 3
    <3>1. \A r \in Nat \ {0} : (3 * r) \div r = 3
      OBVIOUS
    <3> QED BY <3>1, Powers
  <2>3. Decode(Encode(d)).t = "string"
    BY <2>1, <2>2 DEF Decode
  <2> QED BY <1>8, <2>3
<1>10. CASE d.t # "string"
  <2>1. d.v \in Int
    BY <1>7, <1>10 DEF Encodable
  <2>2. Signed(d.v, IntBits) \in Int
    BY <2>1, SignedInt
  <2> QED BY <1>7, <1>8, <1>10, <2>2, Decoded
<1> QED BY <1>9, <1>10

LEMMA BitsOf ==
  ASSUME NEW n
  PROVE  Bits(n, IntBits) \in SUBSET (0..(Word - 1))
         /\ Bits(n, Word) \in SUBSET (0..(Word - 1))
<1>1. \A i \in 0..(IntBits - 1) : i \in 0..(Word - 1)
  BY WordPowers
<1> QED BY <1>1 DEF Bits

(* What a GValue or a property is given fits its type, unless an error is  *)
(* raised instead.                                                         *)
LEMMA NumFits ==
  ASSUME NEW n \in Int, NEW p
  PROVE  /\ GType[p] = "uint" => Fits(Num(Unsigned(n, IntBits)), p)
         /\ GType[p] = "long" => Fits(Num(Signed(n, Word)), p)
         /\ GType[p] \in {"int", "enum", "flags"} => Fits(Num(Signed(n, IntBits)), p)
<1>1. \A k : Num(k).n = k
  BY DEF Num, Value
<1>2. /\ Signed(n, IntBits) \in Int /\ Signed(n, Word) \in Int /\ Unsigned(n, IntBits) \in Int
      /\ Signed(Signed(n, IntBits), IntBits) = Signed(n, IntBits)
      /\ Signed(Signed(n, Word), Word) = Signed(n, Word)
      /\ Unsigned(Unsigned(n, IntBits), IntBits) = Unsigned(n, IntBits)
  BY SignedAgain
<1>3. /\ Proper(Num(Signed(n, IntBits))) /\ Proper(Num(Signed(n, Word)))
      /\ Proper(Num(Unsigned(n, IntBits)))
  BY <1>2, ProperValues
<1>4. CASE GType[p] = "uint"
  <2>1. PICK v : v = Num(Unsigned(n, IntBits))
    OBVIOUS
  <2>2. Proper(v) /\ v = Num(Unsigned(v.n, IntBits))
    BY <1>1, <1>2, <1>3, <2>1
  <2> QED BY <1>4, <2>1, <2>2 DEF Fits
<1>5. CASE GType[p] = "long"
  <2>1. PICK v : v = Num(Signed(n, Word))
    OBVIOUS
  <2>2. Proper(v) /\ v = Num(Signed(v.n, Word))
    BY <1>1, <1>2, <1>3, <2>1
  <2> QED BY <1>5, <2>1, <2>2 DEF Fits
<1>6. CASE GType[p] \in {"int", "enum", "flags"}
  <2>1. PICK v : v = Num(Signed(n, IntBits))
    OBVIOUS
  <2>2. Proper(v) /\ v = Num(Signed(v.n, IntBits))
    BY <1>1, <1>2, <1>3, <2>1
  <2> QED BY <1>6, <2>1, <2>2 DEF Fits
<1> QED BY <1>4, <1>5, <1>6

LEMMA SignedZero == Signed(0, IntBits) = 0 /\ Signed(0, Word) = 0 /\ Unsigned(0, IntBits) = 0
<1>1. ASSUME NEW w \in {IntBits, Word}
      PROVE  Signed(0, w) = 0 /\ Unsigned(0, w) = 0
  <2>1. w - 1 \in 0..Word /\ w \in 0..Word
    BY WordPowers
  <2>2. PICK H \in Nat \ {0}, M \in Nat \ {0} : H = 2^(w - 1) /\ M = 2^w
    BY <2>1, WordPowers
  <2>3. 0 % M = 0
    OBVIOUS
  <2> QED BY <2>2, <2>3 DEF Signed, Unsigned
<1> QED BY <1>1

LEMMA CastFits ==
  ASSUME NEW v, Proper(v), NEW p \in Slot
  PROVE  Cast(v, p) \in {Error, Crash} \/ Fits(Cast(v, p), p)
<1>0. /\ \A k : Num(k).n = k /\ Num(k).t = "number"
      /\ \A b : Bool(b).t = "boolean"
      /\ \A s : Str(s).t = "string"
  BY DEF Num, Bool, Str, Value
<1>1. GType[p] \in {"boolean", "int", "uint", "long", "enum", "flags", "string",
                    "double", "object"}
  BY GValuesAssumption
<1>2. CASE GType[p] = "boolean"
  <2>1. Cast(v, p) = IF v.t = "boolean" THEN v
                     ELSE IF v.t = "string" THEN ToBoolean(v.s) ELSE Error
    BY <1>2 DEF Cast
  <2>2. \A s : ToBoolean(s) = Error \/ ToBoolean(s) = Bool(TRUE) \/ ToBoolean(s) = Bool(FALSE)
    BY DEF ToBoolean
  <2>3. \A w : Proper(w) /\ w.t = "boolean" => Fits(w, p)
    BY <1>2 DEF Fits
  <2>4. \A b : Fits(Bool(b), p)
    BY <1>0, <2>3, ProperValues
  <2>5. CASE v.t = "boolean"
    BY <2>1, <2>3, <2>5
  <2>6. CASE v.t # "boolean" /\ v.t = "string"
    <3>1. Cast(v, p) = ToBoolean(v.s)
      BY <2>1, <2>6
    <3> QED BY <2>2, <2>4, <3>1
  <2>7. CASE v.t # "boolean" /\ v.t # "string"
    BY <2>1, <2>7
  <2> QED BY <2>5, <2>6, <2>7
<1>3. ToInteger(v) = Error \/ \E n \in Int : ToInteger(v) = Num(n)
  BY NumericInt DEF ToInteger
<1>4. CASE GType[p] \in {"int", "long", "uint"}
  <2>1. /\ GType[p] = "int" => Cast(v, p) = Truncated(ToInteger(v), IntBits)
        /\ GType[p] = "uint" => Cast(v, p) = UTruncated(ToInteger(v), IntBits)
        /\ GType[p] = "long" => Cast(v, p) = Truncated(ToInteger(v), Word)
    BY DEF Cast
  <2>2. CASE ToInteger(v) = Error
    BY <1>4, <2>1, <2>2 DEF Truncated, UTruncated
  <2>3. CASE ToInteger(v) # Error
    <3>1. PICK n \in Int : ToInteger(v) = Num(n)
      BY <1>3, <2>3
    <3>2. /\ GType[p] = "int" => Cast(v, p) = Num(Signed(n, IntBits))
          /\ GType[p] = "uint" => Cast(v, p) = Num(Unsigned(n, IntBits))
          /\ GType[p] = "long" => Cast(v, p) = Num(Signed(n, Word))
      BY <1>0, <2>1, <2>3, <3>1 DEF Truncated, UTruncated
    <3> QED BY <1>4, <3>2, NumFits
  <2> QED BY <2>2, <2>3
<1>5. CASE GType[p] = "enum"
  <2>1. Cast(v, p) = ToEnum(v, GSpec[p])
    BY <1>5 DEF Cast
  <2>2. \A s : EnumNamed(s) = Error \/ \E n \in Int : EnumNamed(s) = Num(Signed(n, IntBits))
    BY FoundConstant, SignedZero DEF EnumNamed, EnumValue
  <2>3. ToEnum(v, GSpec[p]) = Error \/ \E n \in Int : ToEnum(v, GSpec[p]) = Num(Signed(n, IntBits))
    BY <2>2 DEF ToEnum, Proper
  <2> QED BY <1>5, <2>1, <2>3, NumFits
<1>6. CASE GType[p] = "flags"
  <2>1. Cast(v, p) = FillFlags(v)
    BY <1>6 DEF Cast
  <2>2. ASSUME NEW q
        PROVE  Combined(q) = Error \/ \E n \in Int : Combined(q) = Num(Signed(n, IntBits))
    <3>1. PICK b : b = UNION {Bits(r.n, IntBits) : r \in q}
      OBVIOUS
    <3>2. b \in SUBSET (0..(Word - 1))
      BY <3>1, BitsOf
    <3>3. Number(b) \in Int
      BY <3>2, NumberBits
    <3> QED BY <3>1, <3>3 DEF Combined
  <2>3. FillFlags(v) = Error \/ \E n \in Int : FillFlags(v) = Num(Signed(n, IntBits))
    BY <2>2 DEF FillFlags, Proper
  <2> QED BY <1>6, <2>1, <2>3, NumFits
<1>7. CASE GType[p] = "string"
  <2>1. Cast(v, p) = ToText(v)
    BY <1>7 DEF Cast
  <2>2. \A w : Proper(w) /\ w.t = "string" => Fits(w, p)
    BY <1>7 DEF Fits
  <2>3. v.t = "number" => <<v.n>> \in Seq(Token \cup Int)
    BY DEF Proper
  <2>4. v.t = "number" => Proper(Str(<<v.n>>)) /\ Str(<<v.n>>).t = "string"
    BY <1>0, <2>3, ProperValues
  <2> QED BY <2>1, <2>2, <2>4 DEF ToText
<1>8. CASE GType[p] = "double"
  <2>1. Cast(v, p) = ToDouble(v)
    BY <1>8 DEF Cast
  <2>2. \A n \in Int : Fits(Num(n), p)
    BY <1>0, <1>8, ProperValues DEF Fits
  <2>3. ToDouble(v) = Error \/ \E n \in Int : ToDouble(v) = Num(n)
    BY NumericInt DEF ToDouble
  <2> QED BY <2>1, <2>2, <2>3
<1>9. CASE GType[p] = "object"
  <2>1. Cast(v, p) = ToObject(v, GClass[p])
    BY <1>9 DEF Cast
  <2>2. v.t = "object" => Fits(v, p)
    BY <1>9 DEF Fits
  <2> QED BY <2>1, <2>2 DEF ToObject
<1> QED BY <1>1, <1>2, <1>4, <1>5, <1>6, <1>7, <1>8, <1>9

(* What has a type has a value of it: x, the properties, the copies of     *)
(* strings; a char* is NULL or leads to a copy.                            *)
Leads(b, n) == b = {} \/ \E k \in 1..n : b = Bits(k, Word)

Typed ==
  /\ Proper(x)
  /\ \A p \in Slot : Fits(props[p], p)
  /\ copies \in Seq(Seq(Token \cup Int)) /\ Len(copies) <= MaxCopies
  /\ \A f \in Field : Kind[f] = "char_ptr" => Leads(assigned[f], Len(copies))

LEMMA OutcomeProper ==
  ASSUME Proper(x), NEW r, Proper(r), NEW m, Outcome(r, m)
  PROVE  Proper(x')
BY DEF Outcome

LEMMA ArithmeticProper ==
  ASSUME NEW a, NEW b, NEW r \in Int
  PROVE  /\ Proper(EnumAddSub(a, b, r)) /\ Proper(EnumMod(a, b)) /\ Proper(EnumEq(a, b))
<1>1. Proper(EnumAddSub(a, b, r))
  <2>1. \A ts : Proper(PushConstant(ts, r))
    BY PushProper
  <2> QED BY <2>1, ProperValues DEF EnumAddSub
<1>2. Proper(EnumMod(a, b))
  BY ProperValues DEF EnumMod
<1>3. Proper(EnumEq(a, b))
  BY ProperValues DEF EnumEq
<1> QED BY <1>1, <1>2, <1>3

LEMMA UnionInt ==
  ASSUME NEW a, NEW b
  PROVE  Union(a, b) \in Int /\ Difference(a, b) \in Int
<1>1. /\ Bits(a, IntBits) \cup Bits(b, IntBits) \in SUBSET (0..(Word - 1))
      /\ Bits(a, IntBits) \ Bits(b, IntBits) \in SUBSET (0..(Word - 1))
  BY BitsOf
<1> QED BY <1>1, NumberBits DEF Union, Difference

LEMMA CalculatesProper ==
  ASSUME Proper(x), Calculates
  PROVE  Proper(x')
<1>1. ASSUME NEW v, Proper(v), Write(v)
      PROVE  Proper(x')
  BY <1>1 DEF Write
<1>2. ASSUME NEW k \in Named(used), ReadConstant(k[1], k[2])
      PROVE  Proper(x')
  <2>0. PICK m \in DOMAIN Declared : m = k[1]
    BY DEF Named
  <2>1. PICK n : n = Spelled(m, k[2])
    OBVIOUS
  <2>2. DOMAIN Table[m] = DOMAIN Declared[m]
        /\ \A s \in DOMAIN Declared[m] : Table[m][s] = Encode(Declared[m][s])
    BY DEF Table
  <2>3. n \in DOMAIN Declared[m]
        /\ Outcome(Pushed(m, Decode(Table[m][n])),
                   Pushed(m, AsDeclared(Declared[m][n])))
    BY <1>2, <2>0, <2>1, <2>2 DEF ReadConstant
  <2>4. Encodable(Declared[m][n])
    BY <2>3, ConstantsAssumption
  <2>5. Outcome(Pushed(m, AsDeclared(Declared[m][n])),
               Pushed(m, AsDeclared(Declared[m][n])))
    BY <2>2, <2>3, <2>4, PushedAgain
  <2>6. Proper(Pushed(m, AsDeclared(Declared[m][n])))
    BY <2>4, PushedProper
  <2> QED BY <2>5, <2>6, OutcomeProper
<1>3. ASSUME NEW y, NEW r, Proper(r), Arithmetic(y, r)
      PROVE  Proper(x')
  BY <1>3, OutcomeProper DEF Arithmetic, Gives
<1>4. CASE ToNumber
  <2>1. Proper(Num(x.n))
    BY ProperValues DEF Proper
  <2> QED BY <1>3, <1>4, <2>1 DEF ToNumber
<1>5. ASSUME NEW y, Add(y) \/ AddTo(y)
      PROVE  Proper(x')
  BY <1>3, <1>5, UnionInt, ArithmeticProper DEF Add, AddTo
<1>6. ASSUME NEW y, Subtract(y) \/ SubtractFrom(y)
      PROVE  Proper(x')
  BY <1>3, <1>6, UnionInt, ArithmeticProper DEF Subtract, SubtractFrom
<1>7. ASSUME NEW y, Test(y) \/ Compare(y)
      PROVE  Proper(x')
  <2>1. Proper(EnumMod(x, y)) /\ Proper(EnumEq(x, y))
    <3>1. 0 \in Int
      OBVIOUS
    <3> QED BY <3>1, ArithmeticProper
  <2> QED BY <1>3, <1>7, <2>1 DEF Test, Compare
<1>8. (\A v \in Literal : Proper(v)) /\ (\A o \in Object : Proper(Obj(o)))
  BY ConstantsAssumption, ProperValues
<1> QED BY <1>1, <1>2, <1>4, <1>5, <1>6, <1>7, <1>8 DEF Calculates

(* A char* leads to a copy.                                                *)
LEMMA ReadsCopy ==
  ASSUME Kept, Typed, NEW f \in Field, Kind[f] = "char_ptr"
  PROVE  Proper(StructCharPtr(GetBits(f)))
<1>1. PICK b : b = GetBits(f) /\ b = assigned[f]
  BY KeptEnough DEF FieldsKept
<1>2. CASE b = {}
  BY <1>1, <1>2, ProperValues DEF StructCharPtr
<1>3. CASE b # {}
  <2>1. PICK k \in 1..Len(copies) : b = Bits(k, Word)
    BY <1>1, <1>3 DEF Typed, Leads
  <2>2. copies \in Seq(Seq(Token \cup Int)) /\ Len(copies) <= MaxCopies
    BY DEF Typed
  <2>3. k \in Nat /\ k < 2^Word
    <3>1. Len(copies) \in Nat /\ MaxCopies \in Nat /\ MaxCopies < 2^Word /\ 2^Word \in Nat
      <4>1. Word \in 0..Word
        BY WordPowers
      <4> QED BY <2>2, <4>1, FieldsAssumption, WordPowers
    <3> QED BY <2>2, <3>1
  <2>4. Number(b) = k
    BY <2>1, <2>3, NumberOfBits
  <2>5. copies[k] \in Seq(Token \cup Int)
    BY <2>2
  <2> QED BY <1>1, <1>3, <2>4, <2>5, ProperValues DEF StructCharPtr
<1> QED BY <1>2, <1>3

LEMMA ReadProper ==
  ASSUME Kept, Typed, NEW f \in Field
  PROVE  Proper(Struct2Lua(f, GetBits(f)))
<1>1. PICK b : b = GetBits(f)
  OBVIOUS
<1>2. b \in SUBSET (0..(Word - 1))
  BY <1>1, GetsPlace, Begins
<1>3. Number(b) \in Int
  BY <1>2, NumberBits
<1>4. Proper(StructLong(b)) /\ Proper(StructEnum(f, b)) /\ Proper(StructDouble(b))
  BY <1>3, PushProper, ProperValues, SignedInt DEF StructLong, StructEnum, StructDouble
<1>5. Kind[f] \in {"long", "enum", "double", "char_ptr"}
  BY FieldsAssumption
<1> QED BY <1>1, <1>4, <1>5, ReadsCopy DEF Struct2Lua

(* The bits that are assigned to a field, and the copies.                  *)
LEMMA AssignsTyped ==
  ASSUME Kept, Typed, NEW f \in Field, NEW b,
         assigned' = [assigned EXCEPT ![f] = {i \in b : i < Size[f]}],
         NEW s \in Seq(Seq(Token \cup Int)), copies' = copies \o s, Len(copies') <= MaxCopies,
         Kind[f] = "char_ptr" => \E k \in 1..Len(copies') : b = Bits(k, Word),
         x' = x, props' = props
  PROVE  Typed'
<1>1. copies \in Seq(Seq(Token \cup Int)) /\ copies' \in Seq(Seq(Token \cup Int))
      /\ Len(copies) \in Nat /\ Len(copies') \in Nat /\ Len(copies) <= Len(copies')
  BY DEF Typed
<1>2. \A c : Leads(c, Len(copies)) => Leads(c, Len(copies'))
  <2>1. \A k \in 1..Len(copies) : k \in 1..Len(copies')
    BY <1>1
  <2> QED BY <2>1 DEF Leads
<1>3. ASSUME NEW g \in Field, Kind[g] = "char_ptr"
      PROVE  Leads(assigned'[g], Len(copies'))
  <2>1. CASE g # f
    <3>1. assigned'[g] = assigned[g]
      BY <2>1 DEF Kept
    <3> QED BY <1>2, <1>3, <3>1 DEF Typed
  <2>2. CASE g = f
    <3>1. PICK k \in 1..Len(copies') : b = Bits(k, Word)
      BY <1>3, <2>2
    <3>2. Size[f] = Word /\ Word \in Nat
      BY <1>3, <2>2, FieldsAssumption, WordPowers
    <3>3. \A i \in b : i < Word
      BY <3>1, <3>2 DEF Bits
    <3>4. assigned'[g] = b
      BY <2>2, <3>2, <3>3 DEF Kept
    <3> QED BY <3>1, <3>4 DEF Leads
  <2> QED BY <2>1, <2>2
<1> QED BY <1>1, <1>3 DEF Typed

LEMMA AccessesTyped ==
  ASSUME Kept, Typed, Accesses, UNCHANGED <<gvVars, used>>
  PROVE  Typed'
<1>0. props' = props
  BY DEF gvVars
<1>1. ASSUME NEW f \in Field, ReadField(f)
      PROVE  Typed'
  <2>1. Gives(Struct2Lua(f, GetBits(f))) /\ copies' = copies /\ assigned' = assigned
    BY <1>1 DEF ReadField, fieldVars
  <2>2. Proper(x')
    BY <2>1, ReadProper, OutcomeProper DEF Gives, Typed
  <2> QED BY <1>0, <2>1, <2>2 DEF Typed
<1>2. ASSUME NEW f \in Field, NEW b, NEW m, Assigns(f, m, b), copies' = copies,
             Kind[f] # "char_ptr"
      PROVE  Typed'
  <2>1. PICK s : s = <<>>
    OBVIOUS
  <2>2. copies \in Seq(Seq(Token \cup Int)) /\ Len(copies) <= MaxCopies
    BY DEF Typed
  <2>3. s \in Seq(Seq(Token \cup Int)) /\ copies' = copies \o s
    BY <1>2, <2>1, <2>2
  <2>4. Len(copies') <= MaxCopies
    BY <1>2, <2>2
  <2>5. assigned' = [assigned EXCEPT ![f] = {i \in b : i < Size[f]}] /\ x' = x
    BY <1>2 DEF Assigns, constVars
  <2> QED BY <1>0, <1>2, <2>3, <2>4, <2>5, AssignsTyped
<1>3. ASSUME NEW f \in Field, WriteLong(f) \/ WriteEnum(f) \/ WriteDouble(f)
      PROVE  Typed'
  <2>1. CASE WriteLong(f)
    BY <1>2, <2>1 DEF WriteLong
  <2>2. CASE WriteEnum(f)
    BY <1>2, <2>2 DEF WriteEnum
  <2>3. CASE WriteDouble(f)
    BY <1>2, <2>3 DEF WriteDouble
  <2> QED BY <1>3, <2>1, <2>2, <2>3
<1>4. ASSUME NEW f \in Field, WriteCharPtr(f)
      PROVE  Typed'
  <2>1. PICK b : b = Bits(Len(copies) + 1, Word)
    OBVIOUS
  <2>2. PICK t : t = IF x.t = "number" THEN <<x.n>> ELSE x.s
    OBVIOUS
  <2>3. /\ Len(copies) < MaxCopies /\ Kind[f] = "char_ptr"
        /\ x.t \in {"string", "number"}
        /\ copies' = Append(copies, t)
        /\ Assigns(f, SetBitsLong(f, b), b)
    BY <1>4, <2>1, <2>2 DEF WriteCharPtr
  <2>4. t \in Seq(Token \cup Int)
    <3>1. x.n \in Int /\ (x.t = "string" => x.s \in Seq(Token \cup Int))
      BY DEF Typed, Proper
    <3>2. <<x.n>> \in Seq(Token \cup Int)
      BY <3>1
    <3>3. x.t = "string" => x.t # "number"
      OBVIOUS
    <3> QED BY <2>2, <2>3, <3>1, <3>2, <3>3
  <2>5. PICK s : s = <<t>>
    OBVIOUS
  <2>6. copies \in Seq(Seq(Token \cup Int))
    BY DEF Typed
  <2>7. s \in Seq(Seq(Token \cup Int)) /\ copies' = copies \o s
        /\ Len(copies') = Len(copies) + 1
    BY <2>3, <2>4, <2>5, <2>6
  <2>8. MaxCopies \in Nat /\ Len(copies) \in Nat
    BY <2>6, FieldsAssumption
  <2>9. Len(copies') <= MaxCopies /\ Len(copies') \in 1..Len(copies')
    BY <2>3, <2>7, <2>8
  <2>10. \E k \in 1..Len(copies') : b = Bits(k, Word)
    BY <2>1, <2>7, <2>9
  <2>11. assigned' = [assigned EXCEPT ![f] = {i \in b : i < Size[f]}] /\ x' = x
    BY <2>3 DEF Assigns, constVars
  <2> QED BY <1>0, <2>7, <2>9, <2>10, <2>11, AssignsTyped
<1>5. ASSUME NEW w \in Library, LibraryWrites(w[1], w[2])
      PROVE  Typed'
  <2>1. w[1] \in Field /\ Kind[w[1]] # "char_ptr"
    BY FieldsAssumption
  <2>2. Assigns(w[1], SetBitsLong(w[1], w[2]), w[2]) /\ copies' = copies
    BY <1>5 DEF LibraryWrites
  <2> QED BY <1>2, <2>1, <2>2
<1> QED BY <1>1, <1>3, <1>4, <1>5 DEF Accesses, WriteField

(* Properties that are set have values of their types.                     *)
AllFit(g) == \A q \in Slot : Fits(g[q], q)

LEMMA SetCastFits ==
  ASSUME NEW st, Balance(st, Nil), AllFit(st.props), NEW p \in Slot, NEW v, Proper(v), Whole(v),
         NEW u, u = SetCast(st, p, Cast(v, p))
  PROVE  AllFit(u.props)
<1>1. PICK c : c = Cast(v, p)
  OBVIOUS
<1>2. CASE c \in {Error, Crash}
  <2>1. u = [st EXCEPT !.out = c]
    BY <1>1, <1>2 DEF SetCast
  <2>2. u.props = st.props
    BY <2>1 DEF Balance
  <2> QED BY <2>2
<1>3. CASE c \notin {Error, Crash}
  <2>0. Whole(c)
    BY <1>1, CastWhole
  <2>1. PICK a : a = Fill(st, c)
    OBVIOUS
  <2>2. PICK b : b = SetProperty(a, p, c)
    OBVIOUS
  <2>3. u = Unset(b, c)
    BY <1>1, <1>3, <2>1, <2>2 DEF SetCast
  <2>4. Balance(a, c) /\ a.props = st.props
    BY <2>0, <2>1, FillBalance
  <2>5. Balance(b, c) /\ b.props = [a.props EXCEPT ![p] = c]
    BY <2>0, <2>2, <2>4, SetPropertyBalance
  <2>6. u.props = b.props
    BY <2>0, <2>3, <2>5, UnsetBalance
  <2>7. DOMAIN st.props = Slot
    BY DEF Balance
  <2>8. Fits(c, p)
    BY <1>1, <1>3, CastFits
  <2>9. u.props = [st.props EXCEPT ![p] = c]
    BY <2>4, <2>5, <2>6
  <2>10. \A q \in Slot : u.props[q] = IF q = p THEN c ELSE st.props[q]
    BY <2>7, <2>9
  <2> QED BY <2>8, <2>10 DEF AllFit
<1> QED BY <1>2, <1>3

LEMMA SetPairFits ==
  ASSUME NEW st, Balance(st, Nil), AllFit(st.props), NEW pair, Whole(pair[2]), Proper(pair[2])
  PROVE  AllFit(SetPair(st, pair).props)
<1>1. CASE st.out # Nil \/ pair[1] \notin Prop
  BY <1>1 DEF SetPair
<1>2. CASE ~(st.out # Nil \/ pair[1] \notin Prop)
  <2>1. pair[1] \in Slot
    BY <1>2 DEF Slot
  <2>2. SetPair(st, pair) = SetCast(st, pair[1], Cast(pair[2], pair[1]))
    BY <1>2 DEF SetPair, SetOne
  <2> QED BY <2>1, <2>2, SetCastFits
<1> QED BY <1>1, <1>2

LEMMA AllPairsFit ==
  ASSUME Balance(Now(Nil), Nil), AllFit(Now(Nil).props), NEW pairs, NEW n \in Nat,
         \A i \in 1..n : Whole(pairs[i][2]) /\ Proper(pairs[i][2]),
         NEW After, Follow(After, pairs, n)
  PROVE  AllFit(After[n].props)
<1> DEFINE Held == {k \in Nat : k <= n => Balance(After[k], Nil) /\ AllFit(After[k].props)}
<1>1. 0 \in Held
  BY DEF Follow
<1>2. ASSUME NEW k \in Nat, k \in Held
      PROVE  k + 1 \in Held
  <2> SUFFICES ASSUME k + 1 <= n
               PROVE  Balance(After[k + 1], Nil) /\ AllFit(After[k + 1].props)
    OBVIOUS
  <2>1. k + 1 \in 1..n /\ k \in 0..(n - 1)
    OBVIOUS
  <2>2. After[k + 1] = SetPair(After[k], pairs[k + 1])
    BY <2>1 DEF Follow
  <2>3. Balance(After[k], Nil) /\ AllFit(After[k].props)
    BY <1>2
  <2> QED BY <2>1, <2>2, <2>3, SetPairBalance, SetPairFits
<1>3. n \in Held
  <2> HIDE DEF Held
  <2> QED BY <1>1, <1>2, AllNumbers
<1> QED BY <1>3

LEMMA EndsTyped ==
  ASSUME Typed, NEW u, AllFit(u.props), Ends(u), UNCHANGED fieldVars
  PROVE  Typed'
<1>1. props' = u.props /\ x' = x /\ copies' = copies /\ assigned' = assigned
  BY DEF Ends, Becomes, fieldVars
<1> QED BY <1>1 DEF Typed, AllFit

LEMMA GivesTyped ==
  ASSUME Typed, NEW r, Proper(r), Gives(r), props' = props, UNCHANGED fieldVars
  PROVE  Typed'
<1>1. Proper(x')
  BY OutcomeProper DEF Gives, Typed
<1>2. copies' = copies /\ assigned' = assigned
  BY DEF fieldVars
<1> QED BY <1>1, <1>2 DEF Typed

LEMMA ObjectSetTyped ==
  ASSUME Owning, Typed, UNCHANGED fieldVars, NEW pairs, NEW n \in Nat, Len(pairs) = n,
         \A i \in 1..n : Whole(pairs[i][2]) /\ Proper(pairs[i][2]), ObjectSet(pairs)
  PROVE  Typed'
<1> DEFINE After == CHOOSE f : f = [i \in 0..n |-> IF i = 0 THEN Now(Nil)
                                                   ELSE SetPair(f[i - 1], pairs[i])]
<1>1. Ends(After[n])
  BY DEF ObjectSet
<1>2. Balance(Now(Nil), Nil) /\ Now(Nil).props = props
  BY NowBalance
<1>3. Follow(After, pairs, n)
  BY AfterFollow
<1> HIDE DEF After
<1>4. AllFit(Now(Nil).props)
  BY <1>2 DEF Typed, AllFit
<1>5. AllFit(After[n].props)
  BY <1>2, <1>3, <1>4, AllPairsFit
<1> QED BY <1>1, <1>5, EndsTyped

(* Copying a value into a GValue and giving it back changes no property.   *)
LEMMA PropsStay ==
  ASSUME Owning, NEW c, Whole(c), Becomes(Unset(Fill(Now(Nil), c), c))
  PROVE  props' = props
<1>1. PICK a : a = Now(Nil)
  OBVIOUS
<1>2. PICK b : b = Fill(a, c)
  OBVIOUS
<1>3. PICK u : u = Unset(b, c)
  OBVIOUS
<1>4. Balance(a, Nil) /\ a.props = props
  BY <1>1, NowBalance
<1>5. Balance(b, c) /\ b.props = a.props
  BY <1>2, <1>4, FillBalance
<1>6. u.props = b.props
  BY <1>3, <1>5, UnsetBalance
<1> QED BY <1>1, <1>2, <1>3, <1>4, <1>5, <1>6 DEF Becomes

LEMMA ObjectGetTyped ==
  ASSUME Owning, Typed, UNCHANGED fieldVars, NEW p, ObjectGet(p)
  PROVE  Typed'
<1>1. CASE p \notin Prop
  BY <1>1, ProperValues, GivesTyped DEF ObjectGet, gvVars
<1>2. CASE p \in Prop
  <2>1. PICK c : c = props[p]
    OBVIOUS
  <2>2. p \in Slot /\ Whole(c) /\ Proper(c)
    BY <1>2, <2>1 DEF Owning, Holds, Slot, Typed, Fits
  <2>3. Becomes(Unset(Fill(Now(Nil), c), c)) /\ Gives(PushGValue(c, p))
    BY <1>2, <2>1 DEF ObjectGet
  <2>4. props' = props
    BY <2>2, <2>3, PropsStay
  <2>5. Proper(PushGValue(c, p))
    <3>1. c.n \in Int
      BY <2>2 DEF Proper
    <3> QED BY <2>2, <3>1, PushProper DEF PushGValue
  <2> QED BY <2>3, <2>4, <2>5, GivesTyped
<1> QED BY <1>1, <1>2

(* The conversions of arguments keep values proper.                        *)
LEMMA ToIntInt ==
  ASSUME NEW n \in Int
  PROVE  /\ ToInt(n) \in Int /\ ToInt(ToInt(n)) = ToInt(n)
<1>1. IntBits - 1 \in 0..Word /\ IntBits \in 0..Word /\ (IntBits - 1) + 1 = IntBits
  BY WordPowers
<1>2. PICK H \in Nat \ {0}, M \in Nat \ {0} : H = 2^(IntBits - 1) /\ M = 2^IntBits
  BY <1>1, WordPowers
<1>3. M = 2 * H
  BY <1>1, <1>2, PowersAssumption
<1>4. (-H) % M = H
  <2>1. \A h \in Nat \ {0} : (-h) % (2 * h) = h
    <3> TAKE h \in Nat \ {0}
    <3>1. PICK m \in Nat \ {0}, q \in Int : m = 2 * h /\ q = -1
      OBVIOUS
    <3>2. PICK k \in Int : k = -h
      OBVIOUS
    <3>3. h \in 0..(m - 1) /\ q * m = -m
      BY <3>1
    <3>4. k = q * m + h
      BY <3>1, <3>2, <3>3
    <3>5. k % m = h
      BY <3>3, <3>4, Quotient
    <3> QED BY <3>1, <3>2, <3>5
  <2> QED BY <1>3, <2>1
<1>5. Signed(-H, IntBits) = -H
  <2>1. Unsigned(-H, IntBits) = H
    BY <1>2, <1>4 DEF Unsigned
  <2> QED BY <1>2, <1>3, <2>1 DEF Signed
<1>6. CASE n = Signed(n, IntBits)
  BY <1>6 DEF ToInt
<1>7. CASE n # Signed(n, IntBits)
  <2>1. ToInt(n) = -H
    BY <1>2, <1>7 DEF ToInt
  <2>2. ToInt(-H) = -H
    BY <1>5 DEF ToInt
  <2>3. -H \in Int
    OBVIOUS
  <2> QED BY <2>1, <2>2, <2>3
<1> QED BY <1>6, <1>7

LEMMA ArgTypes ==
  ASSUME NEW f \in Function
  PROVE  ArgType[f] \in {"bool", "int", "uint", "long", "enum", "double", "char*",
                         "struct*", "int*", "uint*", "bool*", "enum*", "double*"}
BY ArgumentsAssumption

LEMMA Lua2FfiProper ==
  ASSUME NEW f \in Function, NEW v, Proper(v)
  PROVE  Proper(Lua2Ffi(f, v))
<1>1. v.n \in Int /\ Numeric(v) \in Int
  BY NumericInt DEF Proper
<1>2. /\ Proper(Lua2Bool(v)) /\ Proper(Lua2Long(v)) /\ Proper(Lua2Enum(v))
      /\ Proper(Lua2Double(v)) /\ Proper(Lua2DoublePtr(v))
  BY <1>1, ProperValues DEF Lua2Bool, Lua2Long, Lua2Enum, Lua2Double, Lua2DoublePtr
<1>3. Proper(Lua2CharPtr(v))
  <2>1. <<v.n>> \in Seq(Token \cup Int)
    BY <1>1
  <2> QED BY <2>1, ProperValues DEF Lua2CharPtr
<1>4. Proper(Lua2EnumPtr(v))
  BY <1>1, ToIntInt, ProperValues DEF Lua2EnumPtr
<1>5. \A c : Proper(Lua2StructPtr(v, c))
  BY ProperValues DEF Lua2StructPtr
<1>6. \A t : Proper(Lua2IntPtr(v, t))
  <2>1. Unsigned(Numeric(v), IntBits) \in Int /\ ToInt(Numeric(v)) \in Int
    BY <1>1, SignedInt, ToIntInt
  <2>2. \A t : Proper(StoreInt(v, t))
    BY <1>2, <2>1, ProperValues DEF StoreInt
  <2> QED BY <2>2, ProperValues DEF Lua2IntPtr
<1> QED BY <1>2, <1>3, <1>4, <1>5, <1>6, ArgTypes DEF Lua2Ffi

LEMMA InCProper ==
  ASSUME NEW f, NEW c, Proper(c)
  PROVE  Proper(InC(f, c))
<1>1. c.n \in Int
  BY DEF Proper
<1>2. Signed(c.n, IntBits) \in Int /\ Signed(c.n, Word) \in Int /\ Unsigned(c.n, IntBits) \in Int
  BY <1>1, SignedInt
<1> QED BY <1>2, ProperValues DEF InC

LEMMA Ffi2LuaProper ==
  ASSUME NEW f, NEW c, Proper(c)
  PROVE  Proper(Ffi2Lua(f, c))
<1>1. c.n \in Int
  BY DEF Proper
<1> QED BY <1>1, PushProper, ProperValues DEF Ffi2Lua

LEMMA TransfersTyped ==
  ASSUME Owning, Typed, Transfers, UNCHANGED <<fieldVars, used>>
  PROVE  Typed'
<1>0. /\ Whole(x) /\ Proper(x) /\ UNCHANGED fieldVars
      /\ \A v \in Literal : Whole(v) /\ Proper(v)
  BY GValuesAssumption, ConstantsAssumption DEF Owning, Typed
<1>1. ASSUME NEW p, ObjectGet(p)
      PROVE  Typed'
  BY <1>0, <1>1, ObjectGetTyped
<1>2. ASSUME NEW p, ObjectSet(<<<<p, x>>>>)
      PROVE  Typed'
  <2>1. PICK s : s = <<<<p, x>>>>
    OBVIOUS
  <2>2. Len(s) = 1 /\ \A i \in 1..1 : Whole(s[i][2]) /\ Proper(s[i][2])
    BY <1>0, <2>1
  <2> QED BY <1>0, <1>2, <2>1, <2>2, ObjectSetTyped
<1>3. ASSUME NEW p, NEW q, NEW y \in Literal, ObjectSet(<<<<p, x>>, <<q, y>>>>)
      PROVE  Typed'
  <2>1. PICK s : s = <<<<p, x>>, <<q, y>>>>
    OBVIOUS
  <2>2. Len(s) = 2 /\ \A i \in 1..2 : Whole(s[i][2]) /\ Proper(s[i][2])
    BY <1>0, <2>1
  <2> QED BY <1>0, <1>3, <2>1, <2>2, ObjectSetTyped
<1>4. ASSUME NEW c \in Column, ListStoreSet(c)
      PROVE  Typed'
  <2>1. PICK a : a = Now(Nil)
    OBVIOUS
  <2>2. PICK u : u = SetCast(a, c, Cast(x, c))
    OBVIOUS
  <2>3. c \in Slot
    BY DEF Slot
  <2>4. Balance(a, Nil) /\ AllFit(a.props)
    BY <2>1, NowBalance DEF Typed, AllFit
  <2>5. AllFit(u.props)
    BY <1>0, <2>2, <2>3, <2>4, SetCastFits
  <2>6. Ends(u)
    BY <1>4, <2>1, <2>2 DEF ListStoreSet, SetOne
  <2> QED BY <1>0, <2>5, <2>6, EndsTyped
<1>5. ASSUME NEW s \in Sets, LibrarySets(s[1], s[2])
      PROVE  Typed'
  <2>1. s[1] \in Slot /\ Whole(s[2]) /\ Fits(s[2], s[1])
    BY GValuesAssumption DEF Slot
  <2>2. PICK a : a = Now(Nil)
    OBVIOUS
  <2>3. PICK u : u = SetProperty(a, s[1], s[2])
    OBVIOUS
  <2>4. Balance(a, Nil) /\ a.props = props
    BY <2>2, NowBalance
  <2>5. u.props = [props EXCEPT ![s[1]] = s[2]]
    BY <2>1, <2>3, <2>4, SetPropertyBalance
  <2>6. Becomes(u) /\ x' = x
    BY <1>5, <2>2, <2>3 DEF LibrarySets, constVars
  <2>7. props' = [props EXCEPT ![s[1]] = s[2]]
    BY <2>5, <2>6 DEF Becomes
  <2>8. \A q \in Slot : Fits(props'[q], q)
    <3>1. \A q \in Slot : props'[q] = IF q = s[1] THEN s[2] ELSE props[q]
      BY <2>7 DEF Owning, Holds
    <3> QED BY <2>1, <3>1 DEF Typed
  <2> QED BY <1>0, <2>6, <2>8 DEF Typed, fieldVars
<1>6. ASSUME NEW f \in Function, CallFunction(f)
      PROVE  Typed'
  <2>1. Proper(Returned(f, x))
    BY <1>0, Lua2FfiProper, InCProper, Ffi2LuaProper, ProperValues DEF Returned, Back
  <2> QED BY <1>0, <1>6, <2>1, GivesTyped DEF CallFunction, gvVars
<1>7. ASSUME NEW k \in Calls, Callback(k[1], k[2])
      PROVE  Typed'
  <2>1. k[2] \in Int
    BY ArgumentsAssumption
  <2>2. \A l \in InRegister(k[1], k[2]) : l \in Int
    BY <2>1, SignedInt DEF InRegister
  <2>3. \A l \in InRegister(k[1], k[2]) : Proper(Ffi2Lua(k[1], Num(l)))
    BY <2>2, ProperValues, Ffi2LuaProper
  <2> QED BY <1>0, <1>7, <2>3, GivesTyped DEF Callback, gvVars
<1>8. CASE PassGValue
  <2>1. PICK c : c = LuaToGValue(x)
    OBVIOUS
  <2>2. Whole(c) /\ Proper(c)
    <3>1. Proper(Num(x.n)) /\ Proper(Num(ToInt(x.n)))
      BY <1>0, ToIntInt, ProperValues DEF Proper
    <3> QED BY <1>0, <2>1, <3>1, Plain, ProperValues DEF LuaToGValue
  <2>3. Gives(c) /\ Becomes(Unset(Fill(Now(Nil), c), c))
    BY <1>8, <2>1 DEF PassGValue
  <2>4. props' = props
    BY <2>2, <2>3, PropsStay
  <2> QED BY <1>0, <2>2, <2>3, <2>4, GivesTyped
<1> QED BY <1>1, <1>2, <1>3, <1>4, <1>5, <1>6, <1>7, <1>8 DEF Transfers

LEMMA InitTyped == Init => Typed
<1> SUFFICES ASSUME Init PROVE Typed
  OBVIOUS
<1>1. x = Nil /\ copies = <<>> /\ assigned = [f \in Field |-> {}]
      /\ props = [p \in Slot |-> Zero(p)]
  BY DEF Init, FieldsInit, GValuesInit
<1>2. ASSUME NEW p \in Slot
      PROVE  Fits(Zero(p), p)
  <2>1. CASE GType[p] \in {"string", "object"}
    BY <2>1, ProperValues DEF Fits, Zero
  <2>2. CASE GType[p] = "boolean"
    <3>1. Bool(FALSE).t = "boolean" /\ Zero(p) = Bool(FALSE)
      BY <2>2 DEF Bool, Value, Zero
    <3> QED BY <2>2, <3>1, ProperValues DEF Fits
  <2>3. CASE GType[p] \notin {"string", "object", "boolean"}
    <3>1. Zero(p) = Num(0) /\ Num(0).n = 0
      BY <2>3 DEF Zero, Num, Value
    <3>2. Proper(Num(0))
      BY ProperValues
    <3> QED BY <2>3, <3>1, <3>2, SignedZero DEF Fits
  <2> QED BY <2>1, <2>2, <2>3
<1>3. copies \in Seq(Seq(Token \cup Int)) /\ Len(copies) <= MaxCopies
  BY <1>1, FieldsAssumption
<1> QED BY <1>1, <1>2, <1>3, ProperValues DEF Typed, Leads

LEMMA NextTyped == Kept /\ Owning /\ Typed /\ [Next]_vars => Typed'
<1> SUFFICES ASSUME Kept, Owning, Typed, [Next]_vars
             PROVE  Typed'
  OBVIOUS
<1>1. ASSUME Proper(x'), UNCHANGED <<fieldVars, gvVars>>
      PROVE  Typed'
  BY <1>1 DEF Typed, fieldVars, gvVars
<1>2. Proper(x)
  BY DEF Typed
<1> QED BY <1>1, <1>2, CalculatesProper, AccessesTyped, TransfersTyped
        DEF Next, vars, constVars

(* A property can be set to what reading it gives.                         *)
LEMMA PropertiesAgain ==
  ASSUME NEW p \in Slot, Fits(props[p], p)
  PROVE  PropertyAgain(p)
<1> SUFFICES ASSUME Settable(p)
             PROVE  Cast(PushGValue(props[p], p), p) = props[p]
  BY DEF PropertyAgain
<1>0. /\ \A k : Num(k).n = k /\ Num(k).t = "number" /\ Num(k) # Error
      /\ Nil.t = "nil"
  BY DEF Num, Nil, Error, Value
<1>1. PICK v : v = props[p] /\ Fits(v, p)
  OBVIOUS
<1>2. v # Nil /\ (GType[p] = "object" => Class[v.s[1]] = GClass[p])
      /\ ~(GType[p] = "flags" /\ GSpec[p] # NULL)
  BY <1>1 DEF Settable
<1>3. v.n \in Int
  BY <1>1 DEF Fits, Proper
<1>4. PICK n \in Int : n = v.n
  BY <1>3
<1>5. GType[p] \in {"boolean", "int", "uint", "long", "enum", "flags", "string",
                    "double", "object"}
  BY GValuesAssumption
<1>6. GType[p] \notin {"enum", "flags"} \/ GSpec[p] = NULL => PushGValue(v, p) = v
  BY DEF PushGValue
<1>7. v.t = "number" => ToInteger(v) = Num(v.n) /\ ToDouble(v) = Num(v.n)
  BY DEF ToInteger, ToDouble, IsNumeric, Numeric
<1>8. CASE GType[p] = "boolean"
  <2>1. v.t = "boolean"
    BY <1>1, <1>8 DEF Fits
  <2> QED BY <1>1, <1>6, <1>8, <2>1 DEF Cast
<1>9. CASE GType[p] = "int"
  <2>1. v = Num(Signed(v.n, IntBits))
    BY <1>1, <1>9 DEF Fits
  <2>2. Cast(v, p) = Truncated(ToInteger(v), IntBits)
    BY <1>9 DEF Cast
  <2>3. v.t = "number"
    BY <1>0, <2>1
  <2>4. Truncated(Num(v.n), IntBits) = Num(Signed(v.n, IntBits))
    BY <1>0 DEF Truncated
  <2> QED BY <1>1, <1>6, <1>7, <1>9, <2>1, <2>2, <2>3, <2>4
<1>10. CASE GType[p] = "uint"
  <2>1. v = Num(Unsigned(v.n, IntBits))
    BY <1>1, <1>10 DEF Fits
  <2>2. Cast(v, p) = UTruncated(ToInteger(v), IntBits)
    BY <1>10 DEF Cast
  <2>3. v.t = "number"
    BY <1>0, <2>1
  <2>4. UTruncated(Num(v.n), IntBits) = Num(Unsigned(v.n, IntBits))
    BY <1>0 DEF UTruncated
  <2> QED BY <1>1, <1>6, <1>7, <1>10, <2>1, <2>2, <2>3, <2>4
<1>11. CASE GType[p] = "long"
  <2>1. v = Num(Signed(v.n, Word))
    BY <1>1, <1>11 DEF Fits
  <2>2. Cast(v, p) = Truncated(ToInteger(v), Word)
    BY <1>11 DEF Cast
  <2>3. v.t = "number"
    BY <1>0, <2>1
  <2>4. Truncated(Num(v.n), Word) = Num(Signed(v.n, Word))
    BY <1>0 DEF Truncated
  <2> QED BY <1>1, <1>6, <1>7, <1>11, <2>1, <2>2, <2>3, <2>4
<1>12. CASE GType[p] \in {"enum", "flags"} /\ GSpec[p] = NULL
  <2>1. v = Num(Signed(v.n, IntBits))
    BY <1>1, <1>12 DEF Fits
  <2>2. v.t = "number"
    BY <1>0, <2>1
  <2>3. /\ GType[p] = "enum" => Cast(v, p) = ToEnum(v, GSpec[p])
        /\ GType[p] = "flags" => Cast(v, p) = FillFlags(v)
    BY DEF Cast
  <2>4. ToEnum(v, GSpec[p]) = Num(Signed(v.n, IntBits)) /\ FillFlags(v) = Num(Signed(v.n, IntBits))
    BY <2>2 DEF ToEnum, FillFlags
  <2> QED BY <1>1, <1>6, <1>12, <2>1, <2>3, <2>4
<1>13. CASE GType[p] = "enum" /\ GSpec[p] # NULL
  <2>1. v = Num(Signed(v.n, IntBits))
    BY <1>1, <1>13 DEF Fits
  <2>2. PICK ts : ts = GSpec[p]
    OBVIOUS
  <2>3. ts.index # 0 /\ ts = Spec0(ts.module, ts.index)
    BY <1>13, <2>2, GValuesAssumption DEF IsSpec
  <2>4. PICK u : u = [ts EXCEPT !.flag = FlagOf(ts)]
    OBVIOUS
  <2>5. [u EXCEPT !.flag = 0] = [ts EXCEPT !.flag = 0]
    <3>1. PICK m, i : ts = [module |-> m, index |-> i, flag |-> 0]
      BY <2>3 DEF Spec0
    <3> QED BY <2>4, <3>1
  <2>6. PushGValue(v, p) = Enum(u, Signed(n, IntBits))
    BY <1>4, <1>13, <2>2, <2>3, <2>4 DEF PushGValue, PushConstant
  <2>7. PICK w : w = Enum(u, Signed(n, IntBits))
    OBVIOUS
  <2>8. w.t = "enum" /\ w.ts = u /\ w.n = Signed(n, IntBits)
    BY <2>7 DEF Enum
  <2>9. GetConstant(w, ts)
    BY <2>5, <2>8 DEF GetConstant, TypeEqual
  <2>10. ToEnum(w, ts) = Num(Signed(w.n, IntBits))
    BY <2>8, <2>9 DEF ToEnum
  <2>11. Signed(w.n, IntBits) = Signed(n, IntBits)
    BY <2>8, SignedAgain
  <2>12. Cast(w, p) = ToEnum(w, ts)
    BY <1>13, <2>2 DEF Cast
  <2> QED BY <1>1, <1>4, <2>1, <2>6, <2>7, <2>10, <2>11, <2>12
<1>14. CASE GType[p] = "string"
  <2>1. v.t = "string"
    BY <1>1, <1>2, <1>14 DEF Fits
  <2>2. Cast(v, p) = ToText(v)
    BY <1>14 DEF Cast
  <2> QED BY <1>1, <1>6, <1>14, <2>1, <2>2 DEF ToText
<1>15. CASE GType[p] = "double"
  <2>1. v = Num(v.n)
    BY <1>1, <1>15 DEF Fits
  <2>2. Cast(v, p) = ToDouble(v)
    BY <1>15 DEF Cast
  <2>3. v.t = "number"
    BY <1>0, <2>1
  <2> QED BY <1>1, <1>6, <1>7, <1>15, <2>1, <2>2, <2>3
<1>16. CASE GType[p] = "object"
  <2>1. v.t = "object" /\ Class[v.s[1]] = GClass[p]
    BY <1>1, <1>2, <1>16 DEF Fits
  <2>2. Cast(v, p) = ToObject(v, GClass[p])
    BY <1>16 DEF Cast
  <2> QED BY <1>1, <1>6, <1>16, <2>1, <2>2 DEF ToObject
<1> QED BY <1>2, <1>5, <1>8, <1>9, <1>10, <1>11, <1>12, <1>13, <1>14, <1>15, <1>16

(* Numbers, and a truth value as a number.                                 *)
LEMMA NumFacts ==
  ASSUME NEW n
  PROVE  /\ Num(n).n = n /\ Num(n).t = "number" /\ Num(n) # Nil /\ Num(n) # Error
         /\ IsNumeric(Num(n)) /\ Numeric(Num(n)) = n
         /\ Lua2Long(Num(n)) = Num(n) /\ Lua2Double(Num(n)) = Num(n)
<1>1. Num(n).n = n /\ Num(n).t = "number" /\ Num(n) # Nil /\ Num(n) # Error
  BY DEF Num, Nil, Error, Value
<1> QED BY <1>1 DEF IsNumeric, Numeric, Lua2Long, Lua2Double

LEMMA TruthStays ==
  ASSUME NEW f \in Function, ArgType[f] = "bool", NEW k \in {0, 1}
  PROVE  /\ InC(f, Num(k)) = Num(k)
         /\ Ffi2Lua(f, Num(k)) = Bool(k # 0)
         /\ Lua2Ffi(f, Bool(k # 0)) = Num(k)
         /\ Bool(k # 0) # Error
<1>1. IntBits - 1 \in 0..Word /\ IntBits \in 0..Word /\ (IntBits - 1) + 1 = IntBits
  BY WordPowers
<1>2. PICK H \in Nat \ {0}, M \in Nat \ {0} : H = 2^(IntBits - 1) /\ M = 2^IntBits
  BY <1>1, WordPowers
<1>3. M = 2 * H
  BY <1>1, <1>2, PowersAssumption
<1>4. k % M = k
  <2>1. k \in 0..(M - 1)
    BY <1>3
  <2> QED BY <2>1
<1>5. InC(f, Num(k)) = Num(k)
  BY <1>2, <1>4, NumFacts DEF InC, Unsigned
<1>6. Ffi2Lua(f, Num(k)) = Bool(k # 0)
  BY NumFacts DEF Ffi2Lua
<1>7. Bool(k # 0).t = "boolean" /\ Bool(k # 0).n = k /\ Error.t = "error"
  BY DEF Bool, Error, Value
<1>8. Lua2Ffi(f, Bool(k # 0)) = Lua2Bool(Bool(k # 0))
  BY DEF Lua2Ffi
<1> QED BY <1>5, <1>6, <1>7, <1>8 DEF Lua2Bool

(* A truth value, a number or an enum on its way to C and back.            *)
LEMMA Conversions ==
  ASSUME NEW f \in Function
  PROVE  /\ ArgType[f] \in {"int", "uint", "long"} =>
              \A v : Lua2Ffi(f, v) = Lua2Long(v)
         /\ ArgType[f] = "bool" => \A v : Lua2Ffi(f, v) = Lua2Bool(v)
         /\ ArgType[f] = "enum" => \A v : Lua2Ffi(f, v) = Lua2Enum(v)
         /\ ArgType[f] = "double" => \A v : Lua2Ffi(f, v) = Lua2Double(v)
         /\ ArgType[f] = "int" => \A c : InC(f, c) = Num(Signed(c.n, IntBits))
         /\ ArgType[f] = "long" => \A c : InC(f, c) = Num(Signed(c.n, Word))
         /\ ArgType[f] \in {"bool", "enum", "uint"} =>
              \A c : InC(f, c) = Num(Unsigned(c.n, IntBits))
         /\ ArgType[f] \notin {"int", "long", "bool", "enum", "uint"} =>
              \A c : InC(f, c) = c
         /\ ArgType[f] \notin {"bool", "enum", "enum*"} =>
              \A c : Ffi2Lua(f, c) = c
BY DEF Lua2Ffi, InC, Ffi2Lua

LEMMA EnumStays ==
  ASSUME NEW f \in Function, ArgType[f] = "enum", NEW n \in Int
  PROVE  /\ Ffi2Lua(f, Num(n)) # Error
         /\ Lua2Ffi(f, Ffi2Lua(f, Num(n))) = Num(Signed(n, IntBits))
<1>1. ArgSpec[f].index # 0
  BY ArgumentsAssumption
<1>2. Ffi2Lua(f, Num(n)) = PushConstant(ArgSpec[f], n)
  BY NumFacts DEF Ffi2Lua
<1>3. PICK ts : PushConstant(ArgSpec[f], n) = Enum(ts, Signed(n, IntBits))
  BY <1>1 DEF PushConstant
<1>4. Enum(ts, Signed(n, IntBits)).t = "enum"
      /\ Enum(ts, Signed(n, IntBits)).n = Signed(n, IntBits) /\ Error.t = "error"
  BY DEF Enum, Error, Value
<1>5. Lua2Enum(Enum(ts, Signed(n, IntBits))) = Num(Signed(n, IntBits))
  BY <1>4 DEF Lua2Enum
<1> QED BY <1>2, <1>3, <1>4, <1>5, Conversions

(* What a function returns can be given to it again, and is the same.      *)
LEMMA GivenStays ==
  ASSUME Proper(x), NEW f \in Function, Lua2Ffi(f, x) # Error
  PROVE  GivenAgain(f)
<1> SUFFICES ASSUME ArgType[f] \notin {"bool*", "enum*"}
             PROVE  Returned(f, Returned(f, x)) = Returned(f, x)
  BY DEF GivenAgain
<1>1. PICK c : c = Lua2Ffi(f, x) /\ c # Error
  OBVIOUS
<1>2. PICK r : r = Ffi2Lua(f, InC(f, c))
  OBVIOUS
<1>3. Returned(f, x) = r
  BY <1>1, <1>2 DEF Returned, Back
<1>4. SUFFICES Lua2Ffi(f, r) # Error /\ Ffi2Lua(f, InC(f, Lua2Ffi(f, r))) = r
  BY <1>3 DEF Returned, Back
<1>5. PICK n \in Int, m \in Int : n = x.n /\ m = Numeric(x)
  BY NumericInt DEF Proper
<1>6. ArgType[f] \in {"bool", "int", "uint", "long", "enum", "double", "char*",
                      "struct*", "int*", "uint*", "double*"}
  BY ArgTypes
<1>7. CASE ArgType[f] = "bool"
  <2>1. c = Num(n) /\ n \in {0, 1}
    BY <1>1, <1>5, <1>7, Conversions DEF Lua2Bool, Proper
  <2>2. r = Bool(n # 0)
    BY <1>2, <1>7, <2>1, TruthStays
  <2>3. Lua2Ffi(f, r) = Num(n)
    BY <1>7, <2>1, <2>2, TruthStays
  <2> QED BY <1>7, <2>1, <2>2, <2>3, TruthStays, NumFacts
<1>8. CASE ArgType[f] \in {"int", "uint", "long"}
  <2>1. PICK k \in Int : c = Num(k)
    BY <1>1, <1>5, <1>8, Conversions DEF Lua2Long
  <2>2. PICK s \in Int : InC(f, c) = Num(s) /\ InC(f, Num(s)) = Num(s)
    <3>1. \A w \in {IntBits, Word} :
            /\ Signed(k, w) \in Int /\ Signed(Signed(k, w), w) = Signed(k, w)
            /\ Unsigned(k, w) \in Int /\ Unsigned(Unsigned(k, w), w) = Unsigned(k, w)
      BY SignedAgain
    <3>2. c.n = k
      BY <2>1, NumFacts
    <3>3. CASE ArgType[f] = "int"
      <4>1. InC(f, c) = Num(Signed(k, IntBits))
            /\ InC(f, Num(Signed(k, IntBits))) = Num(Signed(k, IntBits))
        BY <3>1, <3>2, <3>3, Conversions, NumFacts
      <4> QED BY <3>1, <4>1
    <3>4. CASE ArgType[f] = "long"
      <4>1. InC(f, c) = Num(Signed(k, Word))
            /\ InC(f, Num(Signed(k, Word))) = Num(Signed(k, Word))
        BY <3>1, <3>2, <3>4, Conversions, NumFacts
      <4> QED BY <3>1, <4>1
    <3>5. CASE ArgType[f] = "uint"
      <4>1. InC(f, c) = Num(Unsigned(k, IntBits))
            /\ InC(f, Num(Unsigned(k, IntBits))) = Num(Unsigned(k, IntBits))
        BY <3>1, <3>2, <3>5, Conversions, NumFacts
      <4> QED BY <3>1, <4>1
    <3> QED BY <1>8, <3>3, <3>4, <3>5
  <2>3. r = Num(s)
    BY <1>2, <1>8, <2>2, Conversions
  <2>4. Lua2Ffi(f, r) = r
    BY <1>8, <2>3, Conversions, NumFacts
  <2> QED BY <1>8, <2>2, <2>3, <2>4, Conversions, NumFacts
<1>9. CASE ArgType[f] = "enum"
  <2>1. c = Num(n)
    BY <1>1, <1>5, <1>9, Conversions DEF Lua2Enum
  <2>2. PICK u \in Int : /\ u = Unsigned(n, IntBits)
                         /\ Unsigned(Signed(u, IntBits), IntBits) = u
                         /\ Signed(u, IntBits) \in Int
    BY SignedAgain
  <2>3. InC(f, c) = Num(u)
    BY <1>9, <2>1, <2>2, Conversions, NumFacts
  <2>4. Lua2Ffi(f, r) = Num(Signed(u, IntBits))
    BY <1>2, <1>9, <2>3, EnumStays
  <2>5. InC(f, Num(Signed(u, IntBits))) = Num(u)
    BY <1>9, <2>2, Conversions, NumFacts
  <2> QED BY <1>2, <2>3, <2>4, <2>5, NumFacts
<1>10. CASE ArgType[f] = "double"
  <2>1. c = Num(m)
    BY <1>1, <1>5, <1>10, Conversions DEF Lua2Double
  <2>2. r = Num(m) /\ \A v : Ffi2Lua(f, InC(f, v)) = v
    BY <1>2, <1>10, <2>1, Conversions
  <2>3. Lua2Ffi(f, r) = r
    BY <1>10, <2>2, Conversions, NumFacts
  <2> QED BY <1>1, <2>1, <2>2, <2>3
<1>11. CASE ArgType[f] \in {"char*", "struct*", "int*", "uint*", "double*"}
  <2>1. r = c /\ \A v : Ffi2Lua(f, InC(f, v)) = v
    BY <1>2, <1>11, Conversions
  <2>2. Nil.t = "nil" /\ (\A s : Str(s).t = "string") /\ Error.t = "error"
    BY DEF Nil, Str, Error, Value
  <2>3. Lua2Ffi(f, c) = c
    <3>1. CASE ArgType[f] = "char*"
      <4>1. \A v : Lua2Ffi(f, v) = Lua2CharPtr(v)
        BY <3>1 DEF Lua2Ffi
      <4>2. c.t \in {"nil", "string"}
        BY <1>1, <2>2, <4>1 DEF Lua2CharPtr
      <4> QED BY <4>1, <4>2 DEF Lua2CharPtr
    <3>2. CASE ArgType[f] = "struct*"
      <4>1. \A v : Lua2Ffi(f, v) = Lua2StructPtr(v, ArgClass[f])
        BY <3>2 DEF Lua2Ffi
      <4> QED BY <1>1, <4>1 DEF Lua2StructPtr
    <3>3. CASE ArgType[f] = "double*"
      <4>1. \A v : Lua2Ffi(f, v) = Lua2DoublePtr(v)
        BY <3>3 DEF Lua2Ffi
      <4> QED BY <1>1, <4>1 DEF Lua2DoublePtr
    <3>4. CASE ArgType[f] \in {"int*", "uint*"}
      <4>1. \A v : Lua2Ffi(f, v) = Lua2IntPtr(v, ArgType[f])
        BY <3>4 DEF Lua2Ffi
      <4>2. CASE x = Nil
        BY <1>1, <4>1, <4>2 DEF Lua2IntPtr
      <4>3. CASE x # Nil
        <5>1. c = StoreInt(x, ArgType[f])
          BY <1>1, <4>1, <4>3 DEF Lua2IntPtr
        <5>2. PICK k \in Int : /\ ArgType[f] = "int*" => k = ToInt(m) /\ ToInt(k) = k
                               /\ ArgType[f] = "uint*" => /\ k = Unsigned(m, IntBits)
                                                          /\ Unsigned(k, IntBits) = k
          <6>1. ToInt(m) \in Int /\ ToInt(ToInt(m)) = ToInt(m)
            BY ToIntInt
          <6>2. Unsigned(m, IntBits) \in Int
                /\ Unsigned(Unsigned(m, IntBits), IntBits) = Unsigned(m, IntBits)
            BY SignedAgain
          <6> QED BY <6>1, <6>2, <3>4
        <5>3. c = Num(k)
          BY <1>1, <1>5, <3>4, <5>1, <5>2 DEF StoreInt
        <5>4. StoreInt(Num(k), ArgType[f]) = Num(k)
          BY <3>4, <5>2, NumFacts DEF StoreInt
        <5> QED BY <4>1, <5>3, <5>4, NumFacts DEF Lua2IntPtr
      <4> QED BY <4>2, <4>3
    <3> QED BY <1>11, <3>1, <3>2, <3>3, <3>4
  <2> QED BY <1>1, <2>1, <2>3
<1> QED BY <1>6, <1>7, <1>8, <1>9, <1>10, <1>11

(* What the library hands to a callback, it gets back.                     *)
LEMMA HandedStays ==
  ASSUME Proper(x), NEW f \in Function, Lua2Ffi(f, x) # Error
  PROVE  HandedBack(f)
<1> SUFFICES ASSUME ArgType[f] \in {"bool", "int", "uint", "long", "enum", "double"},
                    NEW l \in InRegister(f, InC(f, Lua2Ffi(f, x)).n)
             PROVE  InC(f, Lua2Ffi(f, Ffi2Lua(f, Num(l)))) = InC(f, Lua2Ffi(f, x))
  BY DEF HandedBack
<1>1. PICK c : c = InC(f, Lua2Ffi(f, x)) /\ l \in InRegister(f, c.n)
  OBVIOUS
<1>2. PICK n \in Int, m \in Int : n = x.n /\ m = Numeric(x)
  BY NumericInt DEF Proper
<1>3. CASE ArgType[f] = "bool"
  <2>1. Lua2Ffi(f, x) = Num(n) /\ n \in {0, 1}
    BY <1>2, <1>3, Conversions DEF Lua2Bool, Proper
  <2>2. c = Num(n)
    BY <1>1, <1>3, <2>1, TruthStays
  <2>3. Unsigned(n, IntBits) = n
    <3>1. InC(f, Num(n)) = Num(n)
      BY <1>3, <2>1, TruthStays
    <3>2. InC(f, Num(n)) = Num(Unsigned(n, IntBits))
      BY <1>3, Conversions, NumFacts
    <3>3. Num(n).n = n /\ Num(Unsigned(n, IntBits)).n = Unsigned(n, IntBits)
      BY NumFacts
    <3> QED BY <3>1, <3>2, <3>3
  <2>4. l = n
    BY <1>1, <1>3, <2>2, <2>3, NumFacts DEF InRegister
  <2> QED BY <1>1, <1>3, <2>1, <2>2, <2>4, TruthStays
<1>4. CASE ArgType[f] = "enum"
  <2>1. Lua2Ffi(f, x) = Num(n)
    BY <1>2, <1>4, Conversions DEF Lua2Enum
  <2>2. PICK u \in Int : /\ u = Unsigned(n, IntBits) /\ Unsigned(u, IntBits) = u
                         /\ Unsigned(Signed(u, IntBits), IntBits) = u
    BY SignedAgain
  <2>3. c = Num(u) /\ l = u
    BY <1>1, <1>4, <2>1, <2>2, Conversions, NumFacts DEF InRegister
  <2>4. Lua2Ffi(f, Ffi2Lua(f, Num(l))) = Num(Signed(u, IntBits))
    BY <1>4, <2>3, EnumStays
  <2> QED BY <1>1, <1>4, <2>2, <2>3, <2>4, Conversions, NumFacts
<1>5. CASE ArgType[f] = "double"
  <2>1. Lua2Ffi(f, x) = Num(m)
    BY <1>2, <1>5, Conversions DEF Lua2Double
  <2>2. c = Num(m) /\ l = m
    BY <1>1, <1>5, <2>1, Conversions, NumFacts DEF InRegister
  <2> QED BY <1>1, <1>5, <2>1, <2>2, Conversions, NumFacts
<1>6. CASE ArgType[f] \in {"int", "uint", "long"}
  <2>1. PICK k \in Int : Lua2Ffi(f, x) = Num(k)
    BY <1>2, <1>6, Conversions DEF Lua2Long
  <2>2. \A w \in {IntBits, Word} :
          /\ Signed(Signed(k, w), w) = Signed(k, w)
          /\ Unsigned(Unsigned(k, w), w) = Unsigned(k, w)
          /\ Signed(k, w) \in Int /\ Unsigned(k, w) \in Int
    BY SignedAgain
  <2>3. \A y : Lua2Ffi(f, Ffi2Lua(f, Num(y))) = Num(y)
    BY <1>6, Conversions, NumFacts
  <2>4. CASE ArgType[f] = "int"
    <3>1. PICK s \in Int : s = Signed(k, IntBits) /\ Signed(s, IntBits) = s
      BY <2>2
    <3>2. c = Num(s)
      BY <1>1, <2>1, <2>4, <3>1, Conversions, NumFacts
    <3>3. l = s \/ l = Unsigned(s, IntBits)
      BY <1>1, <2>4, <3>2, NumFacts DEF InRegister
    <3>4. Signed(Unsigned(s, IntBits), IntBits) = s
      BY <3>1, SignedAgain
    <3> QED BY <1>1, <2>3, <2>4, <3>1, <3>2, <3>3, <3>4, Conversions, NumFacts
  <2>5. CASE ArgType[f] = "uint"
    <3>1. c = Num(Unsigned(k, IntBits)) /\ l = Unsigned(k, IntBits)
      BY <1>1, <2>1, <2>5, Conversions, NumFacts DEF InRegister
    <3> QED BY <1>1, <2>2, <2>3, <2>5, <3>1, Conversions, NumFacts
  <2>6. CASE ArgType[f] = "long"
    <3>1. c = Num(Signed(k, Word)) /\ l = Signed(k, Word)
      BY <1>1, <2>1, <2>6, Conversions, NumFacts DEF InRegister
    <3> QED BY <1>1, <2>2, <2>3, <2>6, <3>1, Conversions, NumFacts
  <2> QED BY <1>6, <2>4, <2>5, <2>6
<1> QED BY <1>3, <1>4, <1>5, <1>6

(* Values survive the way to C and back: a field or property can be set to *)
(* what reading it gives, which leaves it as it was (get_bits_unaligned    *)
(* and set_bits, lg_gvalue_to_lua and lg_lua_to_gvalue_cast); a function   *)
(* accepts what it returned and returns the same (lua2ffi, ffi2lua); and   *)
(* the library gets back what it hands to a callback, whatever the rest of *)
(* the register holds.                                                     *)
THEOREM RoundTrips == Spec => []RoundTrip
<1>1. Init => Kept /\ Owning /\ Typed
  BY InitKept, InitOwning, InitTyped
<1>2. Kept /\ Owning /\ Typed /\ [Next]_vars => (Kept /\ Owning /\ Typed)'
  BY NextKept, NextOwning, NextTyped
<1>3. Typed => RoundTrip
  <2> SUFFICES ASSUME Typed PROVE RoundTrip
    OBVIOUS
  <2>1. \A p \in Prop : PropertyAgain(p)
    BY PropertiesAgain DEF Typed, Slot
  <2>2. \A f \in Function : Lua2Ffi(f, x) # Error => GivenAgain(f) /\ HandedBack(f)
    BY GivenStays, HandedStays DEF Typed
  <2> QED BY <2>1, <2>2, FieldsAgain DEF RoundTrip
<1> QED BY <1>1, <1>2, <1>3, PTL DEF Spec
=============================================================================
