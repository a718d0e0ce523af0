--------------------------- MODULE ReferencesProofs ---------------------------
(* Theorems about References, for any number of closures, code, functions, *)
(* types, boxes, objects and handlers, and a registry of any size: first   *)
(* closures, whose invariant CInv does not need the registry, then who     *)
(* owns the cells of the registry, with the invariant RInv.                *)
EXTENDS References, FiniteSetTheorems, TLAPS

-----------------------------------------------------------------------------
(***************************************************************************)
(* The inductive invariant.  PointersGood and CallsDetected need to know   *)
(* which code leads to which closure, and that no cif has two uses.        *)
(***************************************************************************)
Alloc(t)     == code[t].alloc
Automatic(c) == cl[c].is_automatic

TypesOK ==
  /\ cl \in [Closure -> ClosureRecord \cup {NULL}]
  /\ code \in [Code -> [alloc : BOOLEAN, cl : Closure \cup {NULL},
                        cif : Cif \cup {NULL}]]
  /\ held \subseteq Closure /\ cifs \subseteq Cif
  /\ call \in CallRecord \cup {NULL}

(* A closure that has code and the code that leads to it agree; code that  *)
(* is allocated has a cif of its own.                                      *)
Linked(c) ==
  /\ cl[c].code = NULL => cl[c].cif = NULL
  /\ cl[c].code # NULL =>
       /\ cl[c].ts # NULL
       /\ cl[c].code \in Code /\ Alloc(cl[c].code)
       /\ code[cl[c].code].cl = c
       /\ code[cl[c].code].cif = cl[c].cif

CodeOK ==
  /\ \A c \in Closure : Live(c) => Linked(c)
  /\ \A t \in Code : Alloc(t) => code[t].cl \in Closure /\ code[t].cif \in cifs
  /\ \A t, u \in Code :
       Alloc(t) /\ Alloc(u) /\ t # u => code[t].cif # code[u].cif

(* What the keeper has belongs to no closure any more. *)
UnusedOK ==
  \A u \in unused :
    /\ u[1] \in Code /\ Alloc(u[1]) /\ code[u[1]].cif = u[2]
    /\ \A c \in Closure : Live(c) => cl[c].code # u[1]

(* An automatic closure is reachable only during the call it is made for.  *)
HeldOK ==
  \A c \in held :
    /\ Live(c)
    /\ cl[c].code = NULL => cl[c].ts = NULL
    /\ Automatic(c) => call # NULL /\ call.closure = c

(* The closure c is what the pointer p stands for. *)
Backs(c, p) ==
  cl[c].code = p.code /\ cl[c].func = p.func /\ cl[c].ts = p.ts

CallOK ==
  call # NULL =>
    /\ call.closure \in held /\ Backs(call.closure, call.pointer)
    /\ Automatic(call.closure) => call.fn \notin Keeps

Kept(p) == \E c \in held : ~Automatic(c) /\ Backs(c, p)

(* With the debug flag, code the library has is not used again, and a      *)
(* closure with its cif is the one it was made for.                        *)
Own(c, p) == Live(c) /\ cl[c].cif = code[p.code].cif =>
               cl[c].func = p.func /\ cl[c].ts = p.ts
Stays(p) == Alloc(p.code) /\ Own(code[p.code].cl, p)

LibOK == /\ lib \subseteq PointerRecord
         /\ careful => \A p \in lib : Kept(p)
         /\ debug => \A p \in lib : Stays(p)

CInv ==
  TypesOK /\ CodeOK /\ UnusedOK /\ HeldOK /\ CallOK /\ LibOK

-----------------------------------------------------------------------------
LEMMA RefIsInt ==
  ASSUME NEW r, NEW v
  PROVE  RefOf(r, v) \in Int
<1> DEFINE used == {i \in 1..MaxRef : r[i] # NULL}
<1>1. Cardinality(used) \in Nat
  <2>1. IsFiniteSet(1..MaxRef)
    BY FS_Interval, RegistryAssumption
  <2>2. used \in SUBSET (1..MaxRef)
    OBVIOUS
  <2> HIDE DEF used
  <2> QED BY <2>1, <2>2, FS_Subset, FS_CardinalityType
<1>2. CASE ToInteger(r[0]) # 0
  BY <1>2, RegistryAssumption DEF RefOf, FreeRef, ToInteger, LUA_REFNIL
<1>3. CASE ToInteger(r[0]) = 0
  BY <1>1, <1>3 DEF RefOf, FreeRef, LUA_REFNIL
<1> QED BY <1>2, <1>3

LEMMA CreatedType ==
  ASSUME NEW c \in Closure, NEW f \in Func, NEW a \in BOOLEAN
  PROVE  /\ Created(c, f, a) \in ClosureRecord
         /\ Created(c, f, a).magic1 = TRUE
         /\ Created(c, f, a).code = NULL /\ Created(c, f, a).cif = NULL
         /\ Created(c, f, a).ts = NULL /\ Created(c, f, a).func = f
         /\ Created(c, f, a).is_automatic = a
BY RefIsInt DEF Created, Zeroed, ClosureRecord

LEMMA ZeroedType ==
  Zeroed \in ClosureRecord /\ Zeroed.magic1 = FALSE
BY DEF Zeroed, ClosureRecord

(* The closure c becomes y; all others stay. *)
Becomes(c, y) == cl' = [cl EXCEPT ![c] = y]

LEMMA BecomesFacts ==
  ASSUME TypesOK, NEW c \in Closure, NEW y \in ClosureRecord, Becomes(c, y)
  PROVE  /\ cl' \in [Closure -> ClosureRecord \cup {NULL}]
         /\ cl'[c] = y
         /\ \A d \in Closure \ {c} : cl'[d] = cl[d]
         /\ Live(c)' <=> y.magic1 = TRUE
         /\ \A d \in Closure \ {c} : Live(d)' <=> Live(d)
         /\ Automatic(c)' <=> y.is_automatic
         /\ \A d \in Closure \ {c} : Automatic(d)' <=> Automatic(d)
<1>1. /\ cl' \in [Closure -> ClosureRecord \cup {NULL}]
      /\ cl'[c] = y
      /\ \A d \in Closure \ {c} : cl'[d] = cl[d]
  BY DEF TypesOK, Becomes
<1>2. y # NULL /\ y.magic1 \in BOOLEAN
  BY RecordsAssumption DEF ClosureRecord
<1>3. Live(c)' <=> y.magic1 = TRUE
  BY <1>1, <1>2 DEF Live
<1>4. \A d \in Closure \ {c} : Live(d)' <=> Live(d)
  BY <1>1, Zenon DEF Live
<1>5. Automatic(c)' <=> y.is_automatic
  BY <1>1, Zenon DEF Automatic
<1>6. \A d \in Closure \ {c} : Automatic(d)' <=> Automatic(d)
  BY <1>1, Zenon DEF Automatic
<1> QED BY <1>1, <1>3, <1>4, <1>5, <1>6

(* The record that _setup_closure leaves. *)
SetUp(x, fn, t, k) == [x EXCEPT !.ts = TypeOf[fn], !.code = t, !.cif = k]

LEMMA SetUpType ==
  ASSUME NEW x \in ClosureRecord, NEW fn \in LibFunc, NEW t \in Code,
         NEW k \in Cif
  PROVE  /\ SetUp(x, fn, t, k) \in ClosureRecord
         /\ SetUp(x, fn, t, k).magic1 = x.magic1
         /\ SetUp(x, fn, t, k).ts = TypeOf[fn]
         /\ SetUp(x, fn, t, k).code = t /\ SetUp(x, fn, t, k).cif = k
         /\ SetUp(x, fn, t, k).func = x.func
         /\ SetUp(x, fn, t, k).is_automatic = x.is_automatic
<1>1. TypeOf[fn] \in Types
  BY DEF Types
<1> QED BY <1>1 DEF SetUp, ClosureRecord

LEMMA SetupFacts ==
  ASSUME TypesOK, NEW c \in Closure, NEW x \in ClosureRecord,
         NEW fn \in LibFunc, NEW t \in Code, NEW k \in Cif,
         Setup(c, x, fn, t, k)
  PROVE  /\ ~Alloc(t) /\ k \notin cifs
         /\ Becomes(c, SetUp(x, fn, t, k))
         /\ code' \in [Code -> [alloc : BOOLEAN, cl : Closure \cup {NULL},
                                cif : Cif \cup {NULL}]]
         /\ Alloc(t)' /\ code'[t].cl = c /\ code'[t].cif = k
         /\ \A u \in Code \ {t} : code'[u] = code[u]
         /\ \A u \in Code \ {t} : Alloc(u)' <=> Alloc(u)
         /\ cifs' = cifs \cup {k}
<1>1. Becomes(c, SetUp(x, fn, t, k)) /\ cifs' = cifs \cup {k} /\ k \notin cifs
  BY DEF Setup, Becomes, SetUp
<1>2. ~Alloc(t)
  BY Zenon DEF Setup, Alloc
<1>3. /\ code' \in [Code -> [alloc : BOOLEAN, cl : Closure \cup {NULL},
                             cif : Cif \cup {NULL}]]
      /\ code'[t] = [alloc |-> TRUE, cl |-> c, cif |-> k]
      /\ \A u \in Code \ {t} : code'[u] = code[u]
  BY DEF Setup, TypesOK
<1>4. Alloc(t)' /\ code'[t].cl = c /\ code'[t].cif = k
  BY <1>3 DEF Alloc
<1>5. \A u \in Code \ {t} : Alloc(u)' <=> Alloc(u)
  BY <1>3, Zenon DEF Alloc
<1> QED BY <1>1, <1>2, <1>3, <1>4, <1>5

(* c gets its code now. *)
Codeless(c) == cl[c] = NULL \/ (Live(c) /\ cl[c].code = NULL)

LEMMA HeldLive ==
  ASSUME CInv, NEW p \in lib, Kept(p)
  PROVE  \E d \in held : /\ Live(d) /\ ~Automatic(d) /\ Backs(d, p)
                        /\ d \in Closure /\ cl[d].code # NULL
BY ClosureAssumption DEF CInv, HeldOK, LibOK, Kept, Backs, PointerRecord, TypesOK

(* Setting up a closure disturbs no other closure and no pointer. *)
LEMMA SetupKeeps ==
  ASSUME CInv, NEW c \in Closure, Codeless(c), NEW x \in ClosureRecord,
         x.magic1 = TRUE, NEW fn \in LibFunc, NEW t \in Code, NEW k \in Cif,
         Setup(c, x, fn, t, k), unused' = unused, held \subseteq held'
  PROVE  /\ CodeOK' /\ UnusedOK'
         /\ \A p \in lib : (careful => Kept(p)') /\ (debug => Stays(p)')
<1> DEFINE y == SetUp(x, fn, t, k)
<1>1. /\ y \in ClosureRecord /\ y.magic1 = TRUE
      /\ y.ts = TypeOf[fn] /\ y.code = t /\ y.cif = k
  BY SetUpType
<1>2. TypesOK
  BY DEF CInv
<1>3. /\ ~Alloc(t) /\ k \notin cifs
      /\ Becomes(c, y)
      /\ Alloc(t)' /\ code'[t].cl = c /\ code'[t].cif = k
      /\ \A u \in Code \ {t} : code'[u] = code[u]
      /\ \A u \in Code \ {t} : Alloc(u)' <=> Alloc(u)
      /\ cifs' = cifs \cup {k}
  BY <1>2, SetupFacts
<1> HIDE DEF y
<1>4. /\ cl'[c] = y
      /\ \A d \in Closure \ {c} : cl'[d] = cl[d]
      /\ Live(c)'
      /\ \A d \in Closure \ {c} : Live(d)' <=> Live(d)
      /\ \A d \in Closure \ {c} : Automatic(d)' <=> Automatic(d)
  BY <1>1, <1>2, <1>3, BecomesFacts
<1>5. CodeOK'
  <2>1. \A d \in Closure : Live(d)' => Linked(d)'
    <3>1. Linked(c)'
      BY <1>1, <1>3, <1>4, ClosureAssumption DEF Linked
    <3>2. ASSUME NEW d \in Closure \ {c}, Live(d)'
          PROVE  Linked(d)'
      BY <1>3, <1>4, <3>2 DEF Linked, CInv, CodeOK
    <3> QED BY <3>1, <3>2
  <2>2. \A u \in Code : Alloc(u)' => code'[u].cl \in Closure /\ code'[u].cif \in cifs'
    BY <1>3 DEF CInv, CodeOK
  <2>3. \A u, v \in Code :
          Alloc(u)' /\ Alloc(v)' /\ u # v => code'[u].cif # code'[v].cif
    BY <1>3 DEF CInv, CodeOK
  <2> QED BY <2>1, <2>2, <2>3 DEF CodeOK
<1>6. UnusedOK'
  BY <1>1, <1>3, <1>4 DEF CInv, UnusedOK
<1>7. ASSUME NEW p \in lib, careful
      PROVE  Kept(p)'
  <2>1. Kept(p)
    BY <1>7 DEF CInv, LibOK
  <2>2. PICK d \in held : /\ Live(d) /\ ~Automatic(d) /\ Backs(d, p)
                          /\ d \in Closure /\ cl[d].code # NULL
    BY <2>1, HeldLive
  <2>3. d # c
    BY <2>2 DEF Codeless, Live
  <2> QED BY <1>4, <2>2, <2>3 DEF Kept, Backs
<1>8. ASSUME NEW p \in lib, debug
      PROVE  Stays(p)'
  <2>1. Stays(p) /\ p.code \in Code
    BY <1>8 DEF CInv, LibOK, PointerRecord
  <2>2. /\ Alloc(p.code)' /\ code'[p.code] = code[p.code]
        /\ code[p.code].cl \in Closure /\ code[p.code].cif \in cifs
    BY <1>3, <2>1 DEF Stays, CInv, CodeOK
  <2>3. CASE code[p.code].cl = c
    BY <1>1, <1>3, <1>4, <2>2, <2>3 DEF Stays, Own
  <2>4. CASE code[p.code].cl # c
    BY <1>4, <2>1, <2>2, <2>4 DEF Stays, Own
  <2> QED BY <2>3, <2>4
<1> QED BY <1>5, <1>6, <1>7, <1>8

(* A new closure that has no code yet disturbs nothing either. *)
LEMMA FreshKeeps ==
  ASSUME CInv, NEW c \in Closure, cl[c] = NULL, NEW y \in ClosureRecord,
         Becomes(c, y), y.code = NULL, y.cif = NULL,
         UNCHANGED <<code, cifs, unused>>, held \subseteq held'
  PROVE  /\ CodeOK' /\ UnusedOK'
         /\ \A p \in lib : (careful => Kept(p)') /\ (debug => Stays(p)')
<1>1. TypesOK
  BY DEF CInv
<1>2. \A t \in Code : Alloc(t)' <=> Alloc(t)
  BY Zenon DEF Alloc
<1>3. /\ cl'[c] = y
      /\ \A d \in Closure \ {c} : cl'[d] = cl[d]
      /\ \A d \in Closure \ {c} : Live(d)' <=> Live(d)
      /\ \A d \in Closure \ {c} : Automatic(d)' <=> Automatic(d)
  BY <1>1, BecomesFacts
<1>4. CodeOK'
  <2>1. \A d \in Closure : Live(d)' => Linked(d)'
    BY <1>2, <1>3 DEF Linked, CInv, CodeOK
  <2> QED BY <1>2, <2>1 DEF CInv, CodeOK
<1>5. UnusedOK'
  BY <1>2, <1>3, ClosureAssumption DEF CInv, UnusedOK
<1>6. ASSUME NEW p \in lib, careful
      PROVE  Kept(p)'
  <2>1. PICK d \in held : /\ Live(d) /\ ~Automatic(d) /\ Backs(d, p)
                          /\ d \in Closure /\ cl[d].code # NULL
    BY <1>6, HeldLive DEF CInv, LibOK
  <2>2. d # c
    BY <2>1 DEF Live
  <2> QED BY <1>3, <2>1, <2>2 DEF Kept, Backs
<1>7. ASSUME NEW p \in lib, debug
      PROVE  Stays(p)'
  <2>1. Stays(p) /\ p.code \in Code
    BY <1>7 DEF CInv, LibOK, PointerRecord
  <2>2. /\ Alloc(p.code)' /\ code'[p.code] = code[p.code]
        /\ code[p.code].cl \in Closure /\ code[p.code].cif \in Cif
    BY <1>2, <2>1 DEF Stays, CInv, CodeOK, TypesOK
  <2> QED BY <1>3, <2>1, <2>2, ClosureAssumption DEF Stays, Own
<1> QED BY <1>4, <1>5, <1>6, <1>7

LEMMA LiveIs ==
  ASSUME TypesOK, NEW c \in Closure, Live(c)
  PROVE  cl[c] \in ClosureRecord /\ cl[c].magic1 = TRUE
<1>1. cl[c] \in ClosureRecord /\ cl[c].magic1 \in BOOLEAN
  BY DEF TypesOK, Live, ClosureRecord
<1>2. cl[c].magic1
  BY Zenon DEF Live
<1> QED BY <1>1, <1>2

(* A closure is used for the function fn: it has code, and the type of fn. *)
LEMMA UseFacts ==
  ASSUME CInv, NEW c \in held, NEW fn \in LibFunc, NEW t \in Code,
         Use(c, fn, t), UNCHANGED <<unused, held>>
  PROVE  /\ cl' \in [Closure -> ClosureRecord \cup {NULL}]
         /\ code' \in [Code -> [alloc : BOOLEAN, cl : Closure \cup {NULL},
                                cif : Cif \cup {NULL}]]
         /\ cifs' \subseteq Cif
         /\ CodeOK' /\ UnusedOK'
         /\ \A p \in lib : (careful => Kept(p)') /\ (debug => Stays(p)')
         /\ cl'[c].code = t /\ cl'[c].ts = TypeOf[fn]
         /\ Alloc(t)' /\ code'[t].cl = c
         /\ \A d \in held \ {c} : cl'[d] = cl[d]
         /\ \A d \in held : Live(d)'
         /\ \A d \in held : Automatic(d)' <=> Automatic(d)
<1>1. TypesOK /\ c \in Closure /\ held \subseteq Closure
  BY DEF CInv, TypesOK
<1>2. \A d \in held : Live(d)
  BY DEF CInv, HeldOK
<1>3. cl[c] \in ClosureRecord /\ cl[c].magic1 = TRUE
  BY <1>1, <1>2, LiveIs
<1>4. CASE cl[c].ts = NULL
  <2>1. PICK k \in Cif : Setup(c, cl[c], fn, t, k)
    BY <1>4 DEF Use
  <2>2. Codeless(c)
    BY <1>1, <1>2, <1>4 DEF Codeless, CInv, CodeOK, Linked
  <2>3. /\ CodeOK' /\ UnusedOK'
        /\ \A p \in lib : (careful => Kept(p)') /\ (debug => Stays(p)')
    BY <1>1, <1>3, <2>1, <2>2, SetupKeeps
  <2> DEFINE y == SetUp(cl[c], fn, t, k)
  <2>4. /\ Becomes(c, y) /\ cifs' = cifs \cup {k}
        /\ code' \in [Code -> [alloc : BOOLEAN, cl : Closure \cup {NULL},
                               cif : Cif \cup {NULL}]]
        /\ Alloc(t)' /\ code'[t].cl = c
    BY <1>1, <1>3, <2>1, SetupFacts
  <2>5. /\ y \in ClosureRecord /\ y.magic1 = TRUE
        /\ y.code = t /\ y.ts = TypeOf[fn]
        /\ y.is_automatic = cl[c].is_automatic
    BY <1>3, SetUpType
  <2> HIDE DEF y
  <2>6. /\ cl' \in [Closure -> ClosureRecord \cup {NULL}]
        /\ cl'[c] = y
        /\ \A d \in Closure \ {c} : cl'[d] = cl[d]
        /\ Live(c)'
        /\ \A d \in Closure \ {c} : Live(d)' <=> Live(d)
        /\ Automatic(c)' <=> y.is_automatic
        /\ \A d \in Closure \ {c} : Automatic(d)' <=> Automatic(d)
    BY <1>1, <2>4, <2>5, BecomesFacts
  <2>7. Automatic(c)' <=> Automatic(c)
    BY <2>5, <2>6, Zenon DEF Automatic
  <2>8. cifs' \subseteq Cif
    BY <1>1, <2>4 DEF TypesOK
  <2> QED BY <1>1, <1>2, <2>3, <2>4, <2>5, <2>6, <2>7, <2>8
<1>5. CASE cl[c].ts # NULL
  <2>1. UNCHANGED <<cl, code, cifs>> /\ cl[c].ts = TypeOf[fn] /\ t = cl[c].code
    BY <1>5 DEF Use
  <2>2. \A d : (Live(d)' <=> Live(d)) /\ (Automatic(d)' <=> Automatic(d))
    BY <2>1, Zenon DEF Live, Automatic
  <2>3. \A u : Alloc(u)' <=> Alloc(u)
    BY <2>1, Zenon DEF Alloc
  <2>4. CodeOK' /\ UnusedOK'
    BY <2>1, <2>2, <2>3 DEF CInv, CodeOK, Linked, UnusedOK
  <2>5. \A p \in lib : (careful => Kept(p)') /\ (debug => Stays(p)')
    BY <2>1, <2>2, <2>3 DEF CInv, LibOK, Kept, Backs, Stays, Own
  <2>6. Alloc(t) /\ code[t].cl = c
    BY <1>1, <1>2, <2>1, ClosureAssumption DEF CInv, CodeOK, Linked
  <2> QED BY <1>1, <1>2, <2>1, <2>2, <2>3, <2>4, <2>5, <2>6 DEF TypesOK
<1> QED BY <1>4, <1>5

-----------------------------------------------------------------------------
(***************************************************************************)
(* Every action keeps the invariant.                                       *)
(***************************************************************************)
LEMMA PointerType ==
  ASSUME NEW c \in Closure, NEW fn \in LibFunc, NEW t \in Code,
         cl' \in [Closure -> ClosureRecord \cup {NULL}], Live(c)'
  PROVE  /\ Pointer(c, fn, t) \in PointerRecord
         /\ Pointer(c, fn, t).code = t
         /\ Pointer(c, fn, t).func = cl'[c].func
         /\ Pointer(c, fn, t).ts = TypeOf[fn]
<1>1. cl'[c].func \in Func \cup {NULL}
  BY DEF Live, ClosureRecord
<1>2. TypeOf[fn] \in Types
  BY DEF Types
<1> QED BY <1>1, <1>2 DEF Pointer, PointerRecord

LEMMA NewClosureKeeps ==
  ASSUME CInv, NEW c \in Closure, NEW f \in Func, NewClosure(c, f)
  PROVE  CInv'
<1> DEFINE y == Created(c, f, FALSE)
<1>1. /\ y \in ClosureRecord /\ y.magic1 = TRUE /\ y.code = NULL /\ y.cif = NULL
      /\ y.ts = NULL /\ y.is_automatic = FALSE
  BY CreatedType
<1>2. /\ cl[c] = NULL /\ Becomes(c, y) /\ held' = held \cup {c}
      /\ UNCHANGED <<code, cifs, unused, call, lib, careful, debug>>
  BY DEF NewClosure, Create, Becomes
<1> HIDE DEF y
<1>3. TypesOK /\ held \subseteq Closure
  BY DEF CInv, TypesOK
<1>4. /\ cl' \in [Closure -> ClosureRecord \cup {NULL}]
      /\ cl'[c] = y
      /\ \A d \in Closure \ {c} : cl'[d] = cl[d]
      /\ Live(c)'
      /\ \A d \in Closure \ {c} : Live(d)' <=> Live(d)
      /\ Automatic(c)' <=> y.is_automatic
      /\ \A d \in Closure \ {c} : Automatic(d)' <=> Automatic(d)
  BY <1>1, <1>2, <1>3, BecomesFacts
<1>5. /\ CodeOK' /\ UnusedOK'
      /\ \A p \in lib : (careful => Kept(p)') /\ (debug => Stays(p)')
  BY <1>1, <1>2, FreshKeeps
<1>6. TypesOK'
  BY <1>2, <1>3, <1>4 DEF TypesOK
<1>7. ~Automatic(c)' /\ c \notin held
  BY <1>1, <1>2, <1>4 DEF CInv, HeldOK, Live
<1>8. HeldOK'
  BY <1>1, <1>2, <1>3, <1>4, <1>7 DEF CInv, HeldOK
<1>9. CallOK'
  BY <1>2, <1>3, <1>4, <1>7 DEF CInv, CallOK, Backs
<1>10. LibOK'
  BY <1>2, <1>5 DEF CInv, LibOK
<1> QED BY <1>5, <1>6, <1>8, <1>9, <1>10 DEF CInv

LEMMA PassFunctionFailsKeeps ==
  ASSUME CInv, NEW c \in Closure, NEW f \in Func, NEW fn \in LibFunc,
         PassFunctionFails(c, f, fn)
  PROVE  CInv'
<1> DEFINE y == [Created(c, f, TRUE) EXCEPT !.ts = TypeOf[fn]]
<1>1. y \in ClosureRecord /\ y.magic1 = TRUE /\ y.code = NULL /\ y.cif = NULL
  <2>1. TypeOf[fn] \in Types
    BY DEF Types
  <2>2. /\ Created(c, f, TRUE) \in ClosureRecord
        /\ Created(c, f, TRUE).magic1 = TRUE
        /\ Created(c, f, TRUE).code = NULL /\ Created(c, f, TRUE).cif = NULL
    BY CreatedType
  <2> QED BY <2>1, <2>2 DEF ClosureRecord
<1>2. /\ cl[c] = NULL /\ Becomes(c, y)
      /\ UNCHANGED <<code, cifs, unused, held, call, lib, careful, debug>>
  BY DEF PassFunctionFails, Create, Becomes
<1> HIDE DEF y
<1>3. TypesOK /\ held \subseteq Closure
  BY DEF CInv, TypesOK
<1>4. /\ cl' \in [Closure -> ClosureRecord \cup {NULL}]
      /\ \A d \in Closure \ {c} : cl'[d] = cl[d]
      /\ \A d \in Closure \ {c} : Live(d)' <=> Live(d)
      /\ \A d \in Closure \ {c} : Automatic(d)' <=> Automatic(d)
  BY <1>1, <1>2, <1>3, BecomesFacts
<1>5. /\ CodeOK' /\ UnusedOK'
      /\ \A p \in lib : (careful => Kept(p)') /\ (debug => Stays(p)')
  BY <1>1, <1>2, FreshKeeps
<1>6. TypesOK'
  BY <1>2, <1>3, <1>4 DEF TypesOK
<1>7. c \notin held
  BY <1>2 DEF CInv, HeldOK, Live
<1>8. HeldOK'
  BY <1>2, <1>3, <1>4, <1>7 DEF CInv, HeldOK
<1>9. CallOK'
  BY <1>2, <1>3, <1>4, <1>7 DEF CInv, CallOK, Backs
<1>10. LibOK'
  BY <1>2, <1>5 DEF CInv, LibOK
<1> QED BY <1>5, <1>6, <1>8, <1>9, <1>10 DEF CInv

LEMMA PassFunctionKeeps ==
  ASSUME CInv, NEW c \in Closure, NEW f \in Func, NEW fn \in LibFunc,
         PassFunction(c, f, fn)
  PROVE  CInv'
<1> DEFINE x == Created(c, f, TRUE)
<1>1. x \in ClosureRecord /\ x.magic1 = TRUE /\ x.is_automatic = TRUE
  BY CreatedType
<1>2. /\ cl[c] = NULL /\ held' = held \cup {c} /\ call = NULL
      /\ MayBeAutomatic(fn) /\ fn \notin Field
      /\ UNCHANGED <<unused, lib, careful, debug>>
  BY DEF PassFunction, Create
<1>3. PICK t \in Code, k \in Cif :
        /\ Setup(c, x, fn, t, k)
        /\ call' = [fn |-> fn, closure |-> c, pointer |-> Pointer(c, fn, t)]
  BY DEF PassFunction
<1> HIDE DEF x
<1> DEFINE y == SetUp(x, fn, t, k)
<1>4. /\ y \in ClosureRecord /\ y.magic1 = TRUE /\ y.code = t
      /\ y.ts = TypeOf[fn] /\ y.is_automatic = TRUE
  BY <1>1, SetUpType
<1>5. TypesOK /\ held \subseteq Closure
  BY DEF CInv, TypesOK
<1>6. /\ Becomes(c, y) /\ cifs' = cifs \cup {k}
      /\ code' \in [Code -> [alloc : BOOLEAN, cl : Closure \cup {NULL},
                             cif : Cif \cup {NULL}]]
  BY <1>1, <1>3, <1>5, SetupFacts
<1> HIDE DEF y
<1>7. /\ cl' \in [Closure -> ClosureRecord \cup {NULL}]
      /\ cl'[c] = y
      /\ \A d \in Closure \ {c} : cl'[d] = cl[d]
      /\ Live(c)'
      /\ \A d \in Closure \ {c} : Live(d)' <=> Live(d)
      /\ \A d \in Closure \ {c} : Automatic(d)' <=> Automatic(d)
  BY <1>4, <1>5, <1>6, BecomesFacts
<1>8. /\ CodeOK' /\ UnusedOK'
      /\ \A p \in lib : (careful => Kept(p)') /\ (debug => Stays(p)')
  BY <1>1, <1>2, <1>3, SetupKeeps DEF Codeless
<1>9. /\ Pointer(c, fn, t) \in PointerRecord
      /\ Pointer(c, fn, t).code = t
      /\ Pointer(c, fn, t).func = cl'[c].func
      /\ Pointer(c, fn, t).ts = TypeOf[fn]
  BY <1>7, PointerType
<1>10. /\ call' \in CallRecord /\ call' # NULL
       /\ call'.fn = fn /\ call'.closure = c
       /\ call'.pointer = Pointer(c, fn, t)
  BY <1>3, <1>9, RecordsAssumption DEF CallRecord
<1>11. TypesOK'
  BY <1>2, <1>5, <1>6, <1>7, <1>10 DEF TypesOK
<1>12. c \notin held /\ \A d \in held : ~Automatic(d)
  BY <1>2 DEF CInv, HeldOK, Live
<1>13. HeldOK'
  BY <1>2, <1>4, <1>5, <1>7, <1>10, <1>12, ClosureAssumption DEF CInv, HeldOK
<1>14. fn \notin Keeps
  BY <1>2, ClosureAssumption DEF MayBeAutomatic
<1>15. CallOK'
  BY <1>2, <1>4, <1>7, <1>9, <1>10, <1>14 DEF CallOK, Backs
<1>16. LibOK'
  BY <1>2, <1>8 DEF CInv, LibOK
<1> QED BY <1>8, <1>11, <1>13, <1>15, <1>16 DEF CInv

LEMMA PassClosureKeeps ==
  ASSUME CInv, NEW c \in Closure, NEW fn \in LibFunc, PassClosure(c, fn)
  PROVE  CInv'
<1>1. /\ c \in held /\ call = NULL
      /\ UNCHANGED <<unused, held, lib, careful, debug>>
  BY DEF PassClosure
<1>2. PICK t \in Code :
        /\ Use(c, fn, t)
        /\ call' = [fn |-> fn, closure |-> c, pointer |-> Pointer(c, fn, t)]
  BY DEF PassClosure
<1>3. /\ cl' \in [Closure -> ClosureRecord \cup {NULL}]
      /\ code' \in [Code -> [alloc : BOOLEAN, cl : Closure \cup {NULL},
                             cif : Cif \cup {NULL}]]
      /\ cifs' \subseteq Cif
      /\ CodeOK' /\ UnusedOK'
      /\ \A p \in lib : (careful => Kept(p)') /\ (debug => Stays(p)')
      /\ cl'[c].code = t /\ cl'[c].ts = TypeOf[fn]
      /\ \A d \in held \ {c} : cl'[d] = cl[d]
      /\ \A d \in held : Live(d)'
      /\ \A d \in held : Automatic(d)' <=> Automatic(d)
  BY <1>1, <1>2, UseFacts
<1>4. /\ Pointer(c, fn, t) \in PointerRecord
      /\ Pointer(c, fn, t).code = t
      /\ Pointer(c, fn, t).func = cl'[c].func
      /\ Pointer(c, fn, t).ts = TypeOf[fn]
  BY <1>1, <1>3, PointerType
<1>5. /\ call' \in CallRecord /\ call' # NULL
      /\ call'.fn = fn /\ call'.closure = c
      /\ call'.pointer = Pointer(c, fn, t)
  BY <1>2, <1>4, RecordsAssumption DEF CallRecord
<1>6. TypesOK'
  BY <1>1, <1>3, <1>5 DEF CInv, TypesOK
<1>7. \A d \in held : ~Automatic(d)
  BY <1>1 DEF CInv, HeldOK
<1>8. HeldOK'
  BY <1>1, <1>3, <1>7, ClosureAssumption DEF CInv, HeldOK
<1>9. CallOK'
  BY <1>1, <1>3, <1>4, <1>5, <1>7 DEF CallOK, Backs
<1>10. LibOK'
  BY <1>1, <1>3 DEF CInv, LibOK
<1> QED BY <1>3, <1>6, <1>8, <1>9, <1>10 DEF CInv

LEMMA SetFieldKeeps ==
  ASSUME CInv, NEW c \in Closure, NEW fn \in LibFunc, SetField(c, fn)
  PROVE  CInv'
<1>1. /\ c \in held /\ ~Automatic(c)
      /\ UNCHANGED <<unused, held, call, careful, debug>>
  BY Zenon DEF SetField, Automatic
<1>2. PICK t \in Code : Use(c, fn, t) /\ lib' = lib \cup {Pointer(c, fn, t)}
  BY DEF SetField
<1>3. /\ cl' \in [Closure -> ClosureRecord \cup {NULL}]
      /\ code' \in [Code -> [alloc : BOOLEAN, cl : Closure \cup {NULL},
                             cif : Cif \cup {NULL}]]
      /\ cifs' \subseteq Cif
      /\ CodeOK' /\ UnusedOK'
      /\ \A q \in lib : (careful => Kept(q)') /\ (debug => Stays(q)')
      /\ cl'[c].code = t /\ cl'[c].ts = TypeOf[fn]
      /\ Alloc(t)' /\ code'[t].cl = c
      /\ \A d \in held \ {c} : cl'[d] = cl[d]
      /\ \A d \in held : Live(d)'
      /\ \A d \in held : Automatic(d)' <=> Automatic(d)
  BY <1>1, <1>2, UseFacts
<1>4. PICK p \in PointerRecord :
        /\ p = Pointer(c, fn, t) /\ p.code = t
        /\ p.func = cl'[c].func /\ p.ts = TypeOf[fn]
  BY <1>1, <1>3, PointerType
<1>5. TypesOK'
  BY <1>1, <1>3 DEF CInv, TypesOK
<1>6. HeldOK'
  BY <1>1, <1>3, ClosureAssumption DEF CInv, HeldOK
<1>7. CallOK'
  <2>1. ASSUME NEW d \in held, NEW q \in PointerRecord, Backs(d, q)
        PROVE  cl'[d] = cl[d]
    <3>1. CASE d = c
      <4>1. cl[c].ts # NULL
        BY <2>1, <3>1, ClosureAssumption DEF Backs, PointerRecord, Types
      <4> QED BY <1>2, <3>1, <4>1 DEF Use
    <3> QED BY <1>3, <3>1
  <2>2. call # NULL => call.pointer \in PointerRecord
    BY DEF CInv, TypesOK, CallRecord
  <2>3. call # NULL =>
          /\ call.closure \in held /\ Backs(call.closure, call.pointer)
          /\ Automatic(call.closure) => call.fn \notin Keeps
    BY DEF CInv, CallOK
  <2>4. call # NULL => cl'[call.closure] = cl[call.closure]
    BY <2>1, <2>2, <2>3
  <2> QED BY <1>1, <1>3, <2>3, <2>4 DEF CallOK, Backs
<1>8. LibOK'
  <2>1. Kept(p)'
    BY <1>1, <1>3, <1>4 DEF Kept, Backs
  <2>2. Stays(p)'
    BY <1>3, <1>4 DEF Stays, Own
  <2> QED BY <1>1, <1>2, <1>3, <1>4, <2>1, <2>2 DEF CInv, LibOK
<1> QED BY <1>3, <1>5, <1>6, <1>7, <1>8 DEF CInv

LEMMA SameFacts ==
  ASSUME UNCHANGED <<cl, code>>
  PROVE  /\ \A d : (Live(d)' <=> Live(d)) /\ (Automatic(d)' <=> Automatic(d))
         /\ \A u : Alloc(u)' <=> Alloc(u)
<1>1. \A d : (Live(d)' <=> Live(d)) /\ (Automatic(d)' <=> Automatic(d))
  BY Zenon DEF Live, Automatic
<1>2. \A u : Alloc(u)' <=> Alloc(u)
  BY Zenon DEF Alloc
<1> QED BY <1>1, <1>2

LEMMA SameKeeps ==
  ASSUME CInv, UNCHANGED <<cl, code, cifs, unused>>
  PROVE  /\ CodeOK' /\ UnusedOK'
         /\ \A p \in lib : debug => Stays(p)'
<1>1. CodeOK' /\ UnusedOK'
  BY SameFacts DEF CInv, CodeOK, Linked, UnusedOK
<1>2. \A p \in lib : debug => Stays(p)'
  BY SameFacts DEF CInv, LibOK, Stays, Own
<1> QED BY <1>1, <1>2

LEMMA ReturnKeeps ==
  ASSUME CInv, Return
  PROVE  CInv'
<1>1. /\ call # NULL /\ call' = NULL
      /\ lib' = IF call.fn \in Keeps THEN lib \cup {call.pointer} ELSE lib
      /\ UNCHANGED <<cl, code, cifs, unused, careful, debug>>
  BY DEF Return
<1>2. held' = IF Automatic(call.closure) THEN held \ {call.closure} ELSE held
  BY Zenon DEF Return, Automatic
<1>3. /\ call.closure \in held /\ Backs(call.closure, call.pointer)
      /\ Automatic(call.closure) => call.fn \notin Keeps
      /\ call.pointer \in PointerRecord
  BY <1>1 DEF CInv, CallOK, TypesOK, CallRecord
<1>4. TypesOK'
  BY <1>1, <1>2 DEF CInv, TypesOK
<1>5. HeldOK'
  BY <1>1, <1>2, SameFacts DEF CInv, HeldOK
<1>6. CallOK'
  BY <1>1 DEF CallOK
<1>7. LibOK'
  <2>1. ASSUME careful, NEW p \in lib'
        PROVE  Kept(p)'
    <3>1. PICK d \in held : ~Automatic(d) /\ Backs(d, p)
      BY <1>1, <1>3, <2>1 DEF CInv, LibOK, Kept
    <3> QED BY <1>1, <1>2, <3>1, SameFacts DEF Kept, Backs
  <2>2. Stays(call.pointer)
    <3>1. Live(call.closure) /\ call.closure \in Closure
      BY <1>3 DEF CInv, HeldOK, TypesOK
    <3>2. cl[call.closure].code # NULL
      BY <1>3, ClosureAssumption DEF Backs, PointerRecord
    <3> QED BY <1>3, <3>1, <3>2 DEF CInv, CodeOK, Linked, Backs, Stays, Own
  <2>3. ASSUME debug, NEW p \in lib'
        PROVE  Stays(p)'
    BY <1>1, <2>2, <2>3, SameFacts DEF CInv, LibOK, Stays, Own
  <2> QED BY <1>1, <1>3, <2>1, <2>3 DEF CInv, LibOK
<1> QED BY <1>1, <1>4, <1>5, <1>6, <1>7, SameKeeps DEF CInv

LEMMA ForgetKeeps ==
  ASSUME CInv, NEW p, Forget(p)
  PROVE  CInv'
<1>1. /\ lib' \subseteq lib
      /\ UNCHANGED <<cl, code, cifs, unused, held, call, careful, debug>>
  BY DEF Forget
<1>2. TypesOK' /\ HeldOK' /\ CallOK'
  BY <1>1, SameFacts DEF CInv, TypesOK, HeldOK, CallOK, Backs
<1>3. LibOK'
  BY <1>1, SameFacts DEF CInv, LibOK, Kept, Backs, Stays, Own
<1> QED BY <1>1, <1>2, <1>3, SameKeeps DEF CInv

(* A careful program keeps what backs the pointers of the library. *)
LEMMA DropKeeps ==
  ASSUME CInv, NEW c \in Closure, Drop(c)
  PROVE  CInv'
<1>1. /\ held' = held \ {c} /\ (call # NULL => call.closure # c)
      /\ careful => \A p \in lib : p.code # cl[c].code
      /\ UNCHANGED <<cl, code, cifs, unused, call, lib, careful, debug>>
  BY DEF Drop
<1>2. TypesOK' /\ HeldOK' /\ CallOK'
  BY <1>1, SameFacts DEF CInv, TypesOK, HeldOK, CallOK, Backs
<1>3. ASSUME careful, NEW p \in lib
      PROVE  Kept(p)'
  BY <1>1, <1>3, SameFacts DEF CInv, LibOK, Kept, Backs
<1>4. LibOK'
  BY <1>1, <1>3, SameKeeps DEF CInv, LibOK
<1> QED BY <1>1, <1>2, <1>4, SameKeeps DEF CInv

LEMMA ReclaimKeeps ==
  ASSUME CInv, NEW c \in Closure, Reclaim(c)
  PROVE  CInv'
<1>1. /\ cl[c] = Zeroed /\ cl' = [cl EXCEPT ![c] = NULL]
      /\ UNCHANGED <<code, cifs, unused, held, call, lib, careful, debug>>
  BY DEF Reclaim
<1>2. ~Live(c) /\ ~Live(c)'
  <2>1. ~cl[c].magic1
    BY <1>1 DEF Zeroed
  <2>2. cl'[c] = NULL
    BY <1>1 DEF CInv, TypesOK
  <2> QED BY <2>1, <2>2, Zenon DEF Live
<1>3. /\ cl' \in [Closure -> ClosureRecord \cup {NULL}]
      /\ \A d \in Closure \ {c} : cl'[d] = cl[d]
  BY <1>1 DEF CInv, TypesOK
<1>4. \A d \in Closure \ {c} : (Live(d)' <=> Live(d))
                              /\ (Automatic(d)' <=> Automatic(d))
  BY <1>3, Zenon DEF Live, Automatic
<1>5. \A t : Alloc(t)' <=> Alloc(t)
  BY <1>1, Zenon DEF Alloc
<1>6. c \notin held /\ held \subseteq Closure
  BY <1>2 DEF CInv, HeldOK, TypesOK
<1>7. TypesOK'
  BY <1>1, <1>3 DEF CInv, TypesOK
<1>8. CodeOK'
  BY <1>1, <1>2, <1>3, <1>4, <1>5 DEF CInv, CodeOK, Linked
<1>9. UnusedOK'
  BY <1>1, <1>2, <1>3, <1>4, <1>5 DEF CInv, UnusedOK
<1>10. HeldOK' /\ CallOK'
  BY <1>1, <1>3, <1>4, <1>6 DEF CInv, HeldOK, CallOK, Backs
<1>11. ASSUME careful, NEW p \in lib
       PROVE  Kept(p)'
  BY <1>1, <1>3, <1>4, <1>6, <1>11 DEF CInv, LibOK, Kept, Backs
<1>12. ASSUME debug, NEW p \in lib
       PROVE  Stays(p)'
  <2>1. Stays(p) /\ code[p.code].cl \in Closure
    BY <1>12 DEF CInv, LibOK, Stays, PointerRecord, CodeOK
  <2> QED BY <1>1, <1>2, <1>3, <1>4, <1>5, <2>1 DEF Stays, Own
<1>13. LibOK'
  BY <1>1, <1>11, <1>12 DEF CInv, LibOK
<1> QED BY <1>7, <1>8, <1>9, <1>10, <1>13 DEF CInv

(* Code that is freed keeps what it leads to. *)
LEMMA FreedFacts ==
  ASSUME TypesOK, NEW ts, code' = FreedCode(ts)
  PROVE  /\ code' \in [Code -> [alloc : BOOLEAN, cl : Closure \cup {NULL},
                                cif : Cif \cup {NULL}]]
         /\ \A t \in Code : code'[t].cl = code[t].cl /\ code'[t].cif = code[t].cif
         /\ \A t \in Code : Alloc(t)' <=> Alloc(t) /\ t \notin ts
<1>1. \A t \in Code :
        /\ code'[t] \in [alloc : BOOLEAN, cl : Closure \cup {NULL},
                         cif : Cif \cup {NULL}]
        /\ code'[t].cl = code[t].cl /\ code'[t].cif = code[t].cif
        /\ code'[t].alloc = (code[t].alloc /\ t \notin ts)
  BY DEF TypesOK, FreedCode
<1>2. \A t \in Code : Alloc(t)' <=> Alloc(t) /\ t \notin ts
  BY <1>1, Zenon DEF Alloc
<1>3. code' = [t \in Code |-> code'[t]]
  BY DEF FreedCode
<1> QED BY <1>1, <1>2, <1>3

(* A collected closure is dead; its code is freed with its cif, or both    *)
(* stay with the keeper.                                                   *)
LEMMA GcKeeps ==
  ASSUME CInv, NEW c \in Closure, Gc(c)
  PROVE  CInv'
<1>1. /\ Live(c) /\ c \notin held /\ Becomes(c, Zeroed)
      /\ UNCHANGED <<held, call, lib, careful, debug>>
  BY DEF Gc, Becomes
<1>2. TypesOK /\ held \subseteq Closure
  BY DEF CInv, TypesOK
<1>3. /\ cl' \in [Closure -> ClosureRecord \cup {NULL}]
      /\ \A d \in Closure \ {c} : cl'[d] = cl[d]
      /\ ~Live(c)'
      /\ \A d \in Closure \ {c} : Live(d)' <=> Live(d)
      /\ \A d \in Closure \ {c} : Automatic(d)' <=> Automatic(d)
  BY <1>1, <1>2, BecomesFacts, ZeroedType
<1>4. Linked(c)
  BY <1>1 DEF CInv, CodeOK
<1>5. HeldOK' /\ CallOK'
  BY <1>1, <1>2, <1>3 DEF CInv, HeldOK, CallOK, Backs
<1>6. ASSUME careful, NEW p \in lib
      PROVE  Kept(p)'
  BY <1>1, <1>2, <1>3, <1>6 DEF CInv, LibOK, Kept, Backs
<1>7. CASE debug /\ cl[c].code # NULL
  <2>1. /\ unused' = unused \cup {<<cl[c].code, cl[c].cif>>}
        /\ UNCHANGED <<code, cifs>>
    BY <1>7 DEF Gc
  <2>2. \A t : Alloc(t)' <=> Alloc(t)
    BY <2>1, Zenon DEF Alloc
  <2>3. TypesOK'
    BY <1>1, <1>2, <1>3, <2>1 DEF TypesOK
  <2>4. CodeOK'
    BY <1>3, <2>1, <2>2 DEF CInv, CodeOK, Linked
  <2>5. UnusedOK'
    <3>1. ASSUME NEW u \in unused
          PROVE  /\ u[1] \in Code /\ Alloc(u[1])' /\ code'[u[1]].cif = u[2]
                 /\ \A d \in Closure : Live(d)' => cl'[d].code # u[1]
      BY <1>3, <2>1, <2>2 DEF CInv, UnusedOK
    <3>2. PICK t \in Code : t = cl[c].code
      BY <1>4, <1>7 DEF Linked
    <3>3. /\ Alloc(t) /\ code[t].cif = cl[c].cif /\ code[t].cl = c
      BY <1>4, <1>7, <3>2 DEF Linked
    <3>4. Alloc(t)' /\ code'[t].cif = cl[c].cif
      BY <2>1, <2>2, <3>3
    <3>5. ASSUME NEW d \in Closure, Live(d)'
          PROVE  cl'[d].code # t
      BY <1>3, <3>3, <3>5, ClosureAssumption DEF CInv, CodeOK, Linked
    <3>6. unused' = unused \cup {<<t, cl[c].cif>>}
      BY <2>1, <3>2
    <3>7. ASSUME NEW u \in unused', u \notin unused
          PROVE  u[1] = t /\ u[2] = cl[c].cif
      BY <3>6, <3>7
    <3> QED BY <3>1, <3>2, <3>4, <3>5, <3>7 DEF UnusedOK
  <2>6. ASSUME NEW p \in lib
        PROVE  Stays(p)'
    <3>1. Stays(p) /\ code[p.code].cl \in Closure
      BY <1>7 DEF CInv, LibOK, Stays, PointerRecord, CodeOK
    <3> QED BY <1>3, <2>1, <2>2, <3>1 DEF Stays, Own
  <2>7. LibOK'
    BY <1>1, <1>6, <2>6 DEF CInv, LibOK
  <2> QED BY <1>5, <2>3, <2>4, <2>5, <2>7 DEF CInv
<1>8. CASE ~(debug /\ cl[c].code # NULL)
  <2>1. /\ code' = FreedCode({cl[c].code})
        /\ cifs' = cifs \ {cl[c].cif}
        /\ UNCHANGED unused
    BY <1>8 DEF Gc
  <2>2. /\ code' \in [Code -> [alloc : BOOLEAN, cl : Closure \cup {NULL},
                               cif : Cif \cup {NULL}]]
        /\ \A t \in Code : code'[t].cl = code[t].cl /\ code'[t].cif = code[t].cif
        /\ \A t \in Code : Alloc(t)' <=> Alloc(t) /\ t \notin {cl[c].code}
    BY <1>2, <2>1, FreedFacts
  <2>3. TypesOK'
    BY <1>1, <1>2, <1>3, <2>1, <2>2 DEF TypesOK
  <2>4. CodeOK'
    <3>1. ASSUME NEW d \in Closure, Live(d)'
          PROVE  Linked(d)'
      <4>1. d # c /\ Live(d) /\ Linked(d) /\ cl'[d] = cl[d]
        BY <1>3, <3>1 DEF CInv, CodeOK
      <4>2. cl[d].code # NULL => cl[d].code # cl[c].code
        BY <1>4, <4>1 DEF Linked
      <4> QED BY <2>2, <4>1, <4>2 DEF Linked
    <3>2. ASSUME NEW t \in Code, Alloc(t)'
          PROVE  code'[t].cl \in Closure /\ code'[t].cif \in cifs'
      <4>1. Alloc(t) /\ t # cl[c].code
        BY <2>2, <3>2
      <4>2. code[t].cif # cl[c].cif
        <5>1. CASE cl[c].code = NULL
          <6>1. cl[c].cif = NULL /\ code[t].cif \in Cif
            BY <1>4, <4>1, <5>1 DEF Linked, CInv, CodeOK, TypesOK
          <6> QED BY <6>1, ClosureAssumption
        <5>2. CASE cl[c].code # NULL
          BY <1>4, <4>1, <5>2 DEF Linked, CInv, CodeOK
        <5> QED BY <5>1, <5>2
      <4> QED BY <2>1, <2>2, <4>1, <4>2 DEF CInv, CodeOK
    <3>3. \A t, u \in Code :
            Alloc(t)' /\ Alloc(u)' /\ t # u => code'[t].cif # code'[u].cif
      BY <2>2 DEF CInv, CodeOK
    <3> QED BY <3>1, <3>2, <3>3 DEF CodeOK
  <2>5. UnusedOK'
    <3>1. ASSUME NEW u \in unused
          PROVE  /\ u[1] \in Code /\ Alloc(u[1])' /\ code'[u[1]].cif = u[2]
                 /\ \A d \in Closure : Live(d)' => cl'[d].code # u[1]
      BY <1>1, <1>3, <2>2 DEF CInv, UnusedOK
    <3> QED BY <2>1, <3>1 DEF UnusedOK
  <2>6. ASSUME debug, NEW p \in lib
        PROVE  Stays(p)'
    <3>1. cl[c].code = NULL
      BY <1>8, <2>6
    <3>2. Stays(p) /\ p.code \in Code /\ code[p.code].cl \in Closure
      BY <2>6 DEF CInv, LibOK, Stays, PointerRecord, CodeOK
    <3> QED BY <1>3, <2>2, <3>1, <3>2, ClosureAssumption DEF Stays, Own
  <2>7. LibOK'
    BY <1>1, <1>6, <2>6 DEF CInv, LibOK
  <2> QED BY <1>5, <2>3, <2>4, <2>5, <2>7 DEF CInv
<1> QED BY <1>7, <1>8

(* What the keeper had is freed; no closure has it. *)
LEMMA UnsetDebugKeeps ==
  ASSUME CInv, UnsetDebug
  PROVE  CInv'
<1> DEFINE ts == {u[1] : u \in unused}
<1>1. /\ code' = FreedCode(ts) /\ cifs' = cifs \ {u[2] : u \in unused}
      /\ unused' = {} /\ debug' = FALSE
      /\ UNCHANGED <<cl, held, call, lib, careful>>
  BY DEF UnsetDebug
<1>2. TypesOK
  BY DEF CInv
<1>3. /\ code' \in [Code -> [alloc : BOOLEAN, cl : Closure \cup {NULL},
                             cif : Cif \cup {NULL}]]
      /\ \A t \in Code : code'[t].cl = code[t].cl /\ code'[t].cif = code[t].cif
      /\ \A t \in Code : Alloc(t)' <=> Alloc(t) /\ t \notin ts
  BY <1>1, <1>2, FreedFacts
<1>4. \A d : (Live(d)' <=> Live(d)) /\ (Automatic(d)' <=> Automatic(d))
  BY <1>1, Zenon DEF Live, Automatic
<1>5. TypesOK'
  BY <1>1, <1>2, <1>3 DEF TypesOK
<1>6. CodeOK'
  <2>1. ASSUME NEW d \in Closure, Live(d)'
        PROVE  Linked(d)'
    <3>1. Live(d) /\ Linked(d) /\ cl[d].code \notin ts
      BY <1>4, <2>1 DEF CInv, CodeOK, UnusedOK
    <3> QED BY <1>1, <1>3, <3>1 DEF Linked
  <2>2. ASSUME NEW t \in Code, Alloc(t)'
        PROVE  code'[t].cl \in Closure /\ code'[t].cif \in cifs'
    <3>1. Alloc(t) /\ t \notin ts
      BY <1>3, <2>2
    <3>2. ASSUME NEW u \in unused
          PROVE  code[t].cif # u[2]
      BY <3>1 DEF CInv, CodeOK, UnusedOK
    <3> QED BY <1>1, <1>3, <3>1, <3>2 DEF CInv, CodeOK
  <2>3. \A t, u \in Code :
          Alloc(t)' /\ Alloc(u)' /\ t # u => code'[t].cif # code'[u].cif
    BY <1>3 DEF CInv, CodeOK
  <2> QED BY <2>1, <2>2, <2>3 DEF CodeOK
<1>7. UnusedOK'
  BY <1>1 DEF UnusedOK
<1>8. HeldOK' /\ CallOK'
  BY <1>1, <1>4 DEF CInv, HeldOK, CallOK, Backs
<1>9. LibOK'
  BY <1>1, <1>4 DEF CInv, LibOK, Kept, Backs
<1> QED BY <1>5, <1>6, <1>7, <1>8, <1>9 DEF CInv

-----------------------------------------------------------------------------
LEMMA CInvInit == Init => CInv
<1> SUFFICES ASSUME Init
             PROVE  CInv
  OBVIOUS
<1>1. \A c \in Closure : ~Live(c)
  BY DEF Init, ClosureInit, Live
<1>2. \A t \in Code : ~Alloc(t)
  BY DEF Init, ClosureInit, Alloc
<1>3. TypesOK
  BY DEF Init, ClosureInit, TypesOK
<1>4. CodeOK
  BY <1>1, <1>2 DEF CodeOK
<1>5. UnusedOK /\ HeldOK /\ CallOK /\ LibOK
  BY DEF Init, ClosureInit, UnusedOK, HeldOK, CallOK, LibOK
<1> QED BY <1>3, <1>4, <1>5 DEF CInv

LEMMA ClosureNextKeeps ==
  ASSUME CInv, ClosureNext
  PROVE  CInv'
BY NewClosureKeeps, PassFunctionKeeps, PassFunctionFailsKeeps,
   PassClosureKeeps, SetFieldKeeps, ReturnKeeps, ForgetKeeps, DropKeeps,
   GcKeeps, ReclaimKeeps, UnsetDebugKeeps DEF ClosureNext

(* Boxed values and signal handlers do not touch closures. *)
LEMMA OthersKeep ==
  ASSUME CInv, UNCHANGED closureVars
  PROVE  CInv'
<1>1. UNCHANGED <<cl, code, cifs, unused, held, call, lib, careful, debug>>
  BY DEF closureVars
<1>2. TypesOK' /\ HeldOK' /\ CallOK'
  BY <1>1, SameFacts DEF CInv, TypesOK, HeldOK, CallOK, Backs
<1>3. LibOK'
  BY <1>1, SameFacts DEF CInv, LibOK, Kept, Backs, Stays, Own
<1> QED BY <1>1, <1>2, <1>3, SameKeeps DEF CInv

LEMMA NextKeeps ==
  ASSUME CInv, [Next]_vars
  PROVE  CInv'
BY ClosureNextKeeps, OthersKeep
   DEF Next, BoxedStep, ClosureStep, CallbackStep, vars

(* A closure that is held, or that has the cif of the code, is the one     *)
(* that the handler will find.                                             *)
LEMMA BackedRuns ==
  ASSUME CInv, NEW c \in held, NEW p \in PointerRecord, Backs(c, p)
  PROVE  RunsRight(p) /\ Alloc(p.code)
<1>1. c \in Closure /\ Live(c) /\ cl[c].code \in Code /\ Alloc(cl[c].code)
  BY ClosureAssumption DEF CInv, TypesOK, HeldOK, CodeOK, Linked, Backs, PointerRecord
<1>2. cl[c].code = p.code /\ code[p.code].cl = c /\ code[p.code].cif = cl[c].cif
  BY <1>1, ClosureAssumption DEF CInv, CodeOK, Linked, Backs, PointerRecord
<1>3. ~Detected(p.code)
  BY <1>1, <1>2, Zenon DEF Detected
<1>4. code[p.code].alloc
  BY <1>1, <1>2, Zenon DEF Alloc
<1> QED BY <1>1, <1>2, <1>3, <1>4, Zenon DEF RunsRight, Backs

LEMMA CallRuns ==
  ASSUME CInv, call # NULL
  PROVE  RunsRight(call.pointer) /\ Alloc(call.pointer.code)
<1>1. /\ call.closure \in held /\ Backs(call.closure, call.pointer)
      /\ call.pointer \in PointerRecord
  BY DEF CInv, CallOK, TypesOK, CallRecord
<1> QED BY <1>1, BackedRuns

(* The library calls the function it was given, or nothing that it was not *)
(* given, as long as the program keeps its closures (lg_use_closure,       *)
(* _check_automatic, l_closure_gc, closure.c).                             *)
THEOREM Pointers_Good == Spec => []PointersGood
<1>1. Init => CInv
  BY CInvInit
<1>2. CInv /\ [Next]_vars => CInv'
  BY NextKeeps
<1>3. CInv => PointersGood
  <2> SUFFICES ASSUME CInv, careful, NEW p \in Pointers
               PROVE  RunsRight(p)
    BY DEF PointersGood
  <2>1. CASE p \in lib
    <3>1. PICK c \in held : ~Automatic(c) /\ Backs(c, p)
      BY <2>1 DEF CInv, LibOK, Kept
    <3>2. p \in PointerRecord
      BY <2>1 DEF CInv, LibOK
    <3> QED BY <3>1, <3>2, BackedRuns
  <2>2. CASE p \notin lib
    BY <2>2, CallRuns DEF Pointers
  <2> QED BY <2>1, <2>2
<1> QED BY <1>1, <1>2, <1>3, PTL DEF Spec

(* With the debug flag, a closure that was collected too early is noticed  *)
(* when it is called, or has become the right one again                    *)
(* (closure_handler and l_closure_gc, closure.c).                          *)
THEOREM Calls_Detected == Spec => []CallsDetected
<1>1. Init => CInv
  BY CInvInit
<1>2. CInv /\ [Next]_vars => CInv'
  BY NextKeeps
<1>3. CInv => CallsDetected
  <2> SUFFICES ASSUME CInv, debug, NEW p \in Pointers
               PROVE  Alloc(p.code) /\ (Detected(p.code) \/ RunsRight(p))
    BY Zenon DEF CallsDetected, Alloc
  <2>1. CASE p \in lib
    <3>1. Stays(p)
      BY <2>1 DEF CInv, LibOK
    <3>2. code[p.code].alloc
      BY <3>1, Zenon DEF Stays, Alloc
    <3>3. ~Detected(p.code) =>
            LET c == code[p.code].cl IN cl[c].func = p.func /\ cl[c].ts = p.ts
      BY <3>1 DEF Detected, Stays, Own
    <3> QED BY <3>1, <3>2, <3>3, Zenon DEF RunsRight, Stays
  <2>2. CASE p \notin lib
    BY <2>2, CallRuns DEF Pointers
  <2> QED BY <2>1, <2>2
<1> QED BY <1>1, <1>2, <1>3, PTL DEF Spec

-----------------------------------------------------------------------------
(***************************************************************************)
(* The registry and who owns its cells.  T is a set of cells that are      *)
(* owned, each as <<owner, role, number, value>>; L are cells that were    *)
(* lost with a closure.  Free cells are in a list: each but the last leads *)
(* to another free one, and no two lead to the same.                       *)
(***************************************************************************)
FreeCell(r, i) == i \in 1..MaxRef /\ r[i] \in 0..MaxRef

ListOK(r) ==
  /\ r \in [0..MaxRef -> Things \cup {NULL} \cup 0..MaxRef]
  /\ \E n \in 0..MaxRef : \A i \in 1..MaxRef : r[i] # NULL <=> i <= n
  /\ r[0] \in 0..MaxRef
  /\ \A i \in 0..MaxRef : r[i] \in 0..MaxRef /\ r[i] # 0 => FreeCell(r, r[i])
  /\ \A i, j \in 0..MaxRef :
       r[i] = r[j] /\ r[i] \in 0..MaxRef /\ r[i] # 0 => i = j

CellsOK(r, T) ==
  /\ \A x \in T : x[3] \in 1..MaxRef /\ x[4] \in Things /\ r[x[3]] = x[4]
  /\ \A x, y \in T : x # y => x[3] # y[3]

LostOK(r, T, L) ==
  \A i \in 1..MaxRef : r[i] \in Things => i \in L \/ \E x \in T : x[3] = i

Good(r, T, L) == ListOK(r) /\ CellsOK(r, T) /\ LostOK(r, T, L)

LEMMA ThingFacts ==
  /\ \A v \in Things : v # NULL /\ v # NIL /\ v \notin 0..MaxRef
  /\ NULL # NIL /\ NULL \notin 0..MaxRef /\ MaxRef \in Nat \ {0}
BY ThingsAssumption, RegistryAssumption

(* luaL_ref takes a cell that nobody owns. *)
LEMMA FreeRefFacts ==
  ASSUME NEW r, ListOK(r), NEW v \in Things, HasRoom(r, v)
  PROVE  LET k == RefOf(r, v) IN
         /\ k \in 1..MaxRef /\ r[k] \in {NULL} \cup 0..MaxRef /\ k = FreeRef(r)
         /\ IF r[0] # 0 THEN k = r[0] /\ FreeCell(r, k)
            ELSE r[k] = NULL /\ \A i \in 1..MaxRef : r[i] # NULL <=> i <= k - 1
<1>1. RefOf(r, v) = FreeRef(r) /\ FreeRef(r) <= MaxRef
  BY ThingFacts DEF RefOf, HasRoom
<1>2. ToInteger(r[0]) = r[0] /\ r[0] \in 0..MaxRef
  BY DEF ListOK, ToInteger
<1>3. CASE r[0] # 0
  <2>1. FreeRef(r) = r[0] /\ FreeCell(r, r[0])
    BY <1>2, <1>3, ThingFacts DEF FreeRef, ListOK
  <2> QED BY <1>1, <1>3, <2>1 DEF FreeCell
<1>4. CASE r[0] = 0
  <2>1. PICK n \in 0..MaxRef : \A i \in 1..MaxRef : r[i] # NULL <=> i <= n
    BY DEF ListOK
  <2> DEFINE used == {i \in 1..MaxRef : r[i] # NULL}
  <2>2. used = 1..n
    BY <2>1, ThingFacts
  <2>3. Cardinality(1..n) = n
    BY <2>1, FS_Interval
  <2>4. FreeRef(r) = n + 1
    BY <1>2, <1>4, <2>2, <2>3 DEF FreeRef
  <2>5. FreeRef(r) \in 1..MaxRef /\ r[FreeRef(r)] = NULL
    BY <1>1, <2>1, <2>4, ThingFacts
  <2> QED BY <1>1, <1>4, <2>1, <2>4, <2>5
<1> QED BY <1>3, <1>4

LEMMA TakeGood ==
  ASSUME NEW r, NEW T, NEW L, Good(r, T, L), NEW v \in Things, HasRoom(r, v),
         NEW w, w[3] = RefOf(r, v), w[4] = v
  PROVE  /\ Good(Referenced(r, v), T \cup {w}, L) /\ w \notin T
         /\ RefOf(r, v) \in 1..MaxRef
<1>1. PICK k : k = RefOf(r, v)
  OBVIOUS
<1>2. PICK s : s = Referenced(r, v)
  OBVIOUS
<1>3. ListOK(r) /\ CellsOK(r, T) /\ LostOK(r, T, L)
  BY DEF Good
<1>4. /\ k \in 1..MaxRef /\ r[k] \in {NULL} \cup 0..MaxRef /\ k = FreeRef(r)
      /\ IF r[0] # 0 THEN k = r[0] /\ FreeCell(r, k)
         ELSE r[k] = NULL /\ \A i \in 1..MaxRef : r[i] # NULL <=> i <= k - 1
  BY <1>1, <1>3, FreeRefFacts
<1>5. /\ r \in [0..MaxRef -> Things \cup {NULL} \cup 0..MaxRef]
      /\ r[0] \in 0..MaxRef /\ ToInteger(r[0]) = r[0]
  BY <1>3 DEF ListOK, ToInteger
<1>6. /\ s \in [0..MaxRef -> Things \cup {NULL} \cup 0..MaxRef]
      /\ s[0] = IF r[0] # 0 THEN r[k] ELSE 0
      /\ s[k] = v
      /\ \A i \in 1..MaxRef : i # k => s[i] = r[i]
  <2>1. s = [r EXCEPT ![0] = IF r[0] # 0 THEN r[r[0]] ELSE @, ![k] = v]
    BY <1>2, <1>4, <1>5, ThingFacts DEF Referenced
  <2>2. r[0] # 0 => r[r[0]] = r[k]
    BY <1>4
  <2> QED BY <1>4, <1>5, <2>1, <2>2, ThingFacts
<1>7. s[0] \in 0..MaxRef
  BY <1>4, <1>5, <1>6 DEF FreeCell
<1>8. \E n \in 0..MaxRef : \A i \in 1..MaxRef : s[i] # NULL <=> i <= n
  <2>1. CASE r[0] # 0
    <3>1. PICK n \in 0..MaxRef : \A i \in 1..MaxRef : r[i] # NULL <=> i <= n
      BY <1>3 DEF ListOK
    <3>2. r[k] # NULL
      BY <1>4, <2>1, ThingFacts DEF FreeCell
    <3>3. \A i \in 1..MaxRef : s[i] # NULL <=> r[i] # NULL
      BY <1>4, <1>6, <3>2, ThingFacts
    <3> QED BY <3>1, <3>3
  <2>2. CASE r[0] = 0
    <3>1. \A i \in 1..MaxRef : s[i] # NULL <=> i <= k
      BY <1>4, <1>6, <2>2, ThingFacts
    <3> QED BY <1>4, <3>1
  <2> QED BY <2>1, <2>2
<1>9. ASSUME NEW i \in 0..MaxRef, s[i] \in 0..MaxRef, s[i] # 0
      PROVE  /\ \E j \in 0..MaxRef : s[i] = r[j] /\ (j = i \/ (i = 0 /\ j = k))
             /\ i # k /\ s[i] # k /\ FreeCell(r, s[i])
  <2>1. i # k
    BY <1>6, <1>9, ThingFacts
  <2>2. CASE i = 0
    <3>1. r[0] # 0 /\ s[i] = r[k]
      BY <1>6, <1>9, <2>2
    <3>2. FreeCell(r, r[k]) /\ r[k] # k
      BY <1>3, <1>4, <1>5, <1>9, <3>1, ThingFacts DEF ListOK
    <3> QED BY <1>4, <2>1, <2>2, <3>1, <3>2
  <2>3. CASE i # 0
    <3>1. s[i] = r[i]
      BY <1>6, <2>1, <2>3
    <3>2. FreeCell(r, r[i])
      BY <1>3, <1>9, <3>1 DEF ListOK
    <3>3. r[i] # k
      BY <1>3, <1>4, <1>5, <1>9, <2>3, <3>1, <3>2, ThingFacts DEF ListOK, FreeCell
    <3> QED BY <2>1, <3>1, <3>2, <3>3
  <2> QED BY <2>2, <2>3
<1>10. ListOK(s)
  <2>1. \A i \in 0..MaxRef : s[i] \in 0..MaxRef /\ s[i] # 0 => FreeCell(s, s[i])
    BY <1>6, <1>9 DEF FreeCell
  <2>2. \A i, j \in 0..MaxRef :
          s[i] = s[j] /\ s[i] \in 0..MaxRef /\ s[i] # 0 => i = j
    BY <1>3, <1>4, <1>6, <1>9 DEF ListOK
  <2> QED BY <1>6, <1>7, <1>8, <2>1, <2>2 DEF ListOK
<1>11. \A x \in T : x[3] # k
  BY <1>3, <1>4, ThingFacts DEF CellsOK
<1>12. CellsOK(s, T \cup {w})
  BY <1>1, <1>3, <1>4, <1>6, <1>11 DEF CellsOK
<1>13. LostOK(s, T \cup {w}, L)
  BY <1>1, <1>3, <1>6 DEF LostOK
<1> QED BY <1>1, <1>2, <1>4, <1>10, <1>11, <1>12, <1>13 DEF Good

(* luaL_unref gives an owned cell back. *)
LEMMA GiveGood ==
  ASSUME NEW r, NEW T, NEW L, Good(r, T, L), NEW x \in T
  PROVE  Good(Unreferenced(r, x[3]), T \ {x}, L)
<1>1. PICK k : k = x[3]
  OBVIOUS
<1>2. PICK s : s = Unreferenced(r, k)
  OBVIOUS
<1>3. ListOK(r) /\ CellsOK(r, T) /\ LostOK(r, T, L)
  BY DEF Good
<1>4. /\ k \in 1..MaxRef /\ r[k] \in Things /\ r[0] \in 0..MaxRef
      /\ r \in [0..MaxRef -> Things \cup {NULL} \cup 0..MaxRef]
  BY <1>1, <1>3 DEF CellsOK, ListOK
<1>5. /\ s \in [0..MaxRef -> Things \cup {NULL} \cup 0..MaxRef]
      /\ s[0] = k /\ s[k] = r[0]
      /\ \A i \in 1..MaxRef : i # k => s[i] = r[i]
  BY <1>2, <1>4, ThingFacts DEF Unreferenced, LUA_REFNIL
<1>6. \A i \in 0..MaxRef : r[i] # k
  BY <1>3, <1>4, ThingFacts DEF ListOK, FreeCell
<1>7. \E n \in 0..MaxRef : \A i \in 1..MaxRef : s[i] # NULL <=> i <= n
  <2>1. PICK n \in 0..MaxRef : \A i \in 1..MaxRef : r[i] # NULL <=> i <= n
    BY <1>3 DEF ListOK
  <2>2. \A i \in 1..MaxRef : s[i] # NULL <=> r[i] # NULL
    BY <1>4, <1>5, ThingFacts
  <2> QED BY <2>1, <2>2
<1>8. \A i \in 0..MaxRef : s[i] \in 0..MaxRef /\ s[i] # 0 => FreeCell(s, s[i])
  BY <1>3, <1>4, <1>5, <1>6, ThingFacts DEF ListOK, FreeCell
<1>9. \A i, j \in 0..MaxRef :
        s[i] = s[j] /\ s[i] \in 0..MaxRef /\ s[i] # 0 => i = j
  BY <1>3, <1>4, <1>5, <1>6, ThingFacts DEF ListOK
<1>10. ListOK(s)
  BY <1>4, <1>5, <1>7, <1>8, <1>9 DEF ListOK
<1>11. CellsOK(s, T \ {x})
  BY <1>1, <1>3, <1>5 DEF CellsOK
<1>12. LostOK(s, T \ {x}, L)
  BY <1>1, <1>3, <1>4, <1>5, ThingFacts DEF LostOK
<1> QED BY <1>1, <1>2, <1>10, <1>11, <1>12 DEF Good

(* l_closure_gc forgets one. *)
LEMMA LoseGood ==
  ASSUME NEW r, NEW T, NEW L, Good(r, T, L), NEW x \in T
  PROVE  Good(r, T \ {x}, L \cup {x[3]})
BY DEF Good, CellsOK, LostOK

-----------------------------------------------------------------------------
(***************************************************************************)
(* Whose cells they are.                                                   *)
(***************************************************************************)
BoxCell(b) ==
  IF boxes[b] # NULL /\ boxes[b].value # NIL
  THEN {<<b, "box", boxes[b].ref, boxes[b].value>>} ELSE {}

ClosureCell(c) ==
  IF Live(c) THEN {<<c, "closure", cl[c].func_ref, cl[c].func>>} ELSE {}

HandlerCells(h) ==
  IF cbi[h] = NULL THEN {}
  ELSE {<<h, "handler", cbi[h].handler_ref, cbi[h].f>>,
        <<h, "object", cbi[h].object_ref, cbi[h].o>>}
       \cup IF cbi[h].a = NULL THEN {} ELSE {<<h, "args", cbi[h].args_ref, cbi[h].a>>}

Cells == (UNION {BoxCell(b) : b \in Box}) \cup (UNION {ClosureCell(c) : c \in Closure})
         \cup (UNION {HandlerCells(h) : h \in Handler})

BoxesOK ==
  /\ boxes \in [Box -> BoxRecord \cup {NULL}]
  /\ \A b \in Boxes : /\ boxes[b].freed = FALSE
                      /\ boxes[b].value = NIL => boxes[b].ref = LUA_REFNIL

HandlersOK ==
  /\ cbi \in [Handler -> InfoRecord \cup {NULL}]
  /\ proxy \in [Object -> {"held", "dropped", "none"}]
  /\ \A h \in connected \cup running : h \in Handler /\ cbi[h] # NULL
  /\ \A h \in Handler : cbi[h] # NULL =>
       /\ proxy[cbi[h].o] # "none"
       /\ cbi[h].a = NULL => cbi[h].args_ref = 0

CellsGood == Good(registry, Cells, leaked)

RInv == CInv /\ CellsGood /\ BoxesOK /\ HandlersOK /\ TooltipReleased

LEMMA InCells ==
  \A y : y \in Cells <=>
    \/ \E b \in Box : y \in BoxCell(b)
    \/ \E c \in Closure : y \in ClosureCell(c)
    \/ \E h \in Handler : y \in HandlerCells(h)
BY DEF Cells

LEMMA OwnersDiffer ==
  /\ \A b : \A y \in BoxCell(b) : y[1] = b /\ y[2] = "box"
  /\ \A c : \A y \in ClosureCell(c) : y[1] = c /\ y[2] = "closure"
  /\ \A h : \A y \in HandlerCells(h) : y[1] = h /\ y[2] \notin {"box", "closure"}
<1>1. \A b : \A y \in BoxCell(b) : y[1] = b /\ y[2] = "box"
  BY DEF BoxCell
<1>2. \A c : \A y \in ClosureCell(c) : y[1] = c /\ y[2] = "closure"
  BY DEF ClosureCell
<1>3. \A h : \A y \in HandlerCells(h) : y[1] = h /\ y[2] \notin {"box", "closure"}
  BY DEF HandlerCells
<1> QED BY <1>1, <1>2, <1>3

(* What does not change of its owners does not change of the cells. *)
LEMMA BoxCellSame ==
  ASSUME NEW b, boxes'[b] = boxes[b]
  PROVE  BoxCell(b)' = BoxCell(b)
BY DEF BoxCell

LEMMA ClosureCellSame ==
  ASSUME NEW c, cl'[c] = cl[c]
  PROVE  ClosureCell(c)' = ClosureCell(c)
BY DEF ClosureCell, Live

LEMMA HandlerCellsSame ==
  ASSUME NEW h, cbi'[h] = cbi[h]
  PROVE  HandlerCells(h)' = HandlerCells(h)
BY DEF HandlerCells

LEMMA InCellsNext ==
  \A y : y \in Cells' <=>
    \/ \E b \in Box : y \in BoxCell(b)'
    \/ \E c \in Closure : y \in ClosureCell(c)'
    \/ \E h \in Handler : y \in HandlerCells(h)'
BY DEF Cells

(* Cells' when one owner changes, or several handlers are freed. *)
LEMMA BoxChanges ==
  ASSUME NEW b \in Box, \A x \in Box \ {b} : boxes'[x] = boxes[x],
         UNCHANGED <<cl, cbi>>
  PROVE  Cells' = (Cells \ BoxCell(b)) \cup BoxCell(b)'
<1>1. \A x \in Box \ {b} : BoxCell(x)' = BoxCell(x)
  BY BoxCellSame
<1>2. \A c : ClosureCell(c)' = ClosureCell(c)
  BY ClosureCellSame
<1>3. \A h : HandlerCells(h)' = HandlerCells(h)
  BY HandlerCellsSame
<1>4. \A y : y \in BoxCell(b) =>
        /\ \A x \in Box \ {b} : y \notin BoxCell(x)
        /\ \A c : y \notin ClosureCell(c)
        /\ \A h : y \notin HandlerCells(h)
  BY OwnersDiffer
<1>5. ASSUME NEW y
      PROVE  y \in Cells' <=> (y \in Cells /\ y \notin BoxCell(b)) \/ y \in BoxCell(b)'
  <2>1. y \in Cells' <=>
          \/ y \in BoxCell(b)'
          \/ \E x \in Box \ {b} : y \in BoxCell(x)
          \/ \E c \in Closure : y \in ClosureCell(c)
          \/ \E h \in Handler : y \in HandlerCells(h)
    BY <1>1, <1>2, <1>3, InCellsNext
  <2> QED BY <1>4, <2>1, InCells
<1> QED BY <1>5

LEMMA ClosureChanges ==
  ASSUME NEW c \in Closure, \A x \in Closure \ {c} : ClosureCell(x)' = ClosureCell(x),
         UNCHANGED <<boxes, cbi>>
  PROVE  Cells' = (Cells \ ClosureCell(c)) \cup ClosureCell(c)'
<1>1. \A x : BoxCell(x)' = BoxCell(x)
  BY BoxCellSame
<1>2. \A h : HandlerCells(h)' = HandlerCells(h)
  BY HandlerCellsSame
<1>3. \A y : y \in ClosureCell(c) =>
        /\ \A x \in Closure \ {c} : y \notin ClosureCell(x)
        /\ \A b : y \notin BoxCell(b)
        /\ \A h : y \notin HandlerCells(h)
  BY OwnersDiffer
<1>4. ASSUME NEW y
      PROVE  y \in Cells' <=>
               (y \in Cells /\ y \notin ClosureCell(c)) \/ y \in ClosureCell(c)'
  <2>1. y \in Cells' <=>
          \/ y \in ClosureCell(c)'
          \/ \E b \in Box : y \in BoxCell(b)
          \/ \E x \in Closure \ {c} : y \in ClosureCell(x)
          \/ \E h \in Handler : y \in HandlerCells(h)
    BY <1>1, <1>2, InCellsNext
  <2> QED BY <1>3, <2>1, InCells
<1> QED BY <1>4

LEMMA HandlerConnects ==
  ASSUME NEW h \in Handler, cbi[h] = NULL,
         \A x \in Handler \ {h} : cbi'[x] = cbi[x],
         UNCHANGED <<boxes, cl>>
  PROVE  Cells' = Cells \cup HandlerCells(h)'
<1>1. \A x : BoxCell(x)' = BoxCell(x)
  BY BoxCellSame
<1>2. \A c : ClosureCell(c)' = ClosureCell(c)
  BY ClosureCellSame
<1>3. \A x \in Handler \ {h} : HandlerCells(x)' = HandlerCells(x)
  BY HandlerCellsSame
<1>4. HandlerCells(h) = {}
  BY DEF HandlerCells
<1> QED BY <1>1, <1>2, <1>3, <1>4, InCells, InCellsNext

LEMMA HandlersFreed ==
  ASSUME NEW hs \in SUBSET Handler,
         cbi' = [h \in Handler |-> IF h \in hs THEN NULL ELSE cbi[h]],
         UNCHANGED <<boxes, cl>>
  PROVE  Cells' = Cells \ UNION {HandlerCells(h) : h \in hs}
<1>1. \A x : BoxCell(x)' = BoxCell(x)
  BY BoxCellSame
<1>2. \A c : ClosureCell(c)' = ClosureCell(c)
  BY ClosureCellSame
<1>3. \A x \in Handler \ hs : HandlerCells(x)' = HandlerCells(x)
  BY HandlerCellsSame
<1>4. \A x \in hs : HandlerCells(x)' = {}
  BY DEF HandlerCells
<1>5. \A y : y \in UNION {HandlerCells(h) : h \in hs} <=> \E h \in hs : y \in HandlerCells(h)
  OBVIOUS
<1> DEFINE U == UNION {HandlerCells(h) : h \in hs}
<1> HIDE DEF U
<1>6. \A y : y \in U <=> \E h \in hs : y \in HandlerCells(h)
  BY <1>5 DEF U
<1>7. Cells' = Cells \ U
  BY <1>1, <1>2, <1>3, <1>4, <1>6, InCells, InCellsNext, OwnersDiffer
<1> QED BY <1>7 DEF U

LEMMA CellsSame ==
  ASSUME UNCHANGED <<boxes, cbi>>,
         \A c \in Closure : ClosureCell(c)' = ClosureCell(c)
  PROVE  Cells' = Cells
<1>1. \A x : BoxCell(x)' = BoxCell(x)
  BY BoxCellSame
<1>2. \A h : HandlerCells(h)' = HandlerCells(h)
  BY HandlerCellsSame
<1> QED BY <1>1, <1>2, InCells, InCellsNext

(* Nobody's cells change with what the conditions above do not mention. *)
LEMMA HandlersSame ==
  ASSUME RInv, UNCHANGED callbackVars
  PROVE  HandlersOK' /\ TooltipReleased'
BY DEF RInv, HandlersOK, TooltipReleased, callbackVars

-----------------------------------------------------------------------------
(***************************************************************************)
(* Several handlers are freed in some order.  AllReleased is a recursive   *)
(* function; that it exists, and what it returns, is shown by taking the   *)
(* least number of handlers for which it is wrong.                         *)
(***************************************************************************)
LEMMA Least ==
  ASSUME NEW T, T \subseteq Nat, T # {}
  PROVE  \E m \in T : \A k \in T : m <= k
<1> DEFINE below(k) == 0..k
           S == {below(k) : k \in T}
           R == StrictSubsetOrdering(Nat)
<1>1. IsWellFoundedOn(R, FiniteSubsetsOf(Nat))
  BY FS_StrictSubsetOrderingWellFounded
<1>2. ASSUME NEW k \in T
      PROVE  below(k) \in FiniteSubsetsOf(Nat)
  <2>1. IsFiniteSet(0..k)
    BY FS_Interval
  <2> QED BY <2>1 DEF FiniteSubsetsOf
<1>3. S \subseteq FiniteSubsetsOf(Nat) /\ S # {}
  BY <1>2
<1> HIDE DEF S, R
<1>4. PICK s \in S : \A t \in S : <<t, s>> \notin R
  BY <1>1, <1>3, WFMin
<1>5. PICK m \in T : s = below(m)
  BY DEF S
<1>6. ASSUME NEW k \in T, ~(m <= k)
      PROVE  FALSE
  <2>1. m \in Nat /\ k \in Nat /\ k < m
    BY <1>6
  <2>2. below(k) \subseteq below(m) /\ m \in below(m) /\ m \notin below(k)
    BY <2>1
  <2>3. <<below(k), below(m)>> \in R
    BY <2>1, <2>2 DEF R, StrictSubsetOrdering
  <2> QED BY <1>4, <1>5, <2>3 DEF S
<1> QED BY <1>6

(* The registry after each handler. *)
Releases(g, order, n) ==
  g = [i \in 0..n |-> IF i = 0 THEN registry ELSE Released(g[i - 1], order[i])]

LEMMA ReleasesExist ==
  ASSUME NEW order, NEW n \in Nat
  PROVE  \E g : Releases(g, order, n)
<1> DEFINE Bad == {m \in Nat : ~ \E g : Releases(g, order, m)}
<1>1. CASE Bad = {}
  BY <1>1
<1>2. CASE Bad # {}
  <2>1. PICK m \in Bad : \A k \in Bad : m <= k
    BY <1>2, Least
  <2>2. m # 0
    <3>1. Releases([i \in 0..0 |-> registry], order, 0)
      BY DEF Releases
    <3> QED BY <3>1
  <2>3. m - 1 \in Nat /\ m - 1 \notin Bad
    BY <2>1, <2>2
  <2>4. PICK g : Releases(g, order, m - 1)
    BY <2>3
  <2> DEFINE h == [i \in 0..m |-> IF i = m THEN Released(g[m - 1], order[m]) ELSE g[i]]
  <2>5. Releases(h, order, m)
    <3>1. ASSUME NEW i \in 0..m
          PROVE  h[i] = IF i = 0 THEN registry ELSE Released(h[i - 1], order[i])
      <4>1. CASE i = m
        BY <2>2, <2>3, <4>1
      <4>2. CASE i # m
        BY <2>2, <2>3, <2>4, <4>2 DEF Releases
      <4> QED BY <4>1, <4>2
    <3> QED BY <3>1 DEF Releases
  <2> QED BY <2>5
<1> QED BY <1>1, <1>2

LEMMA AllReleasedIs ==
  ASSUME NEW order, NEW n \in Nat
  PROVE  \E g : Releases(g, order, n) /\ AllReleased(order, n) = g[n]
<1>1. PICK f : Releases(f, order, n)
  BY ReleasesExist
<1> DEFINE P(R) ==
      R = [i \in 0..n |-> IF i = 0 THEN registry ELSE Released(R[i - 1], order[i])]
<1>2. P(CHOOSE R : P(R))
  BY <1>1, Zenon DEF Releases
<1>3. AllReleased(order, n) = (CHOOSE R : P(R))[n]
  BY Zenon DEF AllReleased
<1>4. PICK g : g = (CHOOSE R : P(R))
  OBVIOUS
<1> QED BY <1>2, <1>3, <1>4, Zenon DEF Releases

(* _free_callback_info gives back the references of a handler. *)
LEMMA ReleasedGood ==
  ASSUME HandlersOK, NEW h \in Handler, cbi[h] # NULL,
         NEW r, NEW T, NEW L, Good(r, T, L), HandlerCells(h) \subseteq T
  PROVE  Good(Released(r, h), T \ HandlerCells(h), L)
<1> DEFINE x == <<h, "handler", cbi[h].handler_ref, cbi[h].f>>
           y == <<h, "object", cbi[h].object_ref, cbi[h].o>>
           z == <<h, "args", cbi[h].args_ref, cbi[h].a>>
           r1 == Unreferenced(r, cbi[h].handler_ref)
           r2 == Unreferenced(r1, cbi[h].object_ref)
<1>1. /\ x # y /\ z # x /\ z # y
      /\ x[3] = cbi[h].handler_ref /\ y[3] = cbi[h].object_ref
      /\ z[3] = cbi[h].args_ref
  OBVIOUS
<1>2. HandlerCells(h) = {x, y} \cup IF cbi[h].a = NULL THEN {} ELSE {z}
  BY DEF HandlerCells
<1>3. Released(r, h) =
        IF cbi[h].args_ref = 0 THEN r2 ELSE Unreferenced(r2, cbi[h].args_ref)
  BY DEF Released
<1>4. cbi[h].a = NULL => cbi[h].args_ref = 0
  BY DEF HandlersOK
<1>5. cbi[h].a # NULL => z \in T /\ z[3] \in 1..MaxRef
  BY <1>2 DEF Good, CellsOK
<1> HIDE DEF x, y, z
<1>6. Good(r1, T \ {x}, L)
  BY <1>1, <1>2, GiveGood
<1>7. Good(r2, (T \ {x}) \ {y}, L)
  BY <1>1, <1>2, <1>6, GiveGood
<1> HIDE DEF r1, r2
<1>8. CASE cbi[h].a = NULL
  <2>1. (T \ {x}) \ {y} = T \ HandlerCells(h)
    BY <1>2, <1>8
  <2> QED BY <1>3, <1>4, <1>7, <1>8, <2>1
<1>9. CASE cbi[h].a # NULL
  <2>1. ((T \ {x}) \ {y}) \ {z} = T \ HandlerCells(h)
    BY <1>2, <1>9
  <2>2. cbi[h].args_ref # 0 /\ z \in (T \ {x}) \ {y}
    BY <1>1, <1>5, <1>9
  <2>3. Good(Unreferenced(r2, cbi[h].args_ref), ((T \ {x}) \ {y}) \ {z}, L)
    BY <1>1, <1>7, <2>2, GiveGood
  <2> QED BY <1>3, <2>1, <2>2, <2>3
<1> QED BY <1>8, <1>9

LEMMA AllReleasedGood ==
  ASSUME HandlersOK, NEW n \in Nat, NEW order \in [1..n -> Handler],
         \A i, j \in 1..n : order[i] = order[j] => i = j,
         \A i \in 1..n : cbi[order[i]] # NULL,
         NEW T, NEW L, Good(registry, T, L),
         \A i \in 1..n : HandlerCells(order[i]) \subseteq T
  PROVE  Good(AllReleased(order, n),
              T \ UNION {HandlerCells(order[i]) : i \in 1..n}, L)
<1>1. PICK g : Releases(g, order, n) /\ AllReleased(order, n) = g[n]
  BY AllReleasedIs
<1>2. g[0] = registry /\ \A i \in 1..n : g[i] = Released(g[i - 1], order[i])
  BY <1>1 DEF Releases
<1> DEFINE Given(m) == UNION {HandlerCells(order[i]) : i \in 1..m}
           Bad == {m \in 0..n : ~Good(g[m], T \ Given(m), L)}
<1>0. /\ Bad \subseteq 0..n /\ Bad \subseteq Nat
      /\ \A m \in 0..n : m \notin Bad <=> Good(g[m], T \ Given(m), L)
  OBVIOUS
<1> HIDE DEF Bad
<1>3. CASE Bad = {}
  <2>1. n \in 0..n
    OBVIOUS
  <2>2. Good(g[n], T \ Given(n), L)
    BY <1>0, <1>3, <2>1
  <2>3. Good(AllReleased(order, n), T \ Given(n), L)
    BY <1>1, <2>2
  <2> QED BY <2>3
<1>4. CASE Bad # {}
  <2>1. PICK m \in Bad : \A k \in Bad : m <= k
    BY <1>4, <1>0, Least
  <2>2. m # 0
    <3>1. 1..0 = {}
      OBVIOUS
    <3>2. Given(0) = {}
      BY <3>1, Zenon
    <3>3. T \ Given(0) = T
      BY <3>2
    <3> QED BY <1>2, <1>0, <2>1, <3>3 DEF CellsGood
  <2>3. m - 1 \in 0..n /\ m - 1 \notin Bad /\ m \in 1..n
    BY <1>0, <2>1, <2>2
  <2>4. Good(g[m - 1], T \ Given(m - 1), L)
    BY <1>0, <2>3
  <2>5. ASSUME NEW y
        PROVE  y \in Given(m) <=> y \in Given(m - 1) \/ y \in HandlerCells(order[m])
    <3>1. \A i \in 1..m : i \in 1..(m - 1) \/ i = m
      BY <2>3
    <3>2. m \in 1..m /\ \A i \in 1..(m - 1) : i \in 1..m
      BY <2>3
    <3> QED BY <3>1, <3>2
  <2>6. ASSUME NEW y \in Given(m - 1)
        PROVE  y \notin HandlerCells(order[m])
    <3>1. PICK i \in 1..(m - 1) : y \in HandlerCells(order[i])
      OBVIOUS
    <3>2. i \in 1..n /\ i # m
      BY <2>3
    <3>3. order[i] # order[m]
      BY <2>3, <3>2
    <3> QED BY <3>1, <3>3, OwnersDiffer
  <2> HIDE DEF Given
  <2>7. HandlerCells(order[m]) \subseteq T \ Given(m - 1)
    BY <2>3, <2>6
  <2>8. Good(Released(g[m - 1], order[m]),
             (T \ Given(m - 1)) \ HandlerCells(order[m]), L)
    BY <2>3, <2>4, <2>7, ReleasedGood
  <2>9. (T \ Given(m - 1)) \ HandlerCells(order[m]) = T \ Given(m)
    BY <2>5
  <2> QED BY <1>2, <1>0, <2>1, <2>3, <2>8, <2>9
<1> QED BY <1>3, <1>4

(* Each handler of hs is freed once. *)
LEMMA FreeCallbackInfoGood ==
  ASSUME HandlersOK, CellsGood, NEW hs \in SUBSET Handler,
         \A h \in hs : cbi[h] # NULL,
         FreeCallbackInfo(hs), UNCHANGED <<boxes, cl, leaked>>
  PROVE  CellsGood'
<1> DEFINE n == Cardinality(hs)
<1>1. IsFiniteSet(hs) /\ n \in Nat
  BY CallbackAssumption, FS_Subset, FS_CardinalityType
<1>2. PICK order \in [1..n -> hs] :
        /\ \A h \in hs : \E i \in 1..n : order[i] = h
        /\ registry' = AllReleased(order, n)
  BY DEF FreeCallbackInfo
<1>3. IsFiniteSet(1..n) /\ Cardinality(1..n) = n
  BY <1>1, FS_Interval
<1>4. \A i, j \in 1..n : order[i] = order[j] => i = j
  <2>1. order \in Surjection(1..n, hs)
    BY <1>2 DEF Surjection
  <2>2. order \in Injection(1..n, hs)
    BY <1>1, <1>3, <2>1, FS_SurjSameCardinalityImpliesInj
  <2> QED BY <1>2, <2>2 DEF Injection, IsInjective
<1>5. \A h \in Handler : HandlerCells(h) \subseteq Cells
  BY InCells
<1> HIDE DEF n
<1>6. Good(AllReleased(order, n),
           Cells \ UNION {HandlerCells(order[i]) : i \in 1..n}, leaked)
  <2>1. order \in [1..n -> Handler] /\ \A i \in 1..n : cbi[order[i]] # NULL
    BY <1>2
  <2> QED BY <1>1, <1>4, <1>5, <2>1, AllReleasedGood DEF CellsGood
<1>7. UNION {HandlerCells(order[i]) : i \in 1..n} = UNION {HandlerCells(h) : h \in hs}
  BY <1>2
<1>8. Cells' = Cells \ UNION {HandlerCells(h) : h \in hs}
  BY HandlersFreed DEF FreeCallbackInfo
<1> QED BY <1>2, <1>6, <1>7, <1>8 DEF CellsGood

-----------------------------------------------------------------------------
(***************************************************************************)
(* Boxed values.                                                           *)
(***************************************************************************)
LEMMA BoxMade ==
  ASSUME CellsGood, BoxesOK, NEW b \in Box, boxes[b] = NULL,
         NEW v \in Value \cup {NIL}, HasRoom(registry, v),
         NEW x \in BoxRecord, x.ref = RefOf(registry, v), x.value = v,
         x.freed = FALSE,
         boxes' = [boxes EXCEPT ![b] = x],
         registry' = Referenced(registry, v),
         UNCHANGED <<closureVars, callbackVars>>
  PROVE  CellsGood' /\ BoxesOK'
<1>1. /\ boxes' \in [Box -> BoxRecord \cup {NULL}] /\ boxes'[b] = x
      /\ \A y \in Box \ {b} : boxes'[y] = boxes[y]
      /\ x # NULL
  BY ThingsAssumption DEF BoxesOK
<1>2. BoxesOK'
  <2>1. ASSUME NEW y \in Box, boxes'[y] # NULL
        PROVE  /\ boxes'[y].freed = FALSE
               /\ boxes'[y].value = NIL => boxes'[y].ref = LUA_REFNIL
    <3>1. CASE y = b
      BY <1>1, <3>1 DEF RefOf
    <3>2. CASE y # b
      BY <1>1, <2>1, <3>2 DEF BoxesOK, Boxes
    <3> QED BY <3>1, <3>2
  <2> QED BY <1>1, <2>1 DEF BoxesOK, Boxes
<1>3. Cells' = Cells \cup BoxCell(b)'
  <2>1. BoxCell(b) = {}
    BY DEF BoxCell
  <2>2. UNCHANGED <<cl, cbi>>
    BY DEF closureVars, callbackVars
  <2> QED BY <1>1, <2>1, <2>2, BoxChanges
<1>4. leaked' = leaked
  BY DEF closureVars
<1>5. CASE v = NIL
  <2>1. BoxCell(b)' = {}
    BY <1>1, <1>5 DEF BoxCell
  <2>2. registry' = registry
    BY <1>5 DEF Referenced
  <2> QED BY <1>2, <1>3, <1>4, <2>1, <2>2 DEF CellsGood
<1>6. CASE v # NIL
  <2> DEFINE w == <<b, "box", RefOf(registry, v), v>>
  <2>1. BoxCell(b)' = {w}
    BY <1>1, <1>6 DEF BoxCell
  <2>2. v \in Things /\ w[3] = RefOf(registry, v) /\ w[4] = v
    BY <1>6 DEF Things
  <2> HIDE DEF w
  <2>3. Good(Referenced(registry, v), Cells \cup {w}, leaked)
    BY <2>2, TakeGood DEF CellsGood
  <2> QED BY <1>2, <1>3, <1>4, <2>1, <2>3 DEF CellsGood
<1> QED BY <1>5, <1>6

LEMMA BoxGone ==
  ASSUME CellsGood, BoxesOK, NEW b \in Box, boxes[b] # NULL,
         boxes' = [boxes EXCEPT ![b] = NULL],
         registry' = Unreferenced(registry, boxes[b].ref),
         UNCHANGED <<closureVars, callbackVars>>
  PROVE  CellsGood' /\ BoxesOK'
<1>1. /\ boxes' \in [Box -> BoxRecord \cup {NULL}] /\ boxes'[b] = NULL
      /\ \A y \in Box \ {b} : boxes'[y] = boxes[y]
  BY DEF BoxesOK
<1>2. BoxesOK'
  BY <1>1 DEF BoxesOK, Boxes
<1>3. Cells' = Cells \ BoxCell(b)
  <2>1. BoxCell(b)' = {}
    BY <1>1 DEF BoxCell
  <2>2. UNCHANGED <<cl, cbi>>
    BY DEF closureVars, callbackVars
  <2> QED BY <1>1, <2>1, <2>2, BoxChanges
<1>4. leaked' = leaked
  BY DEF closureVars
<1>5. CASE boxes[b].value = NIL
  <2>1. BoxCell(b) = {}
    BY <1>5 DEF BoxCell
  <2>2. registry' = registry
    BY <1>5 DEF Unreferenced, BoxesOK, Boxes
  <2> QED BY <1>2, <1>3, <1>4, <2>1, <2>2 DEF CellsGood
<1>6. CASE boxes[b].value # NIL
  <2> DEFINE w == <<b, "box", boxes[b].ref, boxes[b].value>>
  <2>1. BoxCell(b) = {w} /\ w[3] = boxes[b].ref
    BY <1>6 DEF BoxCell
  <2> HIDE DEF w
  <2>2. w \in Cells
    BY <2>1, InCells
  <2>3. Good(Unreferenced(registry, boxes[b].ref), Cells \ {w}, leaked)
    BY <2>1, <2>2, GiveGood DEF CellsGood
  <2> QED BY <1>2, <1>3, <1>4, <2>1, <2>3 DEF CellsGood
<1> QED BY <1>5, <1>6

(* A box finds its value. *)
LEMMA BoxHas ==
  ASSUME CellsGood, BoxesOK, NEW b \in Box, boxes[b] # NULL
  PROVE  /\ RawGet(registry, boxes[b].ref) = boxes[b].value
         /\ boxes[b] \in BoxRecord /\ boxes[b].freed = FALSE
<1>1. boxes[b] \in BoxRecord /\ boxes[b].freed = FALSE
  BY DEF BoxesOK, Boxes
<1>2. CASE boxes[b].value = NIL
  BY <1>1, <1>2 DEF RawGet, BoxesOK, Boxes
<1>3. CASE boxes[b].value # NIL
  <2> DEFINE w == <<b, "box", boxes[b].ref, boxes[b].value>>
  <2>1. w \in BoxCell(b) /\ w[3] = boxes[b].ref /\ w[4] = boxes[b].value
    BY <1>3 DEF BoxCell
  <2> HIDE DEF w
  <2>2. w \in Cells
    BY <2>1, InCells
  <2>3. boxes[b].ref \in 1..MaxRef /\ registry[boxes[b].ref] = boxes[b].value
    BY <2>1, <2>2 DEF CellsGood, Good, CellsOK
  <2> QED BY <1>1, <2>3, ThingFacts DEF RawGet, LUA_REFNIL
<1> QED BY <1>2, <1>3

LEMMA BoxedStepKeeps ==
  ASSUME ~TakesBoxes, CellsGood, BoxesOK, BoxedStep
  PROVE  CellsGood' /\ BoxesOK'
<1>1. UNCHANGED <<closureVars, callbackVars>> /\ BoxedNext
  BY DEF BoxedStep
<1>2. ASSUME NEW b \in Box, NEW v \in Value \cup {NIL}, NEW l \in Thread,
             NEW u \in BOOLEAN, Fill(b, v, l, u)
      PROVE  CellsGood' /\ BoxesOK'
  <2>1. /\ Filled(v, l, u) \in BoxRecord
        /\ Filled(v, l, u).ref = RefOf(registry, v)
        /\ Filled(v, l, u).value = v /\ Filled(v, l, u).freed = FALSE
    BY RefIsInt DEF Filled, BoxRecord
  <2> QED BY <1>1, <1>2, <2>1, BoxMade DEF Fill
<1>3. ASSUME NEW b \in Box, NEW src \in Box, BoxedCopy(b, src)
      PROVE  CellsGood' /\ BoxesOK'
  <2>1. boxes[b] = NULL /\ boxes[src] # NULL
    BY <1>3 DEF BoxedCopy
  <2>2. PICK v : v = boxes[src].value
    OBVIOUS
  <2>3. RawGet(registry, boxes[src].ref) = v /\ boxes[src] \in BoxRecord
        /\ boxes[src].freed = FALSE
    BY <2>1, <2>2, BoxHas
  <2> DEFINE x == [boxes[src] EXCEPT !.ref = RefOf(registry, v), !.is_userdata = FALSE]
  <2>4. x \in BoxRecord /\ x.ref = RefOf(registry, v) /\ x.value = v /\ x.freed = FALSE
    BY <2>2, <2>3, RefIsInt DEF BoxRecord
  <2>5. v \in Value \cup {NIL}
    BY <2>2, <2>3 DEF BoxRecord
  <2>6. /\ HasRoom(registry, v) /\ boxes' = [boxes EXCEPT ![b] = x]
        /\ registry' = Referenced(registry, v)
    BY <1>3, <2>3 DEF BoxedCopy
  <2> HIDE DEF x
  <2> QED BY <1>1, <2>1, <2>4, <2>5, <2>6, BoxMade
<1>4. ASSUME NEW b \in Box, BoxedFree(b)
      PROVE  CellsGood' /\ BoxesOK'
  <2>1. /\ boxes[b] # NULL /\ ~boxes[b].is_userdata
        /\ registry' = Unreferenced(registry, boxes[b].ref)
        /\ boxes' = [boxes EXCEPT ![b] = IF boxes[b].is_userdata
                                   THEN [boxes[b] EXCEPT !.freed = TRUE]
                                   ELSE NULL]
    BY <1>4, Zenon DEF BoxedFree
  <2>2. boxes' = [boxes EXCEPT ![b] = NULL]
    BY <2>1, Zenon
  <2> QED BY <1>1, <2>1, <2>2, BoxGone
<1>5. ASSUME NEW b \in Box, BoxedGc(b)
      PROVE  CellsGood' /\ BoxesOK'
  BY <1>1, <1>5, BoxGone DEF BoxedGc
<1> QED BY <1>1, <1>2, <1>3, <1>4, <1>5 DEF BoxedNext, BoxValue, MakeBoxedValue

-----------------------------------------------------------------------------
(***************************************************************************)
(* Closures.                                                               *)
(***************************************************************************)
LEMMA ClosureMade ==
  ASSUME CInv, CellsGood, NEW c \in Closure, NEW f \in Func, Create(c, f),
         NEW y \in ClosureRecord, y.magic1 = TRUE,
         y.func_ref = RefOf(registry, f), y.func = f, Becomes(c, y),
         UNCHANGED <<boxedVars, callbackVars, leaked>>
  PROVE  CellsGood'
<1>1. TypesOK
  BY DEF CInv
<1>2. /\ cl'[c] = y /\ Live(c)' /\ cl[c] = NULL
      /\ \A d \in Closure \ {c} : cl'[d] = cl[d]
  BY <1>1, BecomesFacts DEF Create
<1> DEFINE w == <<c, "closure", RefOf(registry, f), f>>
<1>3. ClosureCell(c)' = {w}
  BY <1>2 DEF ClosureCell
<1>4. ClosureCell(c) = {}
  BY <1>2 DEF ClosureCell, Live
<1>5. Cells' = Cells \cup {w}
  <2>1. UNCHANGED <<boxes, cbi>>
    BY DEF boxedVars, callbackVars
  <2>2. \A x \in Closure \ {c} : ClosureCell(x)' = ClosureCell(x)
    BY <1>2, ClosureCellSame
  <2> QED BY <1>3, <1>4, <2>1, <2>2, ClosureChanges
<1>6. f \in Things /\ w[3] = RefOf(registry, f) /\ w[4] = f
  BY DEF Things
<1> HIDE DEF w
<1>7. Good(Referenced(registry, f), Cells \cup {w}, leaked)
  BY <1>6, TakeGood DEF CellsGood, Create
<1> QED BY <1>5, <1>7 DEF CellsGood, Create

(* The type is set, with or without code. *)
LEMMA SetUpKeeps ==
  ASSUME NEW x \in ClosureRecord, NEW fn \in LibFunc, NEW t \in Code,
         NEW k \in Cif
  PROVE  /\ SetUp(x, fn, t, k) \in ClosureRecord
         /\ SetUp(x, fn, t, k).magic1 = x.magic1
         /\ SetUp(x, fn, t, k).func = x.func
         /\ SetUp(x, fn, t, k).func_ref = x.func_ref
<1>1. SetUp(x, fn, t, k).func_ref = x.func_ref
  BY DEF SetUp, ClosureRecord
<1> QED BY <1>1, SetUpType

Typed(x, fn) == [x EXCEPT !.ts = TypeOf[fn]]

LEMMA TypedKeeps ==
  ASSUME NEW x \in ClosureRecord, NEW fn \in LibFunc
  PROVE  /\ Typed(x, fn) \in ClosureRecord
         /\ Typed(x, fn).magic1 = x.magic1
         /\ Typed(x, fn).func = x.func
         /\ Typed(x, fn).func_ref = x.func_ref
<1>1. TypeOf[fn] \in Types
  BY DEF Types
<1> QED BY <1>1 DEF Typed, ClosureRecord

(* A closure that is set up keeps its reference. *)
LEMMA ClosureUsed ==
  ASSUME CInv, CellsGood, NEW c \in held, NEW fn \in LibFunc, NEW t \in Code,
         Use(c, fn, t), UNCHANGED <<registry, leaked, boxedVars, callbackVars>>
  PROVE  CellsGood'
<1>1. TypesOK /\ c \in Closure /\ Live(c)
  BY DEF CInv, TypesOK, HeldOK
<1>2. cl[c] \in ClosureRecord /\ cl[c].magic1 = TRUE
  BY <1>1, LiveIs
<1>3. UNCHANGED <<boxes, cbi>>
  BY DEF boxedVars, callbackVars
<1>4. CASE cl[c].ts = NULL
  <2>1. PICK k \in Cif : Setup(c, cl[c], fn, t, k)
    BY <1>4 DEF Use
  <2> DEFINE y == SetUp(cl[c], fn, t, k)
  <2>2. /\ y \in ClosureRecord /\ y.magic1 = TRUE /\ y.func = cl[c].func
        /\ y.func_ref = cl[c].func_ref
    BY <1>2, SetUpKeeps
  <2>3. Becomes(c, y)
    BY <1>1, <1>2, <2>1, SetupFacts
  <2> HIDE DEF y
  <2>4. cl'[c] = y /\ Live(c)' /\ \A d \in Closure \ {c} : cl'[d] = cl[d]
    BY <1>1, <2>2, <2>3, BecomesFacts
  <2>5. ClosureCell(c)' = ClosureCell(c)
    BY <1>1, <2>2, <2>4 DEF ClosureCell
  <2>6. \A d \in Closure : ClosureCell(d)' = ClosureCell(d)
    BY <2>4, <2>5, ClosureCellSame
  <2>7. Cells' = Cells
    BY <1>3, <2>6, CellsSame
  <2> QED BY <2>7 DEF CellsGood
<1>5. CASE cl[c].ts # NULL
  <2>1. cl' = cl
    BY <1>5 DEF Use
  <2>2. Cells' = Cells
    BY <1>3, <2>1, ClosureCellSame, CellsSame
  <2> QED BY <2>2 DEF CellsGood
<1> QED BY <1>4, <1>5

LEMMA ClosuresSame ==
  ASSUME CellsGood, UNCHANGED <<registry, cl, leaked, boxedVars, callbackVars>>
  PROVE  CellsGood'
<1>1. UNCHANGED <<boxes, cbi>>
  BY DEF boxedVars, callbackVars
<1>2. Cells' = Cells
  BY <1>1, ClosureCellSame, CellsSame
<1> QED BY <1>2 DEF CellsGood

LEMMA ClosureGone ==
  ASSUME CInv, CellsGood, NEW c \in Closure, NEW y \in ClosureRecord \cup {NULL},
         cl' = [cl EXCEPT ![c] = y],
         y = NULL \/ y.magic1 = FALSE,
         UNCHANGED <<registry, boxedVars, callbackVars>>,
         \/ Live(c) /\ leaked' = leaked \cup {cl[c].func_ref}
         \/ ~Live(c) /\ leaked' = leaked
  PROVE  CellsGood'
<1>1. cl'[c] = y /\ \A d \in Closure \ {c} : cl'[d] = cl[d]
  BY DEF CInv, TypesOK
<1>2. ClosureCell(c)' = {}
  BY <1>1 DEF ClosureCell, Live
<1>3. Cells' = Cells \ ClosureCell(c)
  <2>1. UNCHANGED <<boxes, cbi>>
    BY DEF boxedVars, callbackVars
  <2>2. \A x \in Closure \ {c} : ClosureCell(x)' = ClosureCell(x)
    BY <1>1, ClosureCellSame
  <2> QED BY <1>2, <2>1, <2>2, ClosureChanges
<1>4. CASE Live(c) /\ leaked' = leaked \cup {cl[c].func_ref}
  <2> DEFINE w == <<c, "closure", cl[c].func_ref, cl[c].func>>
  <2>1. ClosureCell(c) = {w} /\ w[3] = cl[c].func_ref
    BY <1>4 DEF ClosureCell
  <2> HIDE DEF w
  <2>2. w \in Cells
    BY <2>1, InCells
  <2>3. Good(registry, Cells \ {w}, leaked \cup {cl[c].func_ref})
    BY <2>1, <2>2, LoseGood DEF CellsGood
  <2> QED BY <1>3, <1>4, <2>1, <2>3 DEF CellsGood
<1>5. CASE ~Live(c) /\ leaked' = leaked
  <2>1. ClosureCell(c) = {}
    BY <1>5 DEF ClosureCell
  <2> QED BY <1>3, <1>5, <2>1 DEF CellsGood
<1> QED BY <1>4, <1>5

LEMMA ClosureStepKeeps ==
  ASSUME CInv, CellsGood, ClosureStep
  PROVE  CellsGood'
<1>1. UNCHANGED <<boxedVars, callbackVars>> /\ ClosureNext
  BY DEF ClosureStep
<1>2. \A c \in Closure, f \in Func, a \in BOOLEAN :
        /\ Created(c, f, a) \in ClosureRecord
        /\ Created(c, f, a).magic1 = TRUE
        /\ Created(c, f, a).func_ref = RefOf(registry, f)
        /\ Created(c, f, a).func = f
  BY CreatedType DEF Created, Zeroed
<1>0. TRUE \in BOOLEAN /\ FALSE \in BOOLEAN
  OBVIOUS
<1>3. ASSUME NEW c \in Closure, NEW f \in Func, NewClosure(c, f)
      PROVE  CellsGood'
  BY <1>1, <1>2, <1>3, ClosureMade DEF NewClosure, Becomes
<1>4. ASSUME NEW c \in Closure, NEW f \in Func, NEW fn \in LibFunc,
             PassFunction(c, f, fn)
      PROVE  CellsGood'
  <2>0. PICK x : x = Created(c, f, TRUE)
    OBVIOUS
  <2>5. /\ x \in ClosureRecord /\ x.magic1 = TRUE
        /\ x.func_ref = RefOf(registry, f) /\ x.func = f
    BY <1>0, <1>2, <2>0, Zenon
  <2>1. PICK t \in Code, k \in Cif : Setup(c, Created(c, f, TRUE), fn, t, k)
    BY <1>4 DEF PassFunction
  <2>2. Create(c, f) /\ leaked' = leaked
    BY <1>4 DEF PassFunction
  <2> DEFINE y == SetUp(x, fn, t, k)
  <2>3. /\ y \in ClosureRecord /\ y.magic1 = TRUE /\ y.func = f
        /\ y.func_ref = RefOf(registry, f)
    BY <2>5, SetUpKeeps
  <2>4. Becomes(c, y)
    BY <2>0, <2>1, <2>5, SetupFacts DEF CInv
  <2> HIDE DEF y
  <2> QED BY <1>1, <2>2, <2>3, <2>4, ClosureMade
<1>5. ASSUME NEW c \in Closure, NEW f \in Func, NEW fn \in LibFunc,
             PassFunctionFails(c, f, fn)
      PROVE  CellsGood'
  <2>0. PICK x : x = Created(c, f, TRUE)
    OBVIOUS
  <2>5. /\ x \in ClosureRecord /\ x.magic1 = TRUE
        /\ x.func_ref = RefOf(registry, f) /\ x.func = f
    BY <1>0, <1>2, <2>0, Zenon
  <2> DEFINE y == Typed(x, fn)
  <2>2. /\ y \in ClosureRecord /\ y.magic1 = TRUE /\ y.func = f
        /\ y.func_ref = RefOf(registry, f)
    BY <2>5, TypedKeeps
  <2>3. Create(c, f) /\ leaked' = leaked /\ Becomes(c, y)
    BY <1>5, <2>0 DEF PassFunctionFails, Becomes, Typed
  <2> HIDE DEF y
  <2> QED BY <1>1, <2>2, <2>3, ClosureMade
<1>6. ASSUME NEW c \in Closure, NEW fn \in LibFunc,
             PassClosure(c, fn) \/ SetField(c, fn)
      PROVE  CellsGood'
  BY <1>1, <1>6, ClosureUsed DEF PassClosure, SetField
<1>7. ASSUME \/ Return \/ UnsetDebug
             \/ \E p \in lib : Forget(p)
             \/ \E c \in Closure : Drop(c)
      PROVE  CellsGood'
  BY <1>1, <1>7, ClosuresSame DEF Return, UnsetDebug, Forget, Drop
<1>8. ASSUME NEW c \in Closure, Gc(c)
      PROVE  CellsGood'
  <2>1. /\ Live(c) /\ leaked' = leaked \cup {cl[c].func_ref}
        /\ cl' = [cl EXCEPT ![c] = Zeroed] /\ registry' = registry
    BY <1>8 DEF Gc
  <2> QED BY <1>1, <2>1, ClosureGone, ZeroedType
<1>9. ASSUME NEW c \in Closure, Reclaim(c)
      PROVE  CellsGood'
  <2>1. /\ cl[c] = Zeroed /\ leaked' = leaked
        /\ cl' = [cl EXCEPT ![c] = NULL] /\ registry' = registry
    BY <1>9 DEF Reclaim
  <2>2. ~Live(c)
    BY <2>1, ZeroedType DEF Live
  <2> QED BY <1>1, <2>1, <2>2, ClosureGone
<1> QED BY <1>1, <1>3, <1>4, <1>5, <1>6, <1>7, <1>8, <1>9 DEF ClosureNext

-----------------------------------------------------------------------------
(***************************************************************************)
(* Signal handlers.                                                        *)
(***************************************************************************)
LEMMA ConnectCells ==
  ASSUME CellsGood, NEW h \in Handler, NEW o \in Object, NEW f \in HandlerFunc,
         NEW a \in ExtraArgs \cup {NULL}, cbi[h] = NULL, Fits(o, f, a),
         NEW x, x = Info(h, o, f, a), x # NULL, cbi'[h] = x,
         \A y \in Handler \ {h} : cbi'[y] = cbi[y],
         registry' = Connected(h, o, f, a),
         UNCHANGED <<boxes, cl, leaked>>
  PROVE  CellsGood'
<1> DEFINE r1 == Referenced(registry, f)
           r2 == Referenced(r1, o)
           u == <<h, "handler", RefOf(registry, f), f>>
           v == <<h, "object", RefOf(r1, o), o>>
           w == <<h, "args", RefOf(r2, a), a>>
<1>1. HasRoom(registry, f) /\ HasRoom(r1, o) /\ (a # NULL => HasRoom(r2, a))
  BY DEF Fits
<1>2. registry' = IF a = NULL THEN r2 ELSE Referenced(r2, a)
  BY DEF Connected
<1>3. HandlerCells(h)' = {u, v} \cup IF a = NULL THEN {} ELSE {w}
  BY DEF HandlerCells, Info
<1>4. /\ u[3] = RefOf(registry, f) /\ u[4] = f /\ v[3] = RefOf(r1, o) /\ v[4] = o
      /\ w[3] = RefOf(r2, a) /\ w[4] = a
      /\ f \in Things /\ o \in Things /\ (a # NULL => a \in Things)
  BY DEF Things
<1>5. Cells' = Cells \cup HandlerCells(h)'
  BY HandlerConnects
<1> HIDE DEF u, v, w
<1>6. Good(r1, Cells \cup {u}, leaked)
  BY <1>1, <1>4, TakeGood DEF CellsGood
<1> HIDE DEF r1
<1>7. Good(r2, (Cells \cup {u}) \cup {v}, leaked)
  BY <1>1, <1>4, <1>6, TakeGood
<1> HIDE DEF r2
<1>8. CASE a = NULL
  <2>1. Cells' = (Cells \cup {u}) \cup {v}
    BY <1>3, <1>5, <1>8
  <2> QED BY <1>2, <1>7, <1>8, <2>1 DEF CellsGood
<1>9. CASE a # NULL
  <2>1. Cells' = ((Cells \cup {u}) \cup {v}) \cup {w}
    BY <1>3, <1>5, <1>9
  <2>2. Good(Referenced(r2, a), ((Cells \cup {u}) \cup {v}) \cup {w}, leaked)
    BY <1>1, <1>4, <1>7, <1>9, TakeGood
  <2> QED BY <1>2, <1>9, <2>1, <2>2 DEF CellsGood
<1> QED BY <1>8, <1>9

LEMMA ConnectKeeps ==
  ASSUME CellsGood, HandlersOK, NEW h \in Handler, NEW o \in Object,
         NEW f \in HandlerFunc, NEW a \in ExtraArgs \cup {NULL},
         Connect(h, o, f, a), UNCHANGED <<boxes, cl, leaked>>
  PROVE  CellsGood' /\ HandlersOK'
<1>1. PICK x : x = Info(h, o, f, a)
  OBVIOUS
<1>2. x \in InfoRecord /\ x.o = o /\ x.a = a /\ (a = NULL => x.args_ref = 0)
  BY <1>1, RefIsInt DEF Info, InfoRecord
<1>3. x # NULL
  BY <1>2, ThingsAssumption
<1>4. /\ cbi' \in [Handler -> InfoRecord \cup {NULL}] /\ cbi'[h] = x
      /\ \A y \in Handler \ {h} : cbi'[y] = cbi[y]
      /\ connected' = connected \cup {h} /\ running' = running /\ proxy' = proxy
      /\ proxy[o] = "held"
  BY <1>1, <1>2 DEF Connect, HandlersOK
<1>5. CellsGood'
  BY <1>1, <1>3, <1>4, ConnectCells DEF Connect
<1>6. HandlersOK'
  BY <1>2, <1>3, <1>4 DEF HandlersOK
<1> QED BY <1>5, <1>6

(* Handlers that are neither connected nor running any more are freed. *)
LEMMA FreeKeeps ==
  ASSUME CellsGood, HandlersOK, NEW hs \in SUBSET Handler,
         hs \subseteq connected \cup running,
         FreeCallbackInfo(hs), UNCHANGED <<boxes, cl, leaked, proxy>>,
         connected' \cup running' \subseteq (connected \cup running) \ hs
  PROVE  CellsGood' /\ HandlersOK'
<1>1. \A h \in hs : cbi[h] # NULL
  BY DEF HandlersOK
<1>2. CellsGood'
  BY <1>1, FreeCallbackInfoGood
<1>3. cbi' = [h \in Handler |-> IF h \in hs THEN NULL ELSE cbi[h]]
  BY DEF FreeCallbackInfo
<1>4. HandlersOK'
  BY <1>3 DEF HandlersOK
<1> QED BY <1>2, <1>4

LEMMA HandlerReturnsKeeps ==
  ASSUME CellsGood, HandlersOK, NEW h \in Handler, HandlerReturns(h),
         UNCHANGED <<boxes, cl, leaked>>
  PROVE  CellsGood' /\ HandlersOK'
<1> DEFINE hs == {h} \ connected
<1>1. /\ hs \in SUBSET Handler /\ hs \subseteq connected \cup running
      /\ FreeCallbackInfo(hs) /\ proxy' = proxy
      /\ connected' \cup running' \subseteq (connected \cup running) \ hs
  BY DEF HandlerReturns
<1> HIDE DEF hs
<1> QED BY <1>1, FreeKeeps

LEMMA DisconnectedKeeps ==
  ASSUME CellsGood, HandlersOK, NEW ds \in SUBSET connected, Disconnected(ds),
         UNCHANGED <<boxes, cl, leaked, proxy, running>>
  PROVE  CellsGood' /\ HandlersOK'
<1> DEFINE hs == ds \ running
<1>1. /\ hs \in SUBSET Handler /\ hs \subseteq connected \cup running
      /\ FreeCallbackInfo(hs)
      /\ connected' \cup running' \subseteq (connected \cup running) \ hs
  BY DEF Disconnected, HandlersOK
<1> HIDE DEF hs
<1> QED BY <1>1, FreeKeeps

LEMMA CellsKeep ==
  ASSUME CellsGood, UNCHANGED <<registry, boxes, cl, leaked, cbi>>
  PROVE  CellsGood'
<1>1. Cells' = Cells
  BY ClosureCellSame, CellsSame
<1> QED BY <1>1 DEF CellsGood

(* The collector finds the proxy of an object in the registry as long as   *)
(* there is a callback_info that leads to it.                              *)
LEMMA ProxyKept ==
  ASSUME CellsGood, HandlersOK, NEW h \in Handler, cbi[h] # NULL
  PROVE  /\ cbi[h].object_ref \in 1..MaxRef
         /\ registry[cbi[h].object_ref] = cbi[h].o
<1> DEFINE y == <<h, "object", cbi[h].object_ref, cbi[h].o>>
<1>1. y \in HandlerCells(h) /\ y[3] = cbi[h].object_ref /\ y[4] = cbi[h].o
  BY DEF HandlerCells
<1> HIDE DEF y
<1>2. y \in Cells
  BY <1>1, InCells
<1> QED BY <1>1, <1>2 DEF CellsGood, Good, CellsOK

LEMMA CollectProxyKeeps ==
  ASSUME CellsGood, HandlersOK, NEW o \in Object, CollectProxy(o),
         UNCHANGED <<boxes, cl, leaked>>
  PROVE  CellsGood' /\ HandlersOK'
<1>1. \A h \in Handler : cbi[h] # NULL => cbi[h].o # o
  BY ProxyKept DEF CollectProxy
<1>2. /\ proxy' \in [Object -> {"held", "dropped", "none"}]
      /\ \A x \in Object \ {o} : proxy'[x] = proxy[x]
      /\ running' = running
  BY DEF CollectProxy, HandlersOK
<1>3. CASE o \in libref
  <2>1. UNCHANGED <<registry, cbi, connected>>
    BY <1>3 DEF CollectProxy
  <2>2. CellsGood'
    BY <2>1, CellsKeep
  <2>3. HandlersOK'
    <3>1. \A h \in Handler : cbi[h] # NULL => cbi[h].o \in Object \ {o}
      BY <1>1 DEF HandlersOK, InfoRecord
    <3> QED BY <1>2, <2>1, <3>1 DEF HandlersOK
  <2> QED BY <2>2, <2>3
<1>4. CASE o \notin libref
  <2>1. Disconnected(OfObject(o))
    BY <1>4 DEF CollectProxy
  <2>2. OfObject(o) = {}
    BY <1>1 DEF OfObject, HandlersOK
  <2>3. FreeCallbackInfo({}) /\ connected' = connected
    BY <2>1, <2>2 DEF Disconnected
  <2>4. CellsGood'
    BY <2>3, FreeCallbackInfoGood
  <2>5. cbi' = cbi
    BY <2>3 DEF FreeCallbackInfo, HandlersOK
  <2>6. HandlersOK'
    <3>1. \A h \in Handler : cbi[h] # NULL => cbi[h].o \in Object \ {o}
      BY <1>1 DEF HandlersOK, InfoRecord
    <3> QED BY <1>2, <2>3, <2>5, <3>1 DEF HandlersOK
  <2> QED BY <2>4, <2>6
<1> QED BY <1>3, <1>4

LEMMA CallbackStepKeeps ==
  ASSUME CellsGood, HandlersOK, CallbackStep
  PROVE  CellsGood' /\ HandlersOK'
<1>1. UNCHANGED <<boxes, cl, leaked>> /\ CallbackNext
  BY DEF CallbackStep, boxedVars, closureVars
<1>2. ASSUME NEW h \in Handler, Emit(h)
      PROVE  CellsGood' /\ HandlersOK'
  <2>1. /\ UNCHANGED <<registry, cbi, connected, proxy>>
        /\ running' = running \cup {h} /\ h \in connected
    BY <1>2 DEF Emit
  <2>2. HandlersOK'
    BY <2>1 DEF HandlersOK
  <2> QED BY <1>1, <2>1, <2>2, CellsKeep
<1>3. ASSUME NEW h \in Handler, Disconnect(h)
      PROVE  CellsGood' /\ HandlersOK'
  <2>1. Disconnected({h}) /\ {h} \in SUBSET connected /\ UNCHANGED <<proxy, running>>
    BY <1>3 DEF Disconnect
  <2> QED BY <1>1, <2>1, DisconnectedKeeps
<1>4. ASSUME NEW o \in Object, Dispose(o)
      PROVE  CellsGood' /\ HandlersOK'
  <2>1. /\ Disconnected(OfObject(o)) /\ OfObject(o) \in SUBSET connected
        /\ UNCHANGED <<proxy, running>>
    BY <1>4 DEF Dispose, OfObject
  <2> QED BY <1>1, <2>1, DisconnectedKeeps
<1>5. ASSUME NEW o \in Object, NEW s \in {"held", "dropped"},
             proxy' = [proxy EXCEPT ![o] = s],
             UNCHANGED <<registry, cbi, connected, running>>
      PROVE  CellsGood' /\ HandlersOK'
  <2>1. /\ proxy' \in [Object -> {"held", "dropped", "none"}] /\ proxy'[o] = s
        /\ \A x \in Object \ {o} : proxy'[x] = proxy[x]
    BY <1>5 DEF HandlersOK
  <2>2. \A h \in Handler : cbi[h] # NULL => cbi[h].o \in Object
    BY DEF HandlersOK, InfoRecord
  <2>3. HandlersOK'
    BY <1>5, <2>1, <2>2 DEF HandlersOK
  <2> QED BY <1>1, <1>5, <2>3, CellsKeep
<1>6. ASSUME NEW o \in Object, DropProxy(o)
      PROVE  CellsGood' /\ HandlersOK'
  BY <1>5, <1>6 DEF DropProxy
<1>7. ASSUME NEW h \in Handler, Receive(h)
      PROVE  CellsGood' /\ HandlersOK'
  <2>1. cbi[h].o \in Object
    BY <1>7 DEF Receive, HandlersOK, InfoRecord
  <2> QED BY <1>5, <1>7, <2>1 DEF Receive
<1> QED BY <1>1, <1>2, <1>3, <1>4, <1>6, <1>7, ConnectKeeps,
           HandlerReturnsKeeps, CollectProxyKeeps DEF CallbackNext

LEMMA TooltipKeeps ==
  ASSUME TooltipReleased, CallbackStep
  PROVE  TooltipReleased'
<1>1. ASSUME UNCHANGED <<tip, tiprefs>>, running \subseteq running'
      PROVE  TooltipReleased'
  BY <1>1 DEF TooltipReleased
<1>2. ASSUME NEW h \in Handler, Emit(h)
      PROVE  TooltipReleased'
  <2>1. tip' <=> (tip \/ h \in Tooltip)
    BY <1>2, Zenon DEF Emit
  <2>2. /\ running' = running \cup {h}
        /\ tiprefs' = IF h \in Tooltip /\ ~tip THEN tiprefs + 1 ELSE tiprefs
    BY <1>2, Zenon DEF Emit
  <2> QED BY <2>1, <2>2 DEF TooltipReleased
<1>3. ASSUME NEW h \in Handler, HandlerReturns(h)
      PROVE  TooltipReleased'
  <2>1. tip' <=> (tip /\ h \notin Tooltip)
    BY <1>3, Zenon DEF HandlerReturns
  <2>2. /\ running' = running \ {h}
        /\ tiprefs' = IF h \in Tooltip /\ tip THEN tiprefs - 1 ELSE tiprefs
    BY <1>3, Zenon DEF HandlerReturns
  <2> QED BY <2>1, <2>2 DEF TooltipReleased
<1> QED BY <1>1, <1>2, <1>3 DEF CallbackStep, CallbackNext, Connect, Disconnect,
           Receive, Dispose, DropProxy, CollectProxy

-----------------------------------------------------------------------------
LEMMA RInvInit == Init => RInv
<1> SUFFICES ASSUME Init
             PROVE  RInv
  OBVIOUS
<1>1. /\ registry = [i \in 0..MaxRef |-> IF i = 0 THEN 0 ELSE NULL]
      /\ boxes = [b \in Box |-> NULL] /\ cl = [c \in Closure |-> NULL]
      /\ cbi = [h \in Handler |-> NULL] /\ leaked = {}
      /\ connected = {} /\ running = {} /\ tip = FALSE /\ tiprefs = 0
      /\ proxy = [o \in Object |-> "held"]
  BY DEF Init, RegistryInit, BoxedInit, ClosureInit, CallbackInit
<1>2. Cells = {}
  <2>1. \A b \in Box : BoxCell(b) = {}
    BY <1>1 DEF BoxCell
  <2>2. \A c \in Closure : ClosureCell(c) = {}
    BY <1>1 DEF ClosureCell, Live
  <2>3. \A h \in Handler : HandlerCells(h) = {}
    BY <1>1 DEF HandlerCells
  <2> QED BY <2>1, <2>2, <2>3, InCells
<1>3. ListOK(registry)
  <2>1. /\ registry \in [0..MaxRef -> Things \cup {NULL} \cup 0..MaxRef]
        /\ registry[0] = 0 /\ \A i \in 1..MaxRef : registry[i] = NULL
    BY <1>1, ThingFacts
  <2>2. \A i \in 0..MaxRef : registry[i] \in 0..MaxRef => registry[i] = 0
    BY <2>1, ThingFacts
  <2>3. \E n \in 0..MaxRef : \A i \in 1..MaxRef : registry[i] # NULL <=> i <= n
    <3>1. \A i \in 1..MaxRef : registry[i] # NULL <=> i <= 0
      BY <2>1
    <3>2. 0 \in 0..MaxRef
      BY ThingFacts
    <3> QED BY <3>1, <3>2
  <2>4. \A i \in 0..MaxRef : registry[i] \in 0..MaxRef /\ registry[i] # 0 => FreeCell(registry, registry[i])
    BY <2>2
  <2>5. \A i, j \in 0..MaxRef :
          registry[i] = registry[j] /\ registry[i] \in 0..MaxRef /\ registry[i] # 0 => i = j
    BY <2>2
  <2>6. registry[0] \in 0..MaxRef
    BY <2>1, ThingFacts
  <2> QED BY <2>1, <2>3, <2>4, <2>5, <2>6 DEF ListOK
<1>4. CellsGood
  <2>1. \A i \in 1..MaxRef : registry[i] \notin Things
    BY <1>1, ThingFacts
  <2> QED BY <1>2, <1>3, <2>1 DEF CellsGood, Good, CellsOK, LostOK
<1>5. BoxesOK /\ HandlersOK /\ TooltipReleased
  BY <1>1 DEF BoxesOK, Boxes, HandlersOK, TooltipReleased
<1> QED BY <1>4, <1>5, CInvInit DEF RInv

LEMMA RInvKeeps ==
  ASSUME ~TakesBoxes, RInv, [Next]_vars
  PROVE  RInv'
<1>1. CInv'
  BY NextKeeps DEF RInv
<1>2. CASE BoxedStep
  <2>1. UNCHANGED callbackVars
    BY <1>2 DEF BoxedStep
  <2> QED BY <1>1, <1>2, <2>1, BoxedStepKeeps, HandlersSame DEF RInv
<1>3. ASSUME UNCHANGED boxedVars
      PROVE  BoxesOK'
  BY <1>3 DEF boxedVars, RInv, BoxesOK, Boxes
<1>4. CASE ClosureStep
  <2>1. UNCHANGED callbackVars /\ UNCHANGED boxedVars
    BY <1>4 DEF ClosureStep
  <2> QED BY <1>1, <1>3, <1>4, <2>1, ClosureStepKeeps, HandlersSame DEF RInv
<1>5. CASE CallbackStep
  <2>1. UNCHANGED boxedVars
    BY <1>5 DEF CallbackStep
  <2> QED BY <1>1, <1>3, <1>5, <2>1, CallbackStepKeeps, TooltipKeeps DEF RInv
<1>6. CASE UNCHANGED vars
  <2>1. UNCHANGED <<registry, cl, leaked>> /\ UNCHANGED callbackVars /\ UNCHANGED boxedVars
    BY <1>6 DEF vars, closureVars
  <2> QED BY <1>1, <1>3, <2>1, ClosuresSame, HandlersSame DEF RInv
<1> QED BY <1>2, <1>4, <1>5, <1>6 DEF Next

(* What RefsOwned lists are the cells without the roles. *)
LEMMA OwnedIs ==
  ASSUME BoxesOK, NEW x \in Owned
  PROVE  \E y \in Cells : x = <<y[1], y[3], y[4]>>
<1>1. CASE x \in BoxRefs
  <2>1. PICK b \in Boxes : boxes[b].value # NIL
                           /\ x = <<b, boxes[b].ref, boxes[b].value>>
    BY <1>1 DEF BoxRefs
  <2> DEFINE y == <<b, "box", boxes[b].ref, boxes[b].value>>
  <2>2. y \in BoxCell(b) /\ b \in Box
    BY <2>1 DEF BoxCell, Boxes
  <2>3. y \in Cells /\ x = <<y[1], y[3], y[4]>>
    BY <2>1, <2>2, InCells
  <2> QED BY <2>3
<1>2. CASE x \in ClosureRefs
  <2>1. PICK c \in Closure : Live(c) /\ x = <<c, cl[c].func_ref, cl[c].func>>
    BY <1>2 DEF ClosureRefs
  <2> DEFINE y == <<c, "closure", cl[c].func_ref, cl[c].func>>
  <2>2. y \in ClosureCell(c)
    BY <2>1 DEF ClosureCell
  <2>3. y \in Cells /\ x = <<y[1], y[3], y[4]>>
    BY <2>1, <2>2, InCells
  <2> QED BY <2>3
<1>3. CASE x \in HandlerRefs
  <2>1. PICK h \in Handler :
          /\ cbi[h] # NULL
          /\ \/ x = <<h, cbi[h].handler_ref, cbi[h].f>>
             \/ x = <<h, cbi[h].object_ref, cbi[h].o>>
             \/ cbi[h].a # NULL /\ x = <<h, cbi[h].args_ref, cbi[h].a>>
    BY <1>3 DEF HandlerRefs
  <2>2. PICK y \in HandlerCells(h) : x = <<y[1], y[3], y[4]>>
    <3> DEFINE u == <<h, "handler", cbi[h].handler_ref, cbi[h].f>>
               v == <<h, "object", cbi[h].object_ref, cbi[h].o>>
               w == <<h, "args", cbi[h].args_ref, cbi[h].a>>
    <3>1. /\ u \in HandlerCells(h) /\ v \in HandlerCells(h)
          /\ cbi[h].a # NULL => w \in HandlerCells(h)
      BY <2>1 DEF HandlerCells
    <3> QED BY <2>1, <3>1
  <2>3. y \in Cells
    BY <2>2, InCells
  <2> QED BY <2>2, <2>3
<1> QED BY <1>1, <1>2, <1>3 DEF Owned

LEMMA CellsAre ==
  ASSUME BoxesOK, NEW y \in Cells
  PROVE  <<y[1], y[3], y[4]>> \in Owned
<1>1. CASE \E b \in Box : y \in BoxCell(b)
  <2>1. PICK b \in Box : y \in BoxCell(b)
    BY <1>1
  <2>2. /\ boxes[b] # NULL /\ boxes[b].value # NIL
        /\ y = <<b, "box", boxes[b].ref, boxes[b].value>>
    BY <2>1 DEF BoxCell
  <2>3. b \in {x \in Boxes : ~boxes[x].freed /\ boxes[x].value # NIL}
    BY <2>2 DEF BoxesOK, Boxes
  <2>4. <<b, boxes[b].ref, boxes[b].value>> \in BoxRefs
    BY <2>3 DEF BoxRefs
  <2> QED BY <2>2, <2>4 DEF Owned
<1>2. CASE \E c \in Closure : y \in ClosureCell(c)
  <2>1. PICK c \in Closure : y \in ClosureCell(c)
    BY <1>2
  <2>2. Live(c) /\ y = <<c, "closure", cl[c].func_ref, cl[c].func>>
    BY <2>1 DEF ClosureCell
  <2>3. <<c, cl[c].func_ref, cl[c].func>> \in ClosureRefs
    BY <2>2 DEF ClosureRefs
  <2> QED BY <2>2, <2>3 DEF Owned
<1>3. CASE \E h \in Handler : y \in HandlerCells(h)
  <2>1. PICK h \in Handler : y \in HandlerCells(h)
    BY <1>3
  <2>2. /\ cbi[h] # NULL
        /\ \/ y = <<h, "handler", cbi[h].handler_ref, cbi[h].f>>
           \/ y = <<h, "object", cbi[h].object_ref, cbi[h].o>>
           \/ cbi[h].a # NULL /\ y = <<h, "args", cbi[h].args_ref, cbi[h].a>>
    BY <2>1 DEF HandlerCells
  <2>3. <<y[1], y[3], y[4]>> \in HandlerRefs
    BY <2>2 DEF HandlerRefs
  <2> QED BY <2>3 DEF Owned
<1> QED BY <1>1, <1>2, <1>3, InCells

(* The registry keeps what closures, boxes and handlers have references    *)
(* to, each in a cell of its own, and nothing else but what collected      *)
(* closures lost, if the library does not free boxes it was given          *)
(* (luaL_ref and luaL_unref in boxed.c, closure.c, callback.c).            *)
THEOREM Refs_Owned ==
  ASSUME ~TakesBoxes
  PROVE  Spec => []RefsOwned
<1>1. Init => RInv
  BY RInvInit
<1>2. RInv /\ [Next]_vars => RInv'
  BY RInvKeeps
<1>3. RInv => RefsOwned
  <2> SUFFICES ASSUME RInv
               PROVE  RefsOwned
    OBVIOUS
  <2>1. BoxesOK /\ TooltipReleased /\ CellsOK(registry, Cells) /\ LostOK(registry, Cells, leaked)
    BY DEF RInv, CellsGood, Good
  <2>2. ASSUME NEW x \in Owned, NEW z \in Owned, x[2] = z[2]
        PROVE  x = z
    <3>1. PICK y \in Cells : x = <<y[1], y[3], y[4]>>
      BY <2>1, OwnedIs
    <3>2. PICK w \in Cells : z = <<w[1], w[3], w[4]>>
      BY <2>1, OwnedIs
    <3>3. y = w
      BY <2>1, <2>2, <3>1, <3>2 DEF CellsOK
    <3> QED BY <3>1, <3>2, <3>3
  <2>3. ASSUME NEW x \in Owned
        PROVE  registry[x[2]] = x[3]
    <3>1. PICK y \in Cells : x = <<y[1], y[3], y[4]>>
      BY <2>1, OwnedIs
    <3> QED BY <2>1, <3>1 DEF CellsOK
  <2>4. ASSUME NEW i \in 1..MaxRef, registry[i] \in Things, i \notin leaked
        PROVE  \E x \in Owned : x[2] = i
    <3>1. PICK y \in Cells : y[3] = i
      BY <2>1, <2>4 DEF LostOK
    <3>2. <<y[1], y[3], y[4]>> \in Owned
      BY <2>1, CellsAre
    <3> QED BY <3>1, <3>2
  <2> QED BY <2>1, <2>2, <2>3, <2>4 DEF RefsOwned
<1> QED BY <1>1, <1>2, <1>3, PTL DEF Spec

(* A handler that a signal can call, or that runs, finds its function, its *)
(* object and its extra arguments, whatever closures and boxes do with the *)
(* registry meanwhile (glib_connect, _free_callback_info, callback.c).     *)
THEOREM Handlers_Served ==
  ASSUME ~TakesBoxes
  PROVE  Spec => []HandlersServed
<1>1. Init => RInv
  BY RInvInit
<1>2. RInv /\ [Next]_vars => RInv'
  BY RInvKeeps
<1>3. RInv => HandlersServed
  <2> SUFFICES ASSUME RInv, NEW h \in connected \cup running
               PROVE  /\ cbi[h] # NULL
                      /\ RawGet(registry, cbi[h].handler_ref) = cbi[h].f
                      /\ RawGet(registry, cbi[h].object_ref) = cbi[h].o
                      /\ cbi[h].a # NULL => RawGet(registry, cbi[h].args_ref) = cbi[h].a
                      /\ proxy[cbi[h].o] # "none"
    BY DEF HandlersServed
  <2>1. h \in Handler /\ cbi[h] # NULL /\ proxy[cbi[h].o] # "none"
    BY DEF RInv, HandlersOK
  <2>2. ASSUME NEW y \in HandlerCells(h)
        PROVE  RawGet(registry, y[3]) = y[4]
    <3>1. y \in Cells
      BY <2>1, InCells
    <3>2. y[3] \in 1..MaxRef /\ registry[y[3]] = y[4]
      BY <3>1 DEF RInv, CellsGood, Good, CellsOK
    <3> QED BY <3>2, ThingFacts DEF RawGet, LUA_REFNIL
  <2> DEFINE u == <<h, "handler", cbi[h].handler_ref, cbi[h].f>>
             v == <<h, "object", cbi[h].object_ref, cbi[h].o>>
             w == <<h, "args", cbi[h].args_ref, cbi[h].a>>
  <2>3. /\ u \in HandlerCells(h) /\ v \in HandlerCells(h)
        /\ cbi[h].a # NULL => w \in HandlerCells(h)
    BY <2>1 DEF HandlerCells
  <2>4. /\ u[3] = cbi[h].handler_ref /\ u[4] = cbi[h].f
        /\ v[3] = cbi[h].object_ref /\ v[4] = cbi[h].o
        /\ w[3] = cbi[h].args_ref /\ w[4] = cbi[h].a
    OBVIOUS
  <2> HIDE DEF u, v, w
  <2> QED BY <2>1, <2>2, <2>3, <2>4
<1> QED BY <1>1, <1>2, <1>3, PTL DEF Spec
=============================================================================
