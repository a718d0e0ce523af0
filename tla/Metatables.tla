----------------------------- MODULE Metatables -----------------------------
(***************************************************************************)
(* Reading from and assigning to objects (src/gnome/object_meta.c, with    *)
(* the creation of metatables in object.c).  A name is looked up in the    *)
(* environment of the object, then through its class, the interfaces of    *)
(* the class and its base classes: fields of the structure, overrides of   *)
(* the module, functions of the library.  What was found is kept in the    *)
(* metatable of the object's class.                                        *)
(***************************************************************************)
EXTENDS Modules

CONSTANTS
  Object, ClassOf,  (* objects and their classes                           *)
  Lineage,          (* a class and its base classes, a sequence            *)
  Interfaces,       (* the interfaces of a class, a sequence               *)
  ModuleOf,         (* the module of a class                               *)
  Field,            (* fields of structures, pairs of a class and a name   *)
  FieldType,        (* the types of the fields                             *)
  Virtual,          (* names that are in an interface's structure, too     *)
  Value             (* values the program assigns                          *)

ASSUME MetatablesAssumption ==
  /\ NULL \notin Value
  /\ ClassOf \in [Object -> Class]
  /\ ModuleOf \in [Class -> Module]
  /\ \A c \in Class : c \in Native[ModuleOf[c]] \ Fundamental
  /\ Interfaces \in [Class -> Seq(Class)]
  /\ Field \subseteq Class \X Attr
  /\ Attr \cap Complete = {}

(* The base classes of a base class are the ones that follow.              *)
ASSUME LineageAssumption ==
  /\ Lineage \in [Class -> Seq(Class)]
  /\ \A c \in Class :
       /\ Len(Lineage[c]) > 0 /\ Lineage[c][1] = c
       /\ \A i \in 1..Len(Lineage[c]) :
            Lineage[Lineage[c][i]] = SubSeq(Lineage[c], i, Len(Lineage[c]))

VARIABLES
  metatables,  (* gnome._meta_tables, by class: NULL, or the base class    *)
               (* and what is known of each name                           *)
  env,         (* the environment of an object, or NULL: the empty table   *)
               (* that objects share                                       *)
  emptyattr,   (* that table                                               *)
  virtuals,    (* functions set in the interface structures of classes     *)
  alive,       (* objects with a proxy                                     *)
  fault        (* has NULL been dereferenced                               *)

metaVars == <<metatables, env, emptyattr, virtuals, alive, fault>>
vars == <<moduleVars, metaVars>>

(* What the program may write after the dot: a method or field, or the     *)
(* complete name of a function.                                            *)
Item == Attr \cup Complete

None == [k \in Item |-> NULL]

Init ==
  /\ ModulesInit
  /\ metatables = [c \in Class |-> NULL]
  /\ env = [o \in Object |-> NULL]
  /\ emptyattr = None
  /\ virtuals = {}
  /\ alive = {}
  /\ fault = FALSE

-----------------------------------------------------------------------------
(* Meta entries: a field, or a method, perhaps of an interface.            *)
FieldEntry(c, a)  == [kind |-> "field",  of |-> <<c, a>>, iface |-> NULL]
MethodEntry(n, i) == [kind |-> "method", of |-> n, iface |-> i]

IsMetaEntry(e) == e.kind \in {"field", "method"}

(* What is known of a name: also overrides and closures of a module.       *)
ItemEntry == [kind : {"field", "method", "override", "closure"},
              of : Name \cup Field, iface : Class \cup {NULL}]
Metatable == [parent : Class \cup {NULL}, entries : [Item -> ItemEntry \cup {NULL}]]

ASSUME EntriesAssumption == NULL \notin ItemEntry \cup Metatable

(* _get_object_meta: metatables for a class and its base classes, as far   *)
(* as they are known.                                                      *)
Parent(c) == IF Len(Lineage[c]) > 1 THEN Lineage[c][2] ELSE NULL

Meta(c) ==
  [parent  |-> IF Parent(c) # NULL /\ FindStruct(Parent(c)) # NULL
               THEN Parent(c) ELSE NULL,
   entries |-> None]

GetObjectMeta(c) ==
  [d \in Class |->
     IF metatables[d] = NULL
        /\ \E i \in 1..Len(Lineage[c]) :
             /\ Lineage[c][i] = d
             /\ \A j \in 1..(i - 1) : metatables[Lineage[c][j]] = NULL
             /\ \A j \in 1..i : FindStruct(Lineage[c][j]) # NULL
     THEN Meta(d) ELSE metatables[d]]

(* lg_get_object makes a proxy for the object. *)
GetObject(o) ==
  /\ loading = <<>> /\ ~fault /\ o \notin alive
  /\ FindStruct(ClassOf[o]) # NULL
  /\ alive' = alive \cup {o}
  /\ metatables' = GetObjectMeta(ClassOf[o])
  /\ UNCHANGED <<moduleVars, env, emptyattr, virtuals, fault>>

-----------------------------------------------------------------------------
(* _fe_check_struct and _fe_check_function *)
CheckClass(c, a) ==
  LET m == ModuleOf[c]  n == FuncName[c, a] IN
    IF <<c, a>> \in Field THEN FieldEntry(c, a)
    ELSE IF n = NULL THEN NULL
    ELSE First(CheckOverride(m, n),
               IF FindFunc(m, n) THEN MethodEntry(n, NULL) ELSE NULL)

(* _fe_check_interfaces: the first one that is known and has it; a name    *)
(* that is too long ends the search, too.                                  *)
CheckInterface(i, a) ==
  LET m == ModuleOf[i]  n == FuncName[i, a] IN
    First(CheckOverride(m, n),
          IF FindFunc(m, n) THEN MethodEntry(n, i) ELSE NULL)

CheckInterfaces(c, a) ==
  LET ifs  == Interfaces[c]
      Ends == {j \in 1..Len(ifs) :
                 /\ FindStruct(ifs[j]) # NULL
                 /\ FuncName[ifs[j], a] = NULL \/ CheckInterface(ifs[j], a) # NULL}
  IN IF Ends = {} \/ FuncName[ifs[Min(Ends)], a] = NULL THEN NULL
     ELSE CheckInterface(ifs[Min(Ends)], a)

(* What a class has itself, under the name k. *)
Own(c, k) ==
  IF k \in Attr THEN First(CheckClass(c, k), CheckInterfaces(c, k)) ELSE NULL

(* _fe_recurse: the metatables of the class and its base classes; at last  *)
(* a complete function name, in the module of the class itself.            *)
LastTry(c, k) ==
  IF k \in Complete /\ FindFunc(ModuleOf[c], k) THEN MethodEntry(k, NULL)
                                            ELSE NULL

(* With the return code: 2 for what is in a metatable, and for meta        *)
(* entries, 1 for an override that is found the first time.                *)
Result(e, rc) == [entry |-> e, rc |-> rc]
New(e) == Result(e, IF e = NULL THEN 0 ELSE IF IsMetaEntry(e) THEN 2 ELSE 1)

FirstResult(r, s) == IF r.entry # NULL THEN r ELSE s

(* In one class, and in the nearest one that can be reached.               *)
In(c, k) ==
  FirstResult(Result(metatables[c].entries[k], 2), New(Own(c, k)))

Reached(top) ==
  {i \in 1..Len(Lineage[top]) :
     \A j \in 1..(i - 1) : metatables[Lineage[top][j]].parent # NULL}

Recurse(top, k) ==
  LET Having == {i \in Reached(top) : In(Lineage[top][i], k).entry # NULL}
  IN IF Having = {} THEN New(LastTry(top, k))
     ELSE In(Lineage[top][Min(Having)], k)

(* The entry is kept in the metatable of the object's class. *)
Remember_InAll(c, k, e) ==
  [d \in Class |->
     IF metatables[d] = NULL THEN NULL
     ELSE [metatables[d] EXCEPT !.entries[k] = IF @ = NULL THEN e ELSE @]]

Remember(c, k, e) == [metatables EXCEPT ![c].entries[k] = e]

Environment(o) == IF env[o] = NULL THEN emptyattr ELSE env[o]

(* _find_element: the environment first.                                   *)
FindElement(o, k) ==
  IF Environment(o)[k] # NULL THEN Result(NULL, 1) ELSE Recurse(ClassOf[o], k)

(* Its result f is kept. *)
Finds(o, k, f) ==
  /\ loading = <<>> /\ ~fault /\ o \in alive
  /\ metatables' = IF f.entry = NULL THEN metatables
                   ELSE Remember(ClassOf[o], k, f.entry)

(* lg_type_normalize of a field's type: the module that is named with it   *)
(* is loaded first.                                                        *)
Normalizes(e) ==
  IF e # NULL /\ e.kind = "field" /\ NeedsModule(FieldType[e.of])
     /\ package[Provider[FieldType[e.of]]] = "no"
  THEN \E m \in Module : Provider[FieldType[e.of]] = m /\ Require(m)
  ELSE UNCHANGED moduleVars

(* lg_object_index *)
ObjectIndex(o, k, f) ==
  /\ Finds(o, k, f)
  /\ Normalizes(f.entry)
  /\ UNCHANGED <<env, emptyattr, virtuals, alive, fault>>

-----------------------------------------------------------------------------
(* lg_object_newindex, for what is no meta entry: into the environment, a  *)
(* new one if the object has the shared empty table.                       *)
SetEnvironment_Shared(o, k, v, f) ==
  /\ Finds(o, k, f) /\ f.rc # 2
  /\ IF env[o] = NULL
     THEN /\ emptyattr' = [emptyattr EXCEPT ![k] = v]
          /\ UNCHANGED env
     ELSE /\ env' = [env EXCEPT ![o][k] = v]
          /\ UNCHANGED emptyattr
  /\ UNCHANGED <<moduleVars, virtuals, alive, fault>>

SetEnvironment(o, k, v, f) ==
  /\ Finds(o, k, f) /\ f.rc # 2
  /\ IF env[o] = NULL
     THEN env' = [env EXCEPT ![o] = [None EXCEPT ![k] = v]]
     ELSE env' = [env EXCEPT ![o][k] = v]
  /\ UNCHANGED <<moduleVars, emptyattr, virtuals, alive, fault>>

(* _write_meta_entry: a field of the structure.                            *)
Writes(o, k, f) == Finds(o, k, f) /\ f.rc = 2

SetField(o, k, f) ==
  /\ Writes(o, k, f) /\ f.entry.kind = "field"
  /\ Normalizes(f.entry)
  /\ UNCHANGED <<env, emptyattr, virtuals, alive, fault>>

(* _try_overwrite_function: for the interface's structure in the class of  *)
(* the object, if there is one with this name; otherwise an error.         *)
SetVirtual(o, k, f) ==
  LET e == f.entry IN
    /\ Writes(o, k, f) /\ e.kind = "method"
    /\ virtuals' = IF e.of \in Virtual /\ e.iface # NULL
                   THEN virtuals \cup {<<ClassOf[o], e.of>>} ELSE virtuals
    /\ UNCHANGED <<moduleVars, env, emptyattr, alive, fault>>

(* An override is no meta entry: lua_touserdata of a function is NULL.     *)
SetOverride(o, k, f) ==
  /\ Writes(o, k, f) /\ ~IsMetaEntry(f.entry)
  /\ fault' = TRUE
  /\ UNCHANGED <<moduleVars, env, emptyattr, virtuals, alive>>

ObjectNewindex(o, k, v, f) ==
  \/ SetEnvironment(o, k, v, f)
  \/ SetField(o, k, f) \/ SetVirtual(o, k, f) \/ SetOverride(o, k, f)

Access(o, k, f) ==
  \/ ObjectIndex(o, k, f)
  \/ \E v \in Value : ObjectNewindex(o, k, v, f)

Next ==
  \/ ~fault /\ ModulesNext /\ UNCHANGED metaVars
  \/ \E o \in Object : GetObject(o)
  \/ \E o \in Object, k \in Item : Access(o, k, FindElement(o, k))

Spec == Init /\ [][Next]_vars

-----------------------------------------------------------------------------
TypeOK ==
  /\ DOMAIN package = Module /\ Registered \subseteq Module
  /\ \A m \in Module : package[m] = "loading" <=>
       \E i \in 1..Len(loading) : loading[i].module = m
  /\ metatables \in [Class -> Metatable \cup {NULL}]
  /\ \A o \in alive : metatables[ClassOf[o]] # NULL
  /\ virtuals \subseteq Class \X Virtual

(* What a name means, from the constants and the known classes alone.  A   *)
(* function that the program has used through its module means the same as *)
(* a method.                                                               *)
Meaning(e) ==
  <<IF e.kind \in {"method", "closure"} THEN "function" ELSE e.kind, e.of>>

FunctionMeans(c, a) ==
  LET m == ModuleOf[c]  n == FuncName[c, a] IN
    IF n = NULL THEN {}
    ELSE IF n \in Overrides[m] THEN {Meaning(Override(n))}
    ELSE IF FindFunc(m, n) THEN {Meaning(MethodEntry(n, NULL))} ELSE {}

ClassMeans(c, a, known) ==
  LET ifs     == Interfaces[c]
      Decides == {j \in 1..Len(ifs) : ifs[j] \in known /\
                    (FuncName[ifs[j], a] = NULL \/ FunctionMeans(ifs[j], a) # {})}
  IN IF <<c, a>> \in Field THEN {Meaning(FieldEntry(c, a))}
     ELSE IF FunctionMeans(c, a) # {} \/ Decides = {} THEN FunctionMeans(c, a)
     ELSE FunctionMeans(ifs[Min(Decides)], a)

Means(c, a, known) ==
  LET Has == {i \in 1..Len(Lineage[c]) : ClassMeans(Lineage[c][i], a, known) # {}}
  IN IF Has = {} THEN {} ELSE ClassMeans(Lineage[c][Min(Has)], a, known)

Known == {c \in Class : FindStruct(c) # NULL}

(* The classes that are known with a class.                                *)
Foreseen(c) ==
  {d \in Class : \/ d \in Native[ModuleOf[c]]
                 \/ \E j \in 1..Len(Depends[ModuleOf[c]]) :
                      d \in Native[Depends[ModuleOf[c]][j]]}

(* The libraries are such that an interface that comes to be known later   *)
(* hides nothing: it does not change what a class means, except that it    *)
(* may give it a name that neither the class nor a base class had.         *)
Unhidden ==
  \A c \in Class, a \in Attr : \A known, later \in SUBSET Class :
    (Foreseen(c) \subseteq known /\ known \subseteq later) =>
      \/ ClassMeans(c, a, later) = ClassMeans(c, a, known)
      \/ /\ ClassMeans(c, a, known) = {}
         /\ \A i \in 2..Len(Lineage[c]) : ClassMeans(Lineage[c][i], a, later) = {}

HashTablesRight ==
  \A m \in Module, n \in Name :
    HashSearch[m][n] =
      IF \E i \in 1..Len(Listed[m]) : Listed[m][i] = n THEN Alias[n]
                                                    ELSE NotFound

(* Looking up a name gives the same, whatever was looked up before, of     *)
(* objects of this class or another one, and whichever modules have been   *)
(* loaded since: a metatable never hides an override or a nearer method,   *)
(* and what was not found is found as soon as its module is there.  (A     *)
(* complete name leads to that function.)  The hash tables lead every name *)
(* of a function to its own entry, and others to none.                     *)
LookupRight ==
  /\ HashTablesRight
  /\ \A c \in Class, k \in Item :
       (metatables[c] # NULL /\ metatables[c].entries[k] # NULL) =>
         {Meaning(metatables[c].entries[k])} =
           IF k \in Attr THEN Means(c, k, Known) ELSE {<<"function", k>>}

(* What the program stores in an object is seen in that object only: the   *)
(* table that new objects share stays empty (object_meta.c:690).           *)
EnvironmentsPrivate == emptyattr = None

(* _fe_check_metatable returns 2 "for meta entry (only this is allowed in  *)
(* the metatable)" (object_meta.c:95), and what it returns is used as one. *)
NoFault == ~fault
=============================================================================
