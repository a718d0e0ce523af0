------------------------------ MODULE Modules -------------------------------
(***************************************************************************)
(* Modules, types and functions (src/gnome/data.c, lg_generic_index of     *)
(* init.c).  A module lists its types: native ones, and others that        *)
(* another module defines, known by the hash value of their name.          *)
(* gnome.typemap leads from the names to the module that defines them.     *)
(* Modules are loaded by Lua's require, the modules they depend on first,  *)
(* others when one of their types is used.                                 *)
(*                                                                         *)
(* lg_make_func_name builds the names of functions, "gtk_vbox_pack_start"  *)
(* from "GtkVBox" and "pack_start"; here FuncName gives them.              *)
(***************************************************************************)
EXTENDS HashTable

CONSTANTS
  Module,      (* the modules                                              *)
  Depends,     (* the modules each depends on, a sequence                  *)
  Incompatible,(* modules made for another version of the API              *)
  TypeName,    (* names of types; the classes are among them               *)
  Native,      (* the types a module defines                               *)
  Fundamental, (* types any module may define                              *)
  Foreign,     (* the types of others that a module uses                   *)
  Provider,    (* the module that is named with a foreign type, or NULL    *)
  Class, Attr, (* classes and interfaces; names of methods and fields      *)
  Name,        (* names of functions                                       *)
  FuncName,    (* the name for a class and a method; NULL if too long      *)
  Complete,    (* bound: function names that the program writes completely *)
  Listed,      (* the functions of a module, in the order of their list    *)
  HashValue,   (* what the hash function makes of a name                   *)
  Alias,       (* the real name of a function, for aliases                 *)
  Symbols,     (* what the dynamic libraries contain                       *)
  Overrides,   (* functions that modules replace                           *)
  NULL

ASSUME ModulesAssumption ==
  /\ NULL \notin Module \cup TypeName \cup Class \cup Attr \cup Name
  /\ FuncName \in [Class \X Attr -> Name \cup {NULL}]
  /\ Class \subseteq TypeName /\ Complete \subseteq Name
  /\ Depends \in [Module -> Seq(Module)]
  /\ Native \in [Module -> SUBSET TypeName]
  /\ Foreign \in [Module -> SUBSET TypeName]
  /\ NotFound \notin Name
  /\ Overrides \in [Module -> SUBSET Name]
  /\ Provider \in [TypeName -> Module \cup {NULL}]

(* Only fundamental types are defined by several modules, and what a       *)
(* module uses of others is defined by one it depends on or by the one     *)
(* that is named with the type.                                            *)
ASSUME TypesAssumption ==
  /\ \A m, n \in Module : m # n => Native[m] \cap Native[n] \subseteq Fundamental
  /\ \A m \in Module : \A t \in Foreign[m] :
       \/ \E j \in 1..Len(Depends[m]) : t \in Native[Depends[m][j]]
       \/ Provider[t] # NULL /\ t \in Native[Provider[t]]

(* Names differ in the bits of the hash value that are compared, and links *)
(* have room for the number of a bucket.                                   *)
ASSUME HashAssumption ==
  /\ \A n \in Name : HashValue[n] \in Nat
  /\ Listed \in [Module -> Seq(Name)]
  /\ \A a, b \in Name : High(HashValue[a]) = High(HashValue[b]) => a = b
  /\ \A m \in Module : Len(Listed[m]) \in 1..(2^LowBits - 1)
  /\ \A m \in Module : \A i, j \in 1..Len(Listed[m]) :
       Listed[m][i] = Listed[m][j] => i = j

VARIABLES
  package,     (* package.loaded: what require knows of a module           *)
  loading,     (* the modules that are being loaded, and how many of their *)
               (* dependencies are; the last one runs                      *)
  modules,     (* the registered modules, in the order of module_idx       *)
  typemap,     (* gnome.typemap                                            *)
  mtable       (* the global table of each module                          *)

moduleVars == <<package, loading, modules, typemap, mtable>>

ModulesInit ==
  /\ package = [m \in Module |-> "no"]
  /\ loading = <<>>
  /\ modules = <<>>
  /\ typemap = [t \in TypeName |-> NULL]
  /\ mtable = [m \in Module |-> NULL]

Registered == {modules[i] : i \in 1..Len(modules)}

-----------------------------------------------------------------------------
(* Lua's require; a module that failed is not tried again.                 *)
Require(m) ==
  /\ loading = <<>> /\ package[m] = "no"
  /\ package' = [package EXCEPT ![m] = "loading"]
  /\ loading' = <<[module |-> m, done |-> 0]>>
  /\ UNCHANGED <<modules, typemap, mtable>>

(* lg_register_module runs for this one. *)
Current == loading[Len(loading)]

(* An error leaves all the calls of require. *)
Fails ==
  /\ package' = [m \in Module |->
                   IF \E i \in 1..Len(loading) : loading[i].module = m
                   THEN "failed" ELSE package[m]]
  /\ loading' = <<>>

(* Another version of the API. *)
CheckFails ==
  /\ loading # <<>> /\ Current.module \in Incompatible
  /\ Fails
  /\ UNCHANGED <<modules, typemap, mtable>>

(* The next dependency is there already, or loaded first, or fails: also   *)
(* if it is being loaded, for then it depends on itself.                   *)
Dependency == Depends[Current.module][Current.done + 1]

Depended ==
  /\ loading # <<>> /\ Current.module \notin Incompatible
  /\ Current.done < Len(Depends[Current.module])

DependencyThere_Failed ==
  /\ Depended /\ package[Dependency] # "no"
  /\ loading' = [loading EXCEPT ![Len(loading)].done = @ + 1]
  /\ UNCHANGED <<package, modules, typemap, mtable>>

DependencyThere ==
  /\ Depended /\ package[Dependency] = "yes"
  /\ loading' = [loading EXCEPT ![Len(loading)].done = @ + 1]
  /\ UNCHANGED <<package, modules, typemap, mtable>>

RequireDependency ==
  /\ Depended /\ package[Dependency] = "no"
  /\ package' = [package EXCEPT ![Dependency] = "loading"]
  /\ loading' = Append(loading, [module |-> Dependency, done |-> 0])
  /\ UNCHANGED <<modules, typemap, mtable>>

DependencyFails ==
  /\ Depended /\ package[Dependency] \in {"loading", "failed"}
  /\ Fails
  /\ UNCHANGED <<modules, typemap, mtable>>

(* _update_typemap_hash: a fundamental type stays with the first module.   *)
(* Any other type that is there already is a collision, which is reported  *)
(* after the entry was overwritten.                                        *)
Updated(m) ==
  [t \in TypeName |->
     IF t \in Native[m] /\ (t \in Fundamental => typemap[t] = NULL)
     THEN m ELSE typemap[t]]

Collides(m) ==
  \E t \in Native[m] \ Fundamental : typemap[t] # NULL

(* The global table of a module, with its overrides.  A key is a function  *)
(* name, complete or without the prefix of the module.                     *)
Key(n, short) == [name |-> n, short |-> short]
ModuleKey == [name : Complete, short : BOOLEAN]

Override(n) == [kind |-> "override", of |-> n, iface |-> NULL]
Closure(n)  == [kind |-> "closure",  of |-> n, iface |-> NULL]

TableKey(m) == ModuleKey \cup {Key(n, FALSE) : n \in Overrides[m]}
TableEntry  == [kind : {"override", "closure"}, of : Name, iface : {NULL}]

ASSUME TableAssumption ==
  /\ NULL \notin TableEntry
  /\ \A m \in Module : NULL \notin [TableKey(m) -> TableEntry \cup {NULL}]

Table(m) ==
  [k \in TableKey(m) |->
     IF ~k.short /\ k.name \in Overrides[m] THEN Override(k.name) ELSE NULL]

(* lg_register_module, after the dependencies. *)
Register ==
  LET m == Current.module IN
    /\ loading # <<>> /\ m \notin Incompatible
    /\ Current.done = Len(Depends[m])
    /\ modules' = Append(modules, m)
    /\ typemap' = Updated(m)
    /\ IF Collides(m)
       THEN Fails /\ UNCHANGED mtable
       ELSE /\ mtable' = [mtable EXCEPT ![m] = Table(m)]
            /\ package' = [package EXCEPT ![m] = "yes"]
            /\ loading' = SubSeq(loading, 1, Len(loading) - 1)

LoadStep ==
  \/ CheckFails
  \/ DependencyThere \/ RequireDependency \/ DependencyFails
  \/ Register

-----------------------------------------------------------------------------
(* lg_find_struct, lg_get_type: the module that has a type of this name.   *)
FindStruct(t) == typemap[t]

(* lg_type_normalize: a type is there, or the module named with it is to   *)
(* be loaded first, or this is an error.                                   *)
Normalized(t) == typemap[t] # NULL
NeedsModule(t) == typemap[t] = NULL /\ Provider[t] # NULL

(* hash_search in the functions of a module: the real name of a function.  *)
Functions ==
  [m \in Module |->
     Buckets([i \in 1..Len(Listed[m]) |->
                [hash  |-> HashValue[Listed[m][i]],
                 value |-> Alias[Listed[m][i]]]])]

HashSearch ==
  [m \in Module |-> [n \in Name |-> Search(Functions[m], HashValue[n])]]

(* lg_find_func: listed, perhaps under another name, and in the libraries. *)
Loads(search, n) ==
  /\ search[n] # NotFound /\ search[search[n]] # NotFound
  /\ search[n] \in Symbols

FindFunc(m, n) == Loads(HashSearch[m], n)

(* The one that is found, or else the other. *)
First(e, f) == IF e # NULL THEN e ELSE f

(* _check_override *)
CheckOverride(m, n) ==
  IF mtable[m] = NULL \/ Key(n, FALSE) \notin DOMAIN mtable[m] THEN NULL
  ELSE mtable[m][Key(n, FALSE)]

(* lg_generic_index for a function: an override has precedence; what is    *)
(* found is kept in the table under the key that was used.                 *)
Found(m, k) ==
  First(CheckOverride(m, k.name),
        IF FindFunc(m, k.name) THEN Closure(k.name) ELSE NULL)

Index(m, k) ==
  /\ loading = <<>> /\ mtable[m] # NULL /\ mtable[m][k] = NULL
  /\ \E e \in {Found(m, k)} \ {NULL} :
       mtable' = [mtable EXCEPT ![m][k] = e]
  /\ UNCHANGED <<package, loading, modules, typemap>>

ModulesNext ==
  \/ \E m \in Module : Require(m) \/ \E k \in ModuleKey : Index(m, k)
  \/ LoadStep

-----------------------------------------------------------------------------
DependsFirst ==
  \A i \in 1..Len(modules), m \in Module :
    (\E j \in 1..Len(Depends[modules[i]]) : Depends[modules[i]][j] = m)
      => \E j \in 1..(i - 1) : modules[j] = m

TypesResolve ==
  /\ \A m \in Registered, t \in TypeName :
       t \in Native[m] \cup Foreign[m] =>
         Normalized(t) \/ (NeedsModule(t) /\ package[Provider[t]] # "yes")
  /\ \A t \in TypeName : typemap[t] # NULL =>
       t \in Native[typemap[t]] /\ typemap[t] \in Registered

(* Every module comes after those it depends on, has its table, and each   *)
(* type it uses leads to the module that defines it, or to one that is     *)
(* still to be loaded (data.c:386, "should not happen").                   *)
ModulesSound ==
  /\ DependsFirst
  /\ TypesResolve
  /\ \A m \in Registered : mtable[m] # NULL /\ package[m] = "yes"
=============================================================================
