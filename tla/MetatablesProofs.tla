-------------------------- MODULE MetatablesProofs --------------------------
(***************************************************************************)
(* Theorems about Metatables: modules are registered soundly, whatever     *)
(* they depend on, fail to load or define, the table that objects share    *)
(* stays empty, hash tables lead to the right entries, and looking up a    *)
(* name gives what it means, whatever was looked up before.                *)
(*                                                                         *)
(* ModulesSound is not inductive.  A module is registered when all its     *)
(* dependencies are there: LoadingOK says so of those that were counted.   *)
(* That no type collides takes the fact that registered modules are not    *)
(* being loaded, hence each package is in one state only.                  *)
(***************************************************************************)
EXTENDS Metatables, SequenceTheorems, FiniteSetTheorems, WellFoundedInduction, TLAPS

Load == [module : Module, done : Nat]

ModulesType ==
  /\ package \in [Module -> {"no", "loading", "yes", "failed"}]
  /\ loading \in Seq(Load)
  /\ modules \in Seq(Module)
  /\ typemap \in [TypeName -> Module \cup {NULL}]
  /\ DOMAIN mtable = Module
  /\ \A m \in Module :
       mtable[m] \in {NULL} \cup [TableKey(m) -> TableEntry \cup {NULL}]

LoadingOK ==
  /\ \A i \in 1..Len(loading) : package[loading[i].module] = "loading"
  /\ \A i, j \in 1..Len(loading) :
       loading[i].module = loading[j].module => i = j
  /\ \A i \in 1..Len(loading) : \A j \in 1..loading[i].done :
       j <= Len(Depends[loading[i].module]) =>
         package[Depends[loading[i].module][j]] = "yes"

RegisteredOK ==
  /\ \A m \in Module : package[m] = "yes" => m \in Registered
  /\ \A m \in Registered :
       /\ mtable[m] # NULL /\ package[m] = "yes"
       /\ \A t \in Native[m] : typemap[t] # NULL

TypemapOK ==
  \A t \in TypeName : typemap[t] # NULL =>
    t \in Native[typemap[t]] /\ typemap[t] \in Registered

MInv == ModulesType /\ LoadingOK /\ RegisteredOK /\ TypemapOK /\ DependsFirst

-----------------------------------------------------------------------------
(* The initial state. *)
LEMMA MInvInit == ModulesInit => MInv
  BY ModulesAssumption, TypesAssumption
     DEF ModulesInit, MInv, ModulesType, LoadingOK, RegisteredOK, TypemapOK,
         DependsFirst, Registered, Load

(* What is registered, with one module more. *)
LEMMA RegisteredAppend ==
  ASSUME modules \in Seq(Module), NEW m \in Module,
         modules' = Append(modules, m)
  PROVE  Registered' = Registered \cup {m}
<1>1. Len(modules') = Len(modules) + 1 /\ Len(modules) \in Nat
  OBVIOUS
<1>2. \A i \in 1..Len(modules) : modules'[i] = modules[i]
  OBVIOUS
<1>3. modules'[Len(modules) + 1] = m
  OBVIOUS
<1> QED BY <1>1, <1>2, <1>3 DEF Registered

(* A module that is not loaded starts to be. *)
LEMMA StartKeeps ==
  ASSUME MInv, NEW m \in Module, package[m] = "no",
         loading' = Append(loading, [module |-> m, done |-> 0]),
         package' = [package EXCEPT ![m] = "loading"],
         UNCHANGED <<modules, typemap, mtable>>
  PROVE  MInv'
<1> DEFINE n == Len(loading)
<1>1. loading \in Seq(Load) /\ [module |-> m, done |-> 0] \in Load /\ n \in Nat
  BY DEF MInv, ModulesType, Load
<1>2. loading' \in Seq(Load) /\ Len(loading') = n + 1
  BY <1>1
<1>3. \A i \in 1..n : loading'[i] = loading[i]
  BY <1>1
<1>4. loading'[n + 1] = [module |-> m, done |-> 0]
  BY <1>1
<1>5. ModulesType'
  BY <1>2 DEF MInv, ModulesType
<1>6. \A i \in 1..n : loading[i] \in Load /\ loading[i].module # m
  BY <1>1 DEF MInv, LoadingOK
<1> HIDE DEF n
<1>7. LoadingOK'
  <2>1. \A i \in 1..(n + 1) : package'[loading'[i].module] = "loading"
    BY <1>1, <1>3, <1>4, <1>6 DEF MInv, LoadingOK, ModulesType, n, Load
  <2>2. \A i, j \in 1..(n + 1) :
          loading'[i].module = loading'[j].module => i = j
    BY <1>1, <1>3, <1>4, <1>6 DEF MInv, LoadingOK, n
  <2>3. \A i \in 1..(n + 1) : \A j \in 1..loading'[i].done :
          j <= Len(Depends[loading'[i].module]) =>
            package'[Depends[loading'[i].module][j]] = "yes"
    BY <1>1, <1>3, <1>4, <1>6 DEF MInv, LoadingOK, ModulesType, n, Load
  <2> QED BY <1>2, <2>1, <2>2, <2>3 DEF LoadingOK
<1>8. RegisteredOK' /\ TypemapOK' /\ DependsFirst'
  BY DEF MInv, RegisteredOK, TypemapOK, DependsFirst, Registered, ModulesType
<1> QED BY <1>5, <1>7, <1>8 DEF MInv

LEMMA RequireKeeps ==
  ASSUME MInv, NEW m \in Module, Require(m)
  PROVE  MInv'
<1>1. Append(loading, [module |-> m, done |-> 0]) = <<[module |-> m, done |-> 0]>>
  BY DEF Require
<1> QED BY <1>1, StartKeeps DEF Require

LEMMA RequireDependencyKeeps ==
  ASSUME MInv, RequireDependency
  PROVE  MInv'
<1>1. Current \in Load
  BY DEF Current, RequireDependency, Depended, MInv, ModulesType
<1>2. Dependency \in Module
  BY <1>1, ModulesAssumption
     DEF Dependency, RequireDependency, Depended, Load
<1> QED BY <1>2, StartKeeps DEF RequireDependency

(* One dependency more is there. *)
LEMMA DependencyThereKeeps ==
  ASSUME MInv, DependencyThere
  PROVE  MInv'
<1> DEFINE n == Len(loading)
<1>1. n \in Nat /\ n >= 1 /\ loading \in Seq(Load)
  BY DEF DependencyThere, Depended, MInv, ModulesType
<1>2. loading[n] \in Load
  BY <1>1
<1>3. PICK l \in Load : l = [module |-> loading[n].module,
                            done |-> loading[n].done + 1]
  <2>1. \A r \in Load : [module |-> r.module, done |-> r.done + 1] \in Load
    BY DEF Load
  <2> QED BY <2>1, <1>2
<1>4. loading' = [loading EXCEPT ![n] = l]
  <2>1. \A r \in Load : [r EXCEPT !.done = r.done + 1]
                          = [module |-> r.module, done |-> r.done + 1]
    BY DEF Load
  <2>3. l = [loading[n] EXCEPT !.done = loading[n].done + 1]
    BY <2>1, <1>2, <1>3
  <2>2. loading' = [loading EXCEPT ![n] =
                   [loading[n] EXCEPT !.done = loading[n].done + 1]]
    BY DEF DependencyThere
  <2> QED BY <2>2, <2>3
<1>5. loading' \in Seq(Load) /\ Len(loading') = n
  BY <1>1, <1>4, ExceptSeq
<1>6. \A i \in 1..n : loading'[i] = IF i = n THEN l ELSE loading[i]
  BY <1>1, <1>4
<1>7. \A i \in 1..n : loading'[i].module = loading[i].module
  BY <1>3, <1>6
<1>8. package[Depends[loading[n].module][loading[n].done + 1]] = "yes"
  BY DEF DependencyThere, Dependency, Current
<1>9. ModulesType'
  BY <1>5 DEF MInv, ModulesType, DependencyThere
<1> HIDE DEF n
<1>10. LoadingOK'
  <2>1. \A i \in 1..n : package'[loading'[i].module] = "loading"
    BY <1>7 DEF MInv, LoadingOK, DependencyThere, n
  <2>2. \A i, j \in 1..n : loading'[i].module = loading'[j].module => i = j
    BY <1>7 DEF MInv, LoadingOK, n
  <2>3. ASSUME NEW i \in 1..n, NEW j \in 1..loading'[i].done,
               j <= Len(Depends[loading'[i].module])
        PROVE  package'[Depends[loading'[i].module][j]] = "yes"
    <3>1. CASE i = n /\ j = loading[n].done + 1
      BY <3>1, <1>7, <1>8 DEF DependencyThere
    <3>2. CASE ~(i = n /\ j = loading[n].done + 1)
      <4>1. j \in 1..loading[i].done
        BY <3>2, <1>1, <1>2, <1>3, <1>6, <2>3 DEF Load
      <4> QED BY <4>1, <1>7, <2>3 DEF MInv, LoadingOK, DependencyThere, n
    <3> QED BY <3>1, <3>2
  <2> QED BY <1>5, <2>1, <2>2, <2>3 DEF LoadingOK
<1>11. RegisteredOK' /\ TypemapOK' /\ DependsFirst'
  BY DEF MInv, RegisteredOK, TypemapOK, DependsFirst, Registered, DependencyThere
<1> QED BY <1>9, <1>10, <1>11 DEF MInv

(* An error, after which nothing is being loaded. *)
LEMMA FailsKeeps ==
  ASSUME MInv, Fails, UNCHANGED <<modules, typemap, mtable>>
  PROVE  MInv'
<1>1. \A m \in Module : package[m] # "loading" =>
        \A i \in 1..Len(loading) : loading[i].module # m
  BY DEF MInv, LoadingOK
<1>2. \A m \in Module : package[m] = "yes" <=> package'[m] = "yes"
  BY <1>1 DEF Fails, MInv, ModulesType
<1>3. ModulesType' /\ LoadingOK'
  BY DEF MInv, ModulesType, LoadingOK, Fails
<1>4. Registered' = Registered /\ Registered \subseteq Module
  BY DEF Registered, MInv, ModulesType
<1>5. RegisteredOK'
  BY <1>2, <1>4 DEF MInv, RegisteredOK
<1>6. TypemapOK' /\ DependsFirst'
  BY <1>4 DEF MInv, TypemapOK, DependsFirst
<1> QED BY <1>3, <1>5, <1>6 DEF MInv

(* The module that is registered has all its dependencies, no type of it   *)
(* is defined by another one, and it gets its table.                       *)
LEMMA RegisterKeeps ==
  ASSUME MInv, Register
  PROVE  MInv'
<1> DEFINE n == Len(loading)
<1>1. n \in Nat /\ n >= 1 /\ loading \in Seq(Load)
  BY DEF Register, MInv, ModulesType
<1>0. loading[n] \in Load
  BY <1>1
<1>2. PICK m \in Module : m = loading[n].module
  BY <1>0 DEF Load
<1>3. loading[n].done = Len(Depends[m]) /\ package[m] = "loading"
  BY <1>1, <1>2 DEF Register, Current, MInv, LoadingOK
<1>4. Registered \subseteq Module
  BY DEF Registered, MInv, ModulesType
<1>5. m \notin Registered
  BY <1>3 DEF MInv, RegisteredOK
<1>6. Depends[m] \in Seq(Module)
  BY ModulesAssumption
<1>7. \A j \in 1..Len(Depends[m]) : Depends[m][j] \in Registered
  <2> SUFFICES ASSUME NEW j \in 1..Len(Depends[m])
               PROVE  Depends[m][j] \in Registered
    OBVIOUS
  <2>1. j \in 1..loading[n].done /\ Depends[m][j] \in Module
    BY <1>3, <1>6
  <2>2. package[Depends[m][j]] = "yes"
    BY <1>1, <1>2, <2>1 DEF MInv, LoadingOK
  <2> QED BY <2>1, <2>2 DEF MInv, RegisteredOK
<1>8. ~Collides(m)
  <2> SUFFICES ASSUME NEW t \in Native[m] \ Fundamental, typemap[t] # NULL
               PROVE  FALSE
    BY DEF Collides
  <2>1. t \in TypeName
    BY ModulesAssumption
  <2>2. t \in Native[typemap[t]] /\ typemap[t] \in Registered
    BY <2>1 DEF MInv, TypemapOK
  <2> QED BY <2>2, <1>4, <1>5, TypesAssumption
<1>9. /\ modules' = Append(modules, m)
      /\ typemap' = Updated(m)
      /\ mtable' = [mtable EXCEPT ![m] = Table(m)]
      /\ package' = [package EXCEPT ![m] = "yes"]
      /\ loading' = SubSeq(loading, 1, n - 1)
  BY <1>2, <1>8 DEF Register, Current
<1>10. Registered' = Registered \cup {m}
  BY <1>9, RegisteredAppend DEF MInv, ModulesType
<1>11. \A k \in Module : package'[k] = IF k = m THEN "yes" ELSE package[k]
  BY <1>9 DEF MInv, ModulesType
<1>12. loading' \in Seq(Load) /\ Len(loading') = n - 1
       /\ \A i \in 1..(n - 1) : loading'[i] = loading[i]
  <2>1. \A i \in 1..(n - 1) : loading[i] \in Load
    BY <1>1
  <2>2. 1 + (n - 1) - 1 = n - 1 /\ 1..n = DOMAIN loading
    BY <1>1
  <2>3. SubSeq(loading, 1, n - 1) = [i \in 1..(n - 1) |-> loading[i]]
    BY <1>1
  <2>4. loading' = [i \in 1..(n - 1) |-> loading[i]] /\ n - 1 \in Nat
    BY <1>1, <1>9, <2>3
  <2> QED BY <2>1, <2>4
<1>13. Table(m) \in [TableKey(m) -> TableEntry \cup {NULL}]
  <2>1. \A k \in TableKey(m) : k.name \in Name
    BY ModulesAssumption DEF TableKey, ModuleKey, Key
  <2>2. \A k \in TableKey(m) : Override(k.name) \in TableEntry
    BY <2>1 DEF Override, TableEntry
  <2> QED BY <2>2 DEF Table
<1>14. ModulesType'
  <2>1. package' \in [Module -> {"no", "loading", "yes", "failed"}]
    BY <1>9 DEF MInv, ModulesType
  <2>2. modules' \in Seq(Module)
    BY <1>9 DEF MInv, ModulesType
  <2>3. typemap' \in [TypeName -> Module \cup {NULL}]
    BY <1>9 DEF MInv, ModulesType, Updated
  <2>4. DOMAIN mtable' = Module /\ \A k \in Module :
          mtable'[k] \in {NULL} \cup [TableKey(k) -> TableEntry \cup {NULL}]
    BY <1>9, <1>13 DEF MInv, ModulesType
  <2> QED BY <1>12, <2>1, <2>2, <2>3, <2>4 DEF ModulesType
<1>15. \A i \in 1..(n - 1) : loading[i].module # m /\ loading[i].module \in Module
  <2> SUFFICES ASSUME NEW i \in 1..(n - 1)
               PROVE  loading[i].module # m /\ loading[i].module \in Module
    OBVIOUS
  <2>1. i \in 1..n /\ n \in 1..n /\ i # n /\ loading[i] \in Load
    BY <1>1
  <2>2. loading[i].module # loading[n].module
    BY <2>1 DEF MInv, LoadingOK
  <2> QED BY <1>2, <2>1, <2>2 DEF Load
<1> HIDE DEF n
<1>16. LoadingOK'
  <2>1. \A i \in 1..(n - 1) : package'[loading'[i].module] = "loading"
    BY <1>1, <1>11, <1>12, <1>15 DEF MInv, LoadingOK, n
  <2>2. \A i, j \in 1..(n - 1) :
          loading'[i].module = loading'[j].module => i = j
    <3>1. \A i, j \in 1..n : loading[i].module = loading[j].module => i = j
      BY DEF MInv, LoadingOK, n
    <3>2. \A i \in 1..(n - 1) : i \in 1..n
      BY <1>1
    <3> QED BY <1>12, <3>1, <3>2
  <2>3. ASSUME NEW i \in 1..(n - 1), NEW j \in 1..loading'[i].done,
               j <= Len(Depends[loading'[i].module])
        PROVE  package'[Depends[loading'[i].module][j]] = "yes"
    <3>1. i \in 1..n /\ loading'[i] = loading[i] /\ loading[i] \in Load
      BY <1>1, <1>12 DEF n
    <3>2. package[Depends[loading[i].module][j]] = "yes"
      BY <2>3, <3>1 DEF MInv, LoadingOK, n
    <3>3. Depends[loading[i].module] \in Seq(Module)
      BY <3>1, ModulesAssumption DEF Load
    <3>4. Depends[loading[i].module][j] \in Module
      BY <2>3, <3>1, <3>3 DEF Load
    <3> QED BY <3>1, <3>2, <3>4, <1>11
  <2> QED BY <1>12, <2>1, <2>2, <2>3 DEF LoadingOK
<1>17. \A t \in TypeName : typemap[t] # NULL => typemap'[t] # NULL
  BY <1>9, ModulesAssumption DEF Updated, MInv, ModulesType
<1>18. \A t \in Native[m] : typemap'[t] # NULL
  BY <1>9, ModulesAssumption DEF Updated, MInv, ModulesType
<1>19. RegisteredOK'
  <2>1. \A k \in Module : package'[k] = "yes" => k \in Registered'
    BY <1>10, <1>11 DEF MInv, RegisteredOK
  <2>2. mtable'[m] # NULL /\ \A k \in Module \ {m} : mtable'[k] = mtable[k]
    BY <1>9, <1>13, TableAssumption DEF MInv, ModulesType
  <2>3. \A k \in Registered' : mtable'[k] # NULL /\ package'[k] = "yes"
    BY <1>4, <1>10, <1>11, <2>2 DEF MInv, RegisteredOK
  <2>4. \A k \in Registered' : \A t \in Native[k] : typemap'[t] # NULL
    BY <1>4, <1>10, <1>17, <1>18, ModulesAssumption DEF MInv, RegisteredOK
  <2> QED BY <2>1, <2>3, <2>4 DEF RegisteredOK
<1>20. TypemapOK'
  <2>1. \A t \in TypeName :
          typemap'[t] = typemap[t] \/ (typemap'[t] = m /\ t \in Native[m])
    BY <1>9 DEF Updated
  <2> QED BY <1>10, <2>1 DEF MInv, TypemapOK
<1>21. DependsFirst'
  <2> SUFFICES ASSUME NEW i \in 1..Len(modules'), NEW d \in Module,
                      NEW j \in 1..Len(Depends[modules'[i]]),
                      Depends[modules'[i]][j] = d
               PROVE  \E k \in 1..(i - 1) : modules'[k] = d
    BY DEF DependsFirst
  <2>1. /\ modules \in Seq(Module)
        /\ Len(modules) \in Nat /\ Len(modules') = Len(modules) + 1
        /\ modules'[Len(modules) + 1] = m
        /\ \A k \in 1..Len(modules) : modules'[k] = modules[k]
    BY <1>9 DEF MInv, ModulesType
  <2>2. CASE i = Len(modules) + 1
    <3>1. d \in Registered
      BY <1>7, <2>1, <2>2
    <3>2. PICK k \in 1..Len(modules) : modules[k] = d
      BY <3>1 DEF Registered
    <3> QED BY <2>1, <2>2, <3>2
  <2>3. CASE i \in 1..Len(modules)
    <3>1. PICK k \in 1..(i - 1) : modules[k] = d
      BY <2>1, <2>3 DEF MInv, DependsFirst
    <3> QED BY <2>1, <2>3, <3>1
  <2> QED BY <2>1, <2>2, <2>3
<1> QED BY <1>14, <1>16, <1>19, <1>20, <1>21 DEF MInv

(* What is found in a module is kept in its table. *)
LEMMA IndexKeeps ==
  ASSUME MInv, NEW m \in Module, NEW k \in ModuleKey, Index(m, k)
  PROVE  MInv'
<1>1. k \in TableKey(m) /\ k.name \in Name
  BY ModulesAssumption DEF TableKey, ModuleKey
<1>2. mtable[m] \in [TableKey(m) -> TableEntry \cup {NULL}]
  BY DEF Index, MInv, ModulesType
<1>3. Found(m, k) \in TableEntry
  <2>1. CheckOverride(m, k.name) \in TableEntry \cup {NULL}
    BY <1>2 DEF CheckOverride
  <2>2. Closure(k.name) \in TableEntry
    BY <1>1 DEF Closure, TableEntry
  <2>3. Found(m, k) # NULL
    BY DEF Index
  <2> QED BY <2>1, <2>2, <2>3 DEF Found, First
<1> DEFINE t == [r \in TableKey(m) |->
                   IF r = k THEN Found(m, k) ELSE mtable[m][r]]
<1>4. t \in [TableKey(m) -> TableEntry \cup {NULL}]
  BY <1>2, <1>3
<1>5. [mtable[m] EXCEPT ![k] = Found(m, k)] = t
  BY <1>1, <1>2
<1>6. mtable' = [mtable EXCEPT ![m] = t]
  BY <1>5 DEF Index
<1> HIDE DEF t
<1>7. t # NULL
  BY <1>4, TableAssumption
<1>8. ModulesType'
  <2>1. DOMAIN mtable' = Module /\ \A q \in Module :
          mtable'[q] \in {NULL} \cup [TableKey(q) -> TableEntry \cup {NULL}]
    BY <1>4, <1>6 DEF MInv, ModulesType
  <2> QED BY <2>1 DEF MInv, ModulesType, Index
<1>9. RegisteredOK'
  <2>1. \A q \in Module : mtable[q] # NULL => mtable'[q] # NULL
    BY <1>6, <1>7 DEF MInv, ModulesType
  <2>2. Registered' = Registered /\ Registered \subseteq Module
    BY DEF Registered, MInv, ModulesType, Index
  <2> QED BY <2>1, <2>2 DEF MInv, RegisteredOK, Index
<1>10. LoadingOK' /\ TypemapOK' /\ DependsFirst'
  BY DEF MInv, LoadingOK, TypemapOK, DependsFirst, Registered, Index
<1> QED BY <1>8, <1>9, <1>10 DEF MInv

-----------------------------------------------------------------------------
(* Every step of the modules. *)
LEMMA ModulesNextKeeps ==
  ASSUME MInv, ModulesNext
  PROVE  MInv'
<1>1. CASE \E m \in Module : Require(m)
  BY <1>1, RequireKeeps
<1>2. CASE \E m \in Module : \E k \in ModuleKey : Index(m, k)
  BY <1>2, IndexKeeps
<1>3. CASE LoadStep
  <2>1. CASE CheckFails
    BY <2>1, FailsKeeps DEF CheckFails
  <2>2. CASE DependencyThere
    BY <2>2, DependencyThereKeeps
  <2>3. CASE RequireDependency
    BY <2>3, RequireDependencyKeeps
  <2>4. CASE DependencyFails
    BY <2>4, FailsKeeps DEF DependencyFails
  <2>5. CASE Register
    BY <2>5, RegisterKeeps
  <2> QED BY <1>3, <2>1, <2>2, <2>3, <2>4, <2>5 DEF LoadStep
<1> QED BY <1>1, <1>2, <1>3 DEF ModulesNext

LEMMA UnchangedKeeps ==
  ASSUME MInv, UNCHANGED moduleVars
  PROVE  MInv'
BY DEF MInv, ModulesType, LoadingOK, RegisteredOK, TypemapOK, DependsFirst,
       Registered, moduleVars

(* Objects load a module when a field needs it, and change nothing else of *)
(* the modules.                                                            *)
LEMMA NormalizesKeeps ==
  ASSUME MInv, NEW e, Normalizes(e)
  PROVE  MInv'
BY RequireKeeps, UnchangedKeeps DEF Normalizes

LEMMA NextKeeps ==
  ASSUME MInv, [Next]_vars
  PROVE  MInv'
<1>1. CASE UNCHANGED vars
  BY <1>1, UnchangedKeeps DEF vars
<1>2. CASE ModulesNext
  BY <1>2, ModulesNextKeeps
<1>3. CASE \E o \in Object : GetObject(o)
  BY <1>3, UnchangedKeeps DEF GetObject
<1>4. ASSUME NEW o \in Object, NEW k \in Item, NEW f, ObjectIndex(o, k, f)
      PROVE  MInv'
  BY <1>4, NormalizesKeeps DEF ObjectIndex
<1>5. ASSUME NEW o \in Object, NEW k \in Item, NEW v \in Value, NEW f,
             ObjectNewindex(o, k, v, f)
      PROVE  MInv'
  <2>1. CASE SetEnvironment(o, k, v, f)
    BY <2>1, UnchangedKeeps DEF SetEnvironment
  <2>2. CASE SetField(o, k, f)
    BY <2>2, NormalizesKeeps DEF SetField
  <2>3. CASE SetVirtual(o, k, f)
    BY <2>3, UnchangedKeeps DEF SetVirtual
  <2>4. CASE SetOverride(o, k, f)
    BY <2>4, UnchangedKeeps DEF SetOverride
  <2> QED BY <1>5, <2>1, <2>2, <2>3, <2>4 DEF ObjectNewindex
<1> QED BY <1>1, <1>2, <1>3, <1>4, <1>5 DEF Next, Access

(* A type that is used by a module and not known yet is of a module that   *)
(* was not loaded, for the dependencies are registered and have put theirs *)
(* into the typemap.                                                       *)
LEMMA MInvTypes == MInv => TypesResolve
<1> SUFFICES ASSUME MInv
             PROVE  TypesResolve
  OBVIOUS
<1>1. Registered \subseteq Module
  BY DEF Registered, MInv, ModulesType
<1>2. ASSUME NEW m \in Registered, NEW t \in Native[m]
      PROVE  Normalized(t)
  BY <1>2 DEF MInv, RegisteredOK, Normalized
<1>3. ASSUME NEW m \in Registered, NEW t \in TypeName, t \in Foreign[m],
             ~Normalized(t)
      PROVE  NeedsModule(t) /\ package[Provider[t]] # "yes"
  <2>1. m \in Module
    BY <1>1
  <2>2. ASSUME NEW j \in 1..Len(Depends[m]), t \in Native[Depends[m][j]]
        PROVE  FALSE
    <3>1. PICK i \in 1..Len(modules) : modules[i] = m
      BY DEF Registered
    <3>2. Depends[m][j] \in Module
      BY <2>1, ModulesAssumption
    <3>3. PICK p \in 1..(i - 1) : modules[p] = Depends[m][j]
      BY <3>1, <3>2 DEF MInv, DependsFirst
    <3>4. Depends[m][j] \in Registered
      <4>1. Len(modules) \in Nat /\ p \in 1..Len(modules)
        BY <3>1, <3>3 DEF MInv, ModulesType
      <4> QED BY <3>3, <4>1 DEF Registered
    <3> QED BY <1>2, <1>3, <2>2, <3>4
  <2>3. Provider[t] # NULL /\ t \in Native[Provider[t]]
    BY <1>3, <2>1, <2>2, TypesAssumption
  <2>4. Provider[t] \in Module
    BY <2>3, ModulesAssumption
  <2>5. package[Provider[t]] # "yes"
    BY <1>2, <1>3, <2>3, <2>4 DEF MInv, RegisteredOK
  <2> QED BY <1>3, <2>3, <2>5 DEF NeedsModule, Normalized
<1> QED BY <1>2, <1>3 DEF TypesResolve, MInv, TypemapOK

(* Modules are registered after those they depend on, with their table,    *)
(* and their types lead to the modules that define them                    *)
(* (lg_register_module, data.c).                                           *)
THEOREM Modules_Sound == Spec => []ModulesSound
<1>1. Init => MInv
  BY MInvInit DEF Init
<1>2. MInv /\ [Next]_vars => MInv'
  BY NextKeeps
<1>3. MInv => ModulesSound
  BY MInvTypes DEF ModulesSound, MInv, RegisteredOK
<1> QED BY <1>1, <1>2, <1>3, PTL DEF Spec

(* No assignment reaches the table that all new objects share              *)
(* (lg_object_newindex, object_meta.c).                                    *)
THEOREM Environments_Private == Spec => []EnvironmentsPrivate
<1>1. Init => EnvironmentsPrivate
  BY DEF Init, EnvironmentsPrivate
<1>2. EnvironmentsPrivate /\ [Next]_vars => EnvironmentsPrivate'
  <2> SUFFICES ASSUME EnvironmentsPrivate, [Next]_vars
               PROVE  emptyattr' = emptyattr
    BY DEF EnvironmentsPrivate, None
  <2> QED BY DEF Next, Access, vars, metaVars, GetObject, ObjectIndex,
                 ObjectNewindex,
                 SetEnvironment, SetField, SetVirtual, SetOverride
<1> QED BY <1>1, <1>2, PTL DEF Spec

-----------------------------------------------------------------------------
(* A set with 0 and every successor has all numbers: subsets of finite     *)
(* sets are well-founded.                                                  *)
LEMMA AllNumbers ==
  ASSUME NEW S, 0 \in S, \A n \in Nat : n \in S => n + 1 \in S
  PROVE  Nat \subseteq S
<1> SUFFICES ASSUME NEW k \in Nat, k \notin S
             PROVE  FALSE
  OBVIOUS
<1> DEFINE below(n) == 0..n
           T == {n \in Nat : n \notin S}
           B == {below(n) : n \in T}
           R == StrictSubsetOrdering(Nat)
<1>1. IsWellFoundedOn(R, FiniteSubsetsOf(Nat))
  BY FS_StrictSubsetOrderingWellFounded
<1>2. ASSUME NEW n \in T
      PROVE  below(n) \in FiniteSubsetsOf(Nat)
  <2>1. IsFiniteSet(0..n)
    BY FS_Interval
  <2> QED BY <2>1 DEF FiniteSubsetsOf
<1>3. B \subseteq FiniteSubsetsOf(Nat) /\ B # {}
  BY <1>2
<1> HIDE DEF B, R
<1>4. PICK b \in B : \A c \in B : <<c, b>> \notin R
  BY <1>1, <1>3, WFMin
<1>5. PICK m \in T : b = below(m)
  BY DEF B
<1>6. m # 0 /\ m - 1 \in Nat /\ (m - 1) + 1 = m
  OBVIOUS
<1>7. m - 1 \in T
  BY <1>6
<1>8. below(m - 1) \in B
  BY <1>7 DEF B
<1>9. below(m - 1) \subseteq below(m) /\ m \in below(m) /\ m \notin below(m - 1)
  BY <1>6
<1>10. <<below(m - 1), below(m)>> \in R
  BY <1>9 DEF R, StrictSubsetOrdering
<1> QED BY <1>4, <1>5, <1>8, <1>10

(* A set of numbers has a least one, and a greatest one if it has a bound. *)
LEMMA LeastMember ==
  ASSUME NEW T, T \subseteq Nat, T # {}
  PROVE  Min(T) \in T /\ \A m \in T : Min(T) <= m
<1> DEFINE Below == {n \in Nat : \A m \in T : n <= m}
<1>1. PICK t \in T : t \in Nat
  OBVIOUS
<1>2. \E m \in T : \A k \in T : m <= k
  <2> SUFFICES ASSUME \A m \in T : \E k \in T : ~(m <= k)
               PROVE  FALSE
    OBVIOUS
  <2>1. 0 \in Below
    OBVIOUS
  <2>2. ASSUME NEW n \in Nat, n \in Below
        PROVE  n + 1 \in Below
    <3> SUFFICES ASSUME NEW m \in T PROVE n + 1 <= m
      OBVIOUS
    <3>1. PICK k \in T : ~(m <= k)
      OBVIOUS
    <3>2. k \in Nat /\ m \in Nat /\ n <= k
      BY <2>2
    <3> QED BY <3>1, <3>2
  <2>3. Nat \subseteq Below
    <3> HIDE DEF Below
    <3> QED BY <2>1, <2>2, AllNumbers
  <2>4. t + 1 \in Below
    BY <1>1, <2>3
  <2> QED BY <1>1, <2>4
<1> QED BY <1>2 DEF Min

LEMMA GreatestMember ==
  ASSUME NEW n \in Nat, NEW T, T \subseteq 1..n, T # {}
  PROVE  Max(T) \in T /\ \A m \in T : m <= Max(T)
<1> DEFINE U == {n - m : m \in T}
<1>1. U \subseteq Nat /\ U # {}
  <2>1. \A m \in T : n - m \in Nat
    OBVIOUS
  <2>2. PICK t : t \in T
    OBVIOUS
  <2>3. n - t \in U
    BY <2>2
  <2> QED BY <2>1, <2>3
<1>2. PICK u : u \in U /\ \A m \in U : u <= m
  <2> HIDE DEF U
  <2> QED BY <1>1, LeastMember
<1>3. PICK t \in T : u = n - t
  BY <1>2
<1>4. ASSUME NEW m \in T PROVE m <= t
  <2>1. n - m \in U
    OBVIOUS
  <2>2. n - t <= n - m
    BY <1>2, <1>3, <2>1
  <2>3. m \in Int /\ t \in Int
    OBVIOUS
  <2> QED BY <2>2, <2>3
<1> QED BY <1>4 DEF Max

(* The numbers of a bucket's bits: as many as it takes.                    *)
LEMMA HashPowers ==
  \A k \in 0..LowBits : 2^k \in Nat \ {0}
<1> DEFINE T == {k \in Nat : k <= LowBits => 2^k \in Nat \ {0}}
<1>0. LowBits \in Nat
  BY HashPowersAssumption
<1>1. 0 \in T
  BY HashPowersAssumption
<1>2. ASSUME NEW k \in Nat, k \in T
      PROVE  k + 1 \in T
  <2> SUFFICES ASSUME k + 1 <= LowBits PROVE 2^(k + 1) \in Nat \ {0}
    OBVIOUS
  <2>1. k \in 0..LowBits
    BY <1>0
  <2>2. 2^(k + 1) = 2 * 2^k
    BY <2>1, HashPowersAssumption
  <2>3. PICK p \in Nat \ {0} : p = 2^k
    BY <1>2, <2>1
  <2> QED BY <2>2, <2>3
<1>3. Nat \subseteq T
  <2> HIDE DEF T
  <2> QED BY <1>1, <1>2, AllNumbers
<1> QED BY <1>0, <1>3

LEMMA BucketRange ==
  ASSUME NEW hash \in Nat, NEW n \in 1..(2^LowBits - 1)
  PROVE  Bucket(hash, n) \in 0..(n - 1)
<1>0. LowBits \in Nat /\ 2^LowBits \in Nat
  <2>1. LowBits \in Nat
    BY HashPowersAssumption
  <2> QED BY <2>1, HashPowers
<1>1. PICK K : K = {k \in 0..LowBits : n - 1 < 2^k}
  OBVIOUS
<1>2. K \subseteq Nat /\ LowBits \in K
  BY <1>0, <1>1
<1>3. PICK k \in K : k = BitsRequired(n - 1) /\ \A m \in K : k <= m
  BY <1>1, <1>2, LeastMember DEF BitsRequired
<1>4. PICK p \in Nat \ {0} : p = 2^k /\ n - 1 < p
  BY <1>1, <1>3, HashPowers
<1>5. p <= 2 * n
  <2>1. CASE k = 0
    <3>1. p = 1
      BY <1>4, <2>1, HashPowersAssumption
    <3> QED BY <1>0, <3>1
  <2>2. CASE k # 0
    <3>1. k - 1 \in 0..LowBits /\ (k - 1) + 1 = k /\ ~(k <= k - 1)
      BY <1>0, <1>1, <2>2
    <3>2. PICK q \in Nat \ {0} : q = 2^(k - 1)
      BY <3>1, HashPowers
    <3>3. 2^((k - 1) + 1) = 2 * 2^(k - 1)
      BY <3>1, HashPowersAssumption
    <3>4. p = 2 * q
      BY <1>4, <3>1, <3>2, <3>3
    <3>5. k - 1 \notin K
      BY <1>3, <3>1
    <3>6. ~(n - 1 < q)
      BY <1>1, <3>1, <3>2, <3>5
    <3> QED BY <1>0, <3>4, <3>6
  <2> QED BY <2>1, <2>2
<1>6. PICK i \in 0..(p - 1) : i = hash % p
  OBVIOUS
<1>7. Bucket(hash, n) = IF i >= n THEN i - n ELSE i
  BY <1>3, <1>4, <1>6 DEF Bucket
<1> QED BY <1>0, <1>5, <1>6, <1>7

(* The numbers of a set, counted from the least: each has a position of    *)
(* its own, and no position is left out.                                   *)
LEMMA Positions ==
  ASSUME NEW S \in SUBSET Nat, IsFiniteSet(S)
  PROVE  /\ Cardinality(S) \in Nat
         /\ \A n \in S : Position(S, n) \in 1..Cardinality(S)
         /\ \A n, m \in S : Position(S, n) = Position(S, m) => n = m
         /\ \A k \in 1..Cardinality(S) : \E n \in S : Position(S, n) = k
<1> DEFINE Upto(n) == {m \in S : m <= n}
           f == [n \in S |-> Position(S, n)]
<1>1. Cardinality(S) \in Nat
  BY FS_CardinalityType
<1>2. ASSUME NEW n \in S
      PROVE  /\ IsFiniteSet(Upto(n)) /\ Position(S, n) = Cardinality(Upto(n))
             /\ Position(S, n) \in 1..Cardinality(S)
  <2>1. Upto(n) \in SUBSET S /\ n \in Upto(n)
    OBVIOUS
  <2>2. IsFiniteSet(Upto(n)) /\ Cardinality(Upto(n)) <= Cardinality(S)
    BY <2>1, FS_Subset
  <2>3. Cardinality(Upto(n)) \in Nat /\ Cardinality(Upto(n)) # 0
    BY <2>1, <2>2, FS_CardinalityType, FS_EmptySet
  <2> QED BY <1>1, <2>2, <2>3 DEF Position
<1>3. ASSUME NEW n \in S, NEW m \in S, n < m
      PROVE  Position(S, n) # Position(S, m)
  <2>0. n \in Nat /\ m \in Nat /\ \A k \in S : k \in Nat
    OBVIOUS
  <2>1. Upto(n) \in SUBSET Upto(m) /\ m \in Upto(m) /\ m \notin Upto(n)
    <3>1. /\ \A k \in S : k <= n => k <= m
          /\ m <= m /\ ~(m <= n)
      BY <1>3, <2>0
    <3> QED BY <3>1
  <2>2. IsFiniteSet(Upto(m))
    BY <1>2
  <2>3. Cardinality(Upto(m)) # Cardinality(Upto(n))
    <3> HIDE DEF Upto
    <3> QED BY <2>1, <2>2, FS_Subset
  <2> QED BY <1>2, <2>3
<1>4. \A n, m \in S : Position(S, n) = Position(S, m) => n = m
  BY <1>3
<1>5. f \in [S -> 1..Cardinality(S)]
  BY <1>2
<1>6. f \in Injection(S, 1..Cardinality(S))
  BY <1>4, <1>5 DEF Injection, IsInjective
<1>7. IsFiniteSet(1..Cardinality(S)) /\ Cardinality(1..Cardinality(S)) = Cardinality(S)
  BY <1>1, FS_Interval
<1>8. f \in Surjection(S, 1..Cardinality(S))
  <2> HIDE DEF f
  <2> QED BY <1>6, <1>7, FS_Injection
<1>9. \A k \in 1..Cardinality(S) : \E n \in S : f[n] = k
  <2> HIDE DEF f
  <2> QED BY <1>8 DEF Surjection
<1> QED BY <1>1, <1>2, <1>4, <1>9

(* Lines whose hash values differ in the bits that are compared, as many   *)
(* as there are numbers for links at most.                                 *)
IsData(lines) ==
  /\ Len(lines) \in 1..(2^LowBits - 1) /\ DOMAIN lines = 1..Len(lines)
  /\ \A i \in DOMAIN lines : lines[i].hash \in Nat
  /\ \A i, j \in DOMAIN lines : High(lines[i].hash) = High(lines[j].hash) => i = j

(* A chain has a first line, and its lines have one bucket.                *)
LEMMA Chains ==
  ASSUME NEW lines, IsData(lines)
  PROVE  /\ \A i \in DOMAIN lines : BucketOf(lines, i) \in 0..(Len(lines) - 1)
         /\ \A i \in DOMAIN lines : i \in Chain(lines, i)
         /\ \A i \in DOMAIN lines : \E h \in DOMAIN lines :
              BucketOf(lines, h) = BucketOf(lines, i) /\ IsFirst(lines, h)
         /\ \A i, h \in DOMAIN lines :
              BucketOf(lines, h) = BucketOf(lines, i) /\ IsFirst(lines, h) /\ IsFirst(lines, i)
                => h = i
<1>1. PICK n \in Nat : n = Len(lines) /\ DOMAIN lines = 1..n
  <2>1. LowBits \in 0..LowBits
    BY HashPowersAssumption
  <2>2. PICK p \in Nat : p = 2^LowBits
    BY <2>1, HashPowers
  <2>3. Len(lines) \in 1..(p - 1)
    BY <2>2 DEF IsData
  <2>4. Len(lines) \in Nat /\ DOMAIN lines = 1..Len(lines)
    BY <2>3 DEF IsData
  <2> QED BY <2>4
<1>2. ASSUME NEW i \in DOMAIN lines
      PROVE  BucketOf(lines, i) \in 0..(Len(lines) - 1)
  BY BucketRange DEF IsData, BucketOf
<1>3. \A i \in DOMAIN lines : i \in Chain(lines, i)
  BY DEF Chain
<1>4. ASSUME NEW i \in DOMAIN lines
      PROVE  \E h \in DOMAIN lines :
               BucketOf(lines, h) = BucketOf(lines, i) /\ IsFirst(lines, h)
  <2>1. PICK T : T = Chain(lines, i)
    OBVIOUS
  <2>2. T \subseteq 1..n /\ T # {}
    BY <1>1, <1>3, <2>1 DEF Chain
  <2>3. PICK h \in T : \A m \in T : m <= h
    BY <2>2, GreatestMember
  <2>4. h \in DOMAIN lines /\ BucketOf(lines, h) = BucketOf(lines, i)
    BY <2>1 DEF Chain
  <2>5. Chain(lines, h) = T
    BY <2>1, <2>4 DEF Chain
  <2> QED BY <2>3, <2>4, <2>5 DEF IsFirst
<1>5. ASSUME NEW i \in DOMAIN lines, NEW h \in DOMAIN lines,
             BucketOf(lines, h) = BucketOf(lines, i), IsFirst(lines, h), IsFirst(lines, i)
      PROVE  h = i
  <2>1. i \in Chain(lines, h) /\ h \in Chain(lines, i)
    BY <1>5 DEF Chain
  <2>2. i <= h /\ h <= i
    BY <1>5, <2>1 DEF IsFirst
  <2> QED BY <1>1, <2>2
<1> QED BY <1>2, <1>3, <1>4, <1>5

(* No two lines have the same turn.                                        *)
LEMMA Apart ==
  ASSUME NEW n \in Nat, NEW a \in Nat, NEW b \in Nat, NEW r \in 0..(n - 1), NEW s \in 0..(n - 1)
  PROVE  a * n + r = b * n + s => a = b /\ r = s
<1>1. ASSUME NEW c \in Nat, NEW d \in Nat, c < d, NEW t \in 0..(n - 1), NEW u \in 0..(n - 1)
      PROVE  c * n + t # d * n + u
  <2>1. PICK e \in Nat : d = c + 1 + e
    <3>1. d - c - 1 \in Nat /\ d = c + 1 + (d - c - 1)
      BY <1>1
    <3> QED BY <3>1
  <2>2. d * n = c * n + n + e * n
    BY <2>1
  <2>3. PICK p \in Nat, q \in Nat : p = c * n /\ q = e * n
    OBVIOUS
  <2>4. d * n + u = p + n + q + u
    BY <2>2, <2>3
  <2>5. p + t # p + n + q + u
    OBVIOUS
  <2> QED BY <2>3, <2>4, <2>5
<1>2. CASE a < b \/ b < a
  BY <1>1, <1>2
<1>3. CASE a = b
  <2>1. PICK p \in Nat : p = a * n
    OBVIOUS
  <2>2. p + r = p + s => r = s
    OBVIOUS
  <2> QED BY <1>3, <2>1, <2>2
<1> QED BY <1>2, <1>3

(* As many lines have to go elsewhere as buckets are empty.                *)
LEMMA RoomForAll ==
  ASSUME NEW lines, IsData(lines)
  PROVE  /\ EmptyBuckets(lines) \in SUBSET Nat /\ IsFiniteSet(EmptyBuckets(lines))
         /\ Turns(lines) \in SUBSET Nat /\ IsFiniteSet(Turns(lines))
         /\ Cardinality(Turns(lines)) = Cardinality(EmptyBuckets(lines))
         /\ \A i, h \in DOMAIN lines : Turn(lines, i) = Turn(lines, h) => i = h
<1>1. PICK n \in Nat : n = Len(lines) /\ DOMAIN lines = 1..n
  <2>1. LowBits \in 0..LowBits
    BY HashPowersAssumption
  <2>2. PICK p \in Nat : p = 2^LowBits
    BY <2>1, HashPowers
  <2>3. Len(lines) \in 1..(p - 1)
    BY <2>2 DEF IsData
  <2>4. Len(lines) \in Nat /\ DOMAIN lines = 1..Len(lines)
    BY <2>3 DEF IsData
  <2> QED BY <2>4
<1>2. PICK D, A : D = 1..n /\ A = 0..(n - 1)
  OBVIOUS
<1>3. PICK b : b = [i \in D |-> BucketOf(lines, i)]
  OBVIOUS
<1>4. \A i \in D : b[i] = BucketOf(lines, i) /\ b[i] \in A
  BY <1>1, <1>2, <1>3, Chains
<1>5. /\ IsFiniteSet(D) /\ Cardinality(D) = n
      /\ IsFiniteSet(A) /\ Cardinality(A) = n
  BY <1>2, FS_Interval
<1>6. PICK B : B = {b[i] : i \in D}
  OBVIOUS
<1>7. PICK O : O = Overflows(lines)
  OBVIOUS
<1>8. O \subseteq D /\ \A i \in D : i \in O <=> ~IsFirst(lines, i)
  BY <1>1, <1>2, <1>7 DEF Overflows
<1>9. EmptyBuckets(lines) = A \ B
  BY <1>1, <1>2, <1>4, <1>6 DEF EmptyBuckets
<1>10. PICK F : F = D \ O
  OBVIOUS
<1>11. PICK g : g = [i \in F |-> b[i]]
  OBVIOUS
<1>12. g \in Bijection(F, B)
  <2>1. g \in [F -> B] /\ \A i \in F : g[i] = b[i]
    BY <1>6, <1>10, <1>11
  <2>2. \A i, h \in F : g[i] = g[h] => i = h
    BY <1>1, <1>2, <1>4, <1>8, <1>10, <2>1, Chains
  <2>3. \A c \in B : \E i \in F : g[i] = c
    BY <1>1, <1>2, <1>4, <1>6, <1>8, <1>10, <2>1, Chains
  <2> QED BY <2>1, <2>2, <2>3 DEF Bijection, Injection, Surjection, IsInjective
<1>13. IsFiniteSet(F) /\ IsFiniteSet(O) /\ Cardinality(F) = Cardinality(D) - Cardinality(O)
  <2>1. D \cap O = O
    BY <1>8
  <2>2. O \in SUBSET D
    BY <1>8
  <2>3. IsFiniteSet(O)
    BY <1>5, <2>2, FS_Subset
  <2>4. IsFiniteSet(D \ O) /\ Cardinality(D \ O) = Cardinality(D) - Cardinality(D \cap O)
    BY <1>5, FS_Difference
  <2> QED BY <1>10, <2>1, <2>3, <2>4
<1>14. IsFiniteSet(B) /\ Cardinality(B) = Cardinality(F)
  <2>1. ExistsBijection(F, B)
    BY <1>12 DEF ExistsBijection
  <2> QED BY <1>13, <2>1, FS_Bijection
<1>15. IsFiniteSet(A \ B) /\ Cardinality(A \ B) = Cardinality(A) - Cardinality(B)
  <2>1. A \cap B = B
    BY <1>4, <1>6
  <2> QED BY <1>5, <2>1, FS_Difference
<1>16. \A i \in D : Turn(lines, i) = b[i] * n + (n - i) /\ Turn(lines, i) \in Nat
  <2> TAKE i \in D
  <2>1. PICK c \in Nat : c = b[i]
    BY <1>2, <1>4
  <2>2. n - i \in Nat /\ c * n \in Nat
    BY <1>2
  <2> QED BY <1>1, <1>4, <2>1, <2>2 DEF Turn
<1>17. \A i, h \in D : Turn(lines, i) = Turn(lines, h) => i = h
  <2> TAKE i, h \in D
  <2>1. PICK c \in Nat, d \in Nat : c = b[i] /\ d = b[h]
    BY <1>2, <1>4
  <2>2. PICK r \in 0..(n - 1), s \in 0..(n - 1) : r = n - i /\ s = n - h
    BY <1>2
  <2>3. c * n + r = d * n + s => r = s
    BY Apart
  <2>4. r = s => i = h
    BY <1>2, <2>2
  <2> QED BY <1>16, <2>1, <2>2, <2>3, <2>4
<1>18. PICK t : t = [i \in O |-> Turn(lines, i)]
  OBVIOUS
<1>19. PICK T : T = Turns(lines)
  OBVIOUS
<1>20. t \in Bijection(O, T)
  <2>1. T = {Turn(lines, i) : i \in O}
    BY <1>7, <1>19 DEF Turns
  <2>2. t \in [O -> T] /\ \A i \in O : t[i] = Turn(lines, i)
    BY <1>18, <2>1
  <2>3. \A i, h \in O : t[i] = t[h] => i = h
    BY <1>8, <1>17, <2>2
  <2>4. \A c \in T : \E i \in O : t[i] = c
    BY <2>1, <2>2
  <2> QED BY <2>2, <2>3, <2>4 DEF Bijection, Injection, Surjection, IsInjective
<1>21. IsFiniteSet(T) /\ Cardinality(T) = Cardinality(O)
  <2>1. ExistsBijection(O, T)
    BY <1>20 DEF ExistsBijection
  <2> QED BY <1>13, <2>1, FS_Bijection
<1>22. T \in SUBSET Nat
  BY <1>7, <1>8, <1>16, <1>19 DEF Turns
<1>23. Cardinality(A \ B) = Cardinality(O)
  <2>1. Cardinality(O) \in Nat
    BY <1>13, FS_CardinalityType
  <2> QED BY <1>5, <1>13, <1>14, <1>15, <2>1
<1>24. A \ B \in SUBSET Nat
  BY <1>2
<1> QED BY <1>1, <1>2, <1>9, <1>15, <1>17, <1>19, <1>21, <1>22, <1>23, <1>24

(* Each line has a place of its own, and no place is left.                 *)
LEMMA Places ==
  ASSUME NEW lines, IsData(lines)
  PROVE  /\ \A i \in DOMAIN lines : Place(lines, i) \in 0..(Len(lines) - 1)
         /\ \A i, h \in DOMAIN lines : Place(lines, i) = Place(lines, h) => i = h
         /\ \A b \in 0..(Len(lines) - 1) : \E i \in DOMAIN lines : Place(lines, i) = b
<1>1. PICK E, T, O : E = EmptyBuckets(lines) /\ T = Turns(lines) /\ O = Overflows(lines)
  OBVIOUS
<1>2. /\ E \in SUBSET Nat /\ IsFiniteSet(E) /\ T \in SUBSET Nat /\ IsFiniteSet(T)
      /\ Cardinality(T) = Cardinality(E)
  BY <1>1, RoomForAll
<1>13. /\ \A n, m \in T : Position(T, n) = Position(T, m) => n = m
       /\ \A n, m \in E : Position(E, n) = Position(E, m) => n = m
  BY <1>2, Positions
<1>3. \A b : b \in E <=> b \in 0..(Len(lines) - 1) /\ \A i \in DOMAIN lines : BucketOf(lines, i) # b
  BY <1>1 DEF EmptyBuckets
<1>4. \A i \in O : Turn(lines, i) \in T
  BY <1>1 DEF Turns
<1>5. \A t \in T : \E i \in O : Turn(lines, i) = t
  BY <1>1 DEF Turns
<1>6. ASSUME NEW i \in O
      PROVE  Place(lines, i) \in E
             /\ Position(E, Place(lines, i)) = Position(T, Turn(lines, i))
  <2>1. Position(T, Turn(lines, i)) \in 1..Cardinality(E)
    BY <1>2, <1>4, Positions
  <2>2. \E b \in E : Position(E, b) = Position(T, Turn(lines, i))
    BY <1>2, <2>1, Positions
  <2>3. Place(lines, i) = CHOOSE b \in E : Position(E, b) = Position(T, Turn(lines, i))
    BY <1>1 DEF Place, Overflows
  <2> QED BY <2>2, <2>3
<1>7. \A i \in DOMAIN lines : i \notin O => Place(lines, i) = BucketOf(lines, i)
  BY <1>1 DEF Place, Overflows
<1>8. \A i \in DOMAIN lines : i \in O <=> ~IsFirst(lines, i)
  BY <1>1 DEF Overflows
<1>9. O \subseteq DOMAIN lines
  BY <1>1 DEF Overflows
<1>10. \A i \in DOMAIN lines : Place(lines, i) \in 0..(Len(lines) - 1)
  BY <1>3, <1>6, <1>7, Chains
<1>11. ASSUME NEW i \in DOMAIN lines, NEW h \in DOMAIN lines, Place(lines, i) = Place(lines, h)
       PROVE  i = h
  <2>1. CASE i \in O /\ h \in O
    <3>1. Position(T, Turn(lines, i)) = Position(T, Turn(lines, h))
      BY <1>6, <1>11, <2>1
    <3>2. Turn(lines, i) = Turn(lines, h)
      BY <1>4, <1>13, <2>1, <3>1
    <3> QED BY <3>2, RoomForAll
  <2>2. CASE i \notin O /\ h \notin O
    BY <1>7, <1>8, <1>11, <2>2, Chains
  <2>3. CASE (i \in O) # (h \in O)
    BY <1>3, <1>6, <1>7, <1>11, <2>3
  <2> QED BY <2>1, <2>2, <2>3
<1>12. ASSUME NEW b \in 0..(Len(lines) - 1)
       PROVE  \E i \in DOMAIN lines : Place(lines, i) = b
  <2>1. CASE b \in E
    <3>1. Position(E, b) \in 1..Cardinality(T)
      BY <1>2, <2>1, Positions
    <3>2. PICK t \in T : Position(T, t) = Position(E, b)
      BY <1>2, <3>1, Positions
    <3>3. PICK i \in O : Turn(lines, i) = t
      BY <1>5
    <3>4. Place(lines, i) = b
      BY <1>6, <1>13, <2>1, <3>2, <3>3
    <3> QED BY <1>9, <3>4
  <2>2. CASE b \notin E
    <3>1. PICK i \in DOMAIN lines : BucketOf(lines, i) = b
      BY <1>3, <2>2
    <3>2. PICK h \in DOMAIN lines : BucketOf(lines, h) = b /\ IsFirst(lines, h)
      BY <3>1, Chains
    <3> QED BY <1>7, <1>8, <3>2
  <2> QED BY <2>1, <2>2
<1> QED BY <1>10, <1>11, <1>12

(* A bucket has the entry of the line whose place it is; its link is the   *)
(* next line of the chain.                                                 *)
LEMMA EntriesPlaced ==
  ASSUME NEW lines, IsData(lines)
  PROVE  /\ DOMAIN Buckets(lines) = 0..(Len(lines) - 1)
         /\ \A i \in DOMAIN lines : Buckets(lines)[Place(lines, i)] = Entry(lines, i)
<1>1. DOMAIN Buckets(lines) = 0..(Len(lines) - 1)
  BY DEF Buckets
<1>2. ASSUME NEW i \in DOMAIN lines
      PROVE  Buckets(lines)[Place(lines, i)] = Entry(lines, i)
  <2>1. PICK b \in 0..(Len(lines) - 1) : b = Place(lines, i)
    BY Places
  <2>2. PICK h : h = CHOOSE j \in DOMAIN lines : Place(lines, j) = b
    OBVIOUS
  <2>3. h \in DOMAIN lines /\ Place(lines, h) = b
    BY <2>1, <2>2
  <2>4. h = i
    BY <2>1, <2>3, Places
  <2> QED BY <2>1, <2>2, <2>4 DEF Buckets
<1> QED BY <1>1, <1>2

LEMMA Links ==
  ASSUME NEW lines, IsData(lines), NEW i \in DOMAIN lines
  PROVE  /\ Behind(lines, i) = {} => Entry(lines, i).next = 0
         /\ Behind(lines, i) # {} => \E j \in Behind(lines, i) :
              /\ \A h \in Behind(lines, i) : h <= j
              /\ Entry(lines, i).next # 0 /\ Entry(lines, i).next - 1 = Place(lines, j)
<1>1. Behind(lines, i) = {} => Entry(lines, i).next = 0
  BY DEF Entry
<1>2. ASSUME Behind(lines, i) # {}
      PROVE  \E j \in Behind(lines, i) :
               /\ \A h \in Behind(lines, i) : h <= j
               /\ Entry(lines, i).next # 0 /\ Entry(lines, i).next - 1 = Place(lines, j)
  <2>1. LowBits \in 0..LowBits
    BY HashPowersAssumption
  <2>2. PICK p \in Nat \ {0} : p = 2^LowBits
    BY <2>1, HashPowers
  <2>3. PICK n \in 1..(p - 1) : n = Len(lines) /\ DOMAIN lines = 1..n
    BY <2>2 DEF IsData
  <2>4. Behind(lines, i) \subseteq 1..n
    BY <2>3 DEF Behind, Chain
  <2>5. PICK j \in Behind(lines, i) :
          j = Max(Behind(lines, i)) /\ \A h \in Behind(lines, i) : h <= j
    BY <1>2, <2>3, <2>4, GreatestMember
  <2>6. PICK c \in 0..(n - 1) : c = Place(lines, j)
    BY <2>3, <2>4, Places
  <2>7. Entry(lines, i).next = (c + 1) % p
    BY <1>2, <2>2, <2>5, <2>6 DEF Entry
  <2>8. (c + 1) % p = c + 1
    <3>1. c + 1 \in 0..(p - 1)
      OBVIOUS
    <3>2. \A m \in 0..(p - 1) : m % p = m
      OBVIOUS
    <3> QED BY <3>1, <3>2
  <2> QED BY <2>5, <2>6, <2>7, <2>8
<1> QED BY <1>1, <1>2

(* What a search that has come to line i of a chain will find.             *)
Matches(lines, i, hash) ==
  {h \in Chain(lines, i) : h <= i /\ High(lines[h].hash) = High(hash)}

Answer(lines, i, hash) ==
  IF Matches(lines, i, hash) = {} THEN NotFound
  ELSE lines[CHOOSE h \in Matches(lines, i, hash) : TRUE].value

LEMMA AnswerIs ==
  ASSUME NEW lines, IsData(lines), NEW i \in DOMAIN lines, NEW hash
  PROVE  /\ \A h \in Matches(lines, i, hash) : Answer(lines, i, hash) = lines[h].value
         /\ High(lines[i].hash) = High(hash) => Answer(lines, i, hash) = lines[i].value
         /\ High(lines[i].hash) # High(hash) /\ Behind(lines, i) = {} =>
              Answer(lines, i, hash) = NotFound
         /\ High(lines[i].hash) # High(hash) =>
              \A j \in Behind(lines, i) : (\A h \in Behind(lines, i) : h <= j) =>
                Answer(lines, i, hash) = Answer(lines, j, hash)
<1>1. DOMAIN lines \subseteq Nat
  <2>1. DOMAIN lines = 1..Len(lines)
    BY DEF IsData
  <2> QED BY <2>1
<1>2. Matches(lines, i, hash) \subseteq DOMAIN lines
  BY DEF Matches, Chain
<1>3. \A h \in Matches(lines, i, hash) : Answer(lines, i, hash) = lines[h].value
  <2> TAKE h \in Matches(lines, i, hash)
  <2>1. PICK g \in Matches(lines, i, hash) : g = CHOOSE k \in Matches(lines, i, hash) : TRUE
    OBVIOUS
  <2>2. High(lines[g].hash) = High(lines[h].hash)
    BY DEF Matches
  <2>3. g = h
    BY <1>2, <2>2 DEF IsData
  <2> QED BY <2>1, <2>3 DEF Answer
<1>4. High(lines[i].hash) = High(hash) => i \in Matches(lines, i, hash)
  <2>1. i <= i
    BY <1>1
  <2> QED BY <2>1, Chains DEF Matches
<1>5. High(lines[i].hash) # High(hash) =>
        Matches(lines, i, hash) = {h \in Behind(lines, i) : High(lines[h].hash) = High(hash)}
  <2>1. \A h \in Chain(lines, i) : h <= i <=> h < i \/ h = i
    BY <1>1 DEF Chain
  <2> QED BY <2>1 DEF Matches, Behind
<1>6. ASSUME High(lines[i].hash) # High(hash), NEW j \in Behind(lines, i),
             \A h \in Behind(lines, i) : h <= j
      PROVE  Answer(lines, i, hash) = Answer(lines, j, hash)
  <2>1. j \in DOMAIN lines /\ BucketOf(lines, j) = BucketOf(lines, i) /\ j < i
    BY DEF Behind, Chain
  <2>2. Chain(lines, j) = Chain(lines, i)
    BY <2>1 DEF Chain
  <2>3. \A h \in Chain(lines, i) : h <= j <=> h < i
    <3>1. \A h \in Chain(lines, i) : h \in Nat
      BY <1>1 DEF Chain
    <3>2. \A h \in Chain(lines, i) : h < i => h <= j
      BY <1>6 DEF Behind
    <3> QED BY <1>1, <2>1, <3>1, <3>2
  <2>4. Matches(lines, j, hash) = Matches(lines, i, hash)
    BY <1>5, <1>6, <2>2, <2>3 DEF Matches, Behind
  <2> QED BY <2>4 DEF Answer
<1> QED BY <1>3, <1>4, <1>5, <1>6 DEF Answer

(* The search comes to an end, since each link leads to an earlier line.   *)
Onward(buckets, hash, F, b) ==
  IF buckets[b].high = High(hash) THEN buckets[b].value
  ELSE IF buckets[b].next = 0 THEN NotFound
  ELSE F[buckets[b].next - 1]

Follows(F, buckets, hash) ==
  F = [b \in DOMAIN buckets |-> Onward(buckets, hash, F, b)]

LEMMA AnswersFollow ==
  ASSUME NEW lines, IsData(lines), NEW hash, NEW F,
         DOMAIN F = 0..(Len(lines) - 1),
         \A i \in DOMAIN lines : F[Place(lines, i)] = Answer(lines, i, hash)
  PROVE  \A b \in 0..(Len(lines) - 1) : F[b] = Onward(Buckets(lines), hash, F, b)
<1> TAKE b \in 0..(Len(lines) - 1)
<1>1. PICK i \in DOMAIN lines : Place(lines, i) = b
  BY Places
<1>2. PICK e : e = Entry(lines, i) /\ Buckets(lines)[b] = e
  BY <1>1, EntriesPlaced
<1>3. e.high = High(lines[i].hash) /\ e.value = lines[i].value
  BY <1>2 DEF Entry
<1>4. CASE High(lines[i].hash) = High(hash)
  <2>1. F[b] = lines[i].value
    BY <1>1, <1>4, AnswerIs
  <2> QED BY <1>2, <1>3, <1>4, <2>1 DEF Onward
<1>5. CASE High(lines[i].hash) # High(hash) /\ Behind(lines, i) = {}
  <2>1. F[b] = NotFound
    BY <1>1, <1>5, AnswerIs
  <2>2. e.next = 0
    BY <1>2, <1>5, Links
  <2> QED BY <1>2, <1>3, <1>5, <2>1, <2>2 DEF Onward
<1>6. CASE High(lines[i].hash) # High(hash) /\ Behind(lines, i) # {}
  <2>1. PICK j \in Behind(lines, i) : /\ \A h \in Behind(lines, i) : h <= j
                                      /\ e.next # 0 /\ e.next - 1 = Place(lines, j)
    BY <1>2, <1>6, Links
  <2>2. j \in DOMAIN lines
    BY DEF Behind, Chain
  <2>3. Answer(lines, i, hash) = Answer(lines, j, hash)
    BY <1>6, <2>1, AnswerIs
  <2>4. F[b] = F[e.next - 1]
    BY <1>1, <2>1, <2>2, <2>3
  <2> QED BY <1>2, <1>3, <1>6, <2>1, <2>4 DEF Onward
<1> QED BY <1>4, <1>5, <1>6

LEMMA FollowExists ==
  ASSUME NEW lines, IsData(lines), NEW hash
  PROVE  \E F : Follows(F, Buckets(lines), hash)
<1>1. PICK D : D = 0..(Len(lines) - 1) /\ DOMAIN Buckets(lines) = D
  BY EntriesPlaced
<1>2. PICK F : F = [b \in D |->
          Answer(lines, CHOOSE i \in DOMAIN lines : Place(lines, i) = b, hash)]
  OBVIOUS
<1>3. ASSUME NEW i \in DOMAIN lines
      PROVE  F[Place(lines, i)] = Answer(lines, i, hash)
  <2>1. PICK b \in D : b = Place(lines, i)
    BY <1>1, Places
  <2>2. PICK h : h = CHOOSE j \in DOMAIN lines : Place(lines, j) = b
    OBVIOUS
  <2>3. h \in DOMAIN lines /\ Place(lines, h) = b
    BY <2>1, <2>2
  <2>4. h = i
    BY <2>1, <2>3, Places
  <2> QED BY <1>2, <2>1, <2>2, <2>4
<1>4. DOMAIN F = 0..(Len(lines) - 1)
  BY <1>1, <1>2
<1>5. \A b \in D : F[b] = Onward(Buckets(lines), hash, F, b)
  BY <1>1, <1>3, <1>4, AnswersFollow
<1>6. F = [b \in D |-> F[b]]
  BY <1>2
<1>7. F = [b \in D |-> Onward(Buckets(lines), hash, F, b)]
  BY <1>5, <1>6
<1> QED BY <1>1, <1>7 DEF Follows

LEMMA FollowAnswers ==
  ASSUME NEW lines, IsData(lines), NEW hash, NEW F, Follows(F, Buckets(lines), hash),
         NEW i \in DOMAIN lines
  PROVE  F[Place(lines, i)] = Answer(lines, i, hash)
<1> DEFINE T == {k \in Nat : \A h \in DOMAIN lines :
                   h <= k => F[Place(lines, h)] = Answer(lines, h, hash)}
<1>0. \A h \in DOMAIN lines : h \in Nat /\ h >= 1
  <2>1. DOMAIN lines = 1..Len(lines)
    BY DEF IsData
  <2> QED BY <2>1
<1>1. 0 \in T
  BY <1>0
<1>2. ASSUME NEW k \in Nat, k \in T
      PROVE  k + 1 \in T
  <2> SUFFICES ASSUME NEW h \in DOMAIN lines, h <= k + 1
               PROVE  F[Place(lines, h)] = Answer(lines, h, hash)
    OBVIOUS
  <2>1. PICK b : b = Place(lines, h) /\ b \in DOMAIN Buckets(lines)
    BY Places, EntriesPlaced
  <2>2. F[b] = Onward(Buckets(lines), hash, F, b)
    BY <2>1 DEF Follows
  <2>3. PICK e : e = Entry(lines, h) /\ Buckets(lines)[b] = e
    BY <2>1, EntriesPlaced
  <2>4. e.high = High(lines[h].hash) /\ e.value = lines[h].value
    BY <2>3 DEF Entry
  <2>5. CASE High(lines[h].hash) = High(hash)
    <3>1. F[b] = lines[h].value
      BY <2>2, <2>3, <2>4, <2>5 DEF Onward
    <3> QED BY <2>1, <2>5, <3>1, AnswerIs
  <2>6. CASE High(lines[h].hash) # High(hash) /\ Behind(lines, h) = {}
    <3>1. e.next = 0
      BY <2>3, <2>6, Links
    <3>2. F[b] = NotFound
      BY <2>2, <2>3, <2>4, <2>6, <3>1 DEF Onward
    <3> QED BY <2>1, <2>6, <3>2, AnswerIs
  <2>7. CASE High(lines[h].hash) # High(hash) /\ Behind(lines, h) # {}
    <3>1. PICK j \in Behind(lines, h) : /\ \A g \in Behind(lines, h) : g <= j
                                        /\ e.next # 0 /\ e.next - 1 = Place(lines, j)
      BY <2>3, <2>7, Links
    <3>2. j \in DOMAIN lines /\ j < h
      BY DEF Behind, Chain
    <3>3. F[b] = F[Place(lines, j)]
      BY <2>2, <2>3, <2>4, <2>7, <3>1 DEF Onward
    <3>4. j <= k
      BY <1>0, <3>2
    <3>5. F[Place(lines, j)] = Answer(lines, j, hash)
      BY <1>2, <3>2, <3>4
    <3>6. Answer(lines, h, hash) = Answer(lines, j, hash)
      BY <2>7, <3>1, AnswerIs
    <3> QED BY <2>1, <3>3, <3>5, <3>6
  <2> QED BY <2>5, <2>6, <2>7
<1>3. i \in T
  <2> HIDE DEF T
  <2> QED BY <1>0, <1>1, <1>2, AllNumbers
<1>4. i <= i
  BY <1>0
<1> QED BY <1>3, <1>4

(* A key is found by its own hash value; one that differs from all in the  *)
(* bits that are compared is not.                                          *)
LEMMA SearchFinds ==
  ASSUME NEW lines, IsData(lines), NEW hash \in Nat
  PROVE  /\ \A i \in DOMAIN lines : lines[i].hash = hash =>
              Search(Buckets(lines), hash) = lines[i].value
         /\ (\A i \in DOMAIN lines : High(lines[i].hash) # High(hash)) =>
              Search(Buckets(lines), hash) = NotFound
<1>1. PICK n \in Nat : n = Len(lines) /\ DOMAIN lines = 1..n /\ n \in 1..(2^LowBits - 1)
  <2>1. LowBits \in 0..LowBits
    BY HashPowersAssumption
  <2>2. PICK p \in Nat : p = 2^LowBits
    BY <2>1, HashPowers
  <2>3. Len(lines) \in 1..(p - 1)
    BY <2>2 DEF IsData
  <2>4. Len(lines) \in Nat /\ DOMAIN lines = 1..Len(lines)
    BY <2>3 DEF IsData
  <2> QED BY <2>2, <2>3, <2>4
<1>2. PICK T : T = Buckets(lines) /\ DOMAIN T = 0..(n - 1)
  BY <1>1, EntriesPlaced
<1>3. Cardinality(DOMAIN T) = n
  <2>1. PICK z \in Int : z = 0
    OBVIOUS
  <2>2. PICK y \in Int : y = n - 1
    BY <1>1
  <2>3. Cardinality(z..y) = IF z > y THEN 0 ELSE y - z + 1
    BY FS_Interval
  <2>4. n >= 1
    BY <1>1
  <2>5. ~(z > y) /\ y - z + 1 = n
    BY <2>1, <2>2, <2>4
  <2>6. DOMAIN T = z..y
    BY <1>2, <2>1, <2>2
  <2> QED BY <2>3, <2>5, <2>6
<1>4. PICK b \in 0..(n - 1) : b = Bucket(hash, n)
  BY <1>1, BucketRange
<1>5. PICK F : F = CHOOSE G : Follows(G, T, hash)
  OBVIOUS
<1>6. Follows(F, T, hash)
  BY <1>2, <1>5, FollowExists
<1>7. Search(T, hash) = IF T[b].overflow THEN NotFound ELSE F[b]
  BY <1>3, <1>4, <1>5 DEF Search, Follows, Onward
<1>8. PICK i \in DOMAIN lines : Place(lines, i) = b
  BY <1>1, Places
<1>9. T[b] = Entry(lines, i) /\ F[b] = Answer(lines, i, hash)
  BY <1>2, <1>6, <1>8, EntriesPlaced, FollowAnswers
<1>10. T[b].overflow <=> ~IsFirst(lines, i)
  <2>1. PICK e : e = T[b]
    OBVIOUS
  <2>2. PICK o : o = ~IsFirst(lines, i)
    OBVIOUS
  <2>3. e = [overflow |-> o, high |-> High(lines[i].hash), next |-> e.next,
             value |-> lines[i].value]
    BY <1>9, <2>1, <2>2 DEF Entry
  <2>4. e.overflow = o
    BY <2>3
  <2> QED BY <2>1, <2>2, <2>4, Zenon
<1>11. ASSUME NEW k \in DOMAIN lines, lines[k].hash = hash
       PROVE  Search(T, hash) = lines[k].value
  <2>1. BucketOf(lines, k) = b
    BY <1>1, <1>4, <1>11 DEF BucketOf
  <2>2. PICK h \in DOMAIN lines : BucketOf(lines, h) = b /\ IsFirst(lines, h)
    BY <2>1, Chains
  <2>3. Place(lines, h) = b
    BY <2>2 DEF Place
  <2>4. h = i
    BY <1>8, <2>3, Places
  <2>5. k \in Chain(lines, i)
    BY <2>1, <2>2, <2>4 DEF Chain
  <2>6. k \in Matches(lines, i, hash)
    BY <1>11, <2>2, <2>4, <2>5 DEF Matches, IsFirst
  <2>7. F[b] = lines[k].value
    BY <1>9, <2>6, AnswerIs
  <2> QED BY <1>7, <1>10, <2>2, <2>4, <2>7
<1>12. ASSUME \A k \in DOMAIN lines : High(lines[k].hash) # High(hash)
       PROVE  Search(T, hash) = NotFound
  <2>1. Matches(lines, i, hash) = {}
    BY <1>12 DEF Matches, Chain
  <2>2. F[b] = NotFound
    BY <1>9, <2>1 DEF Answer
  <2> QED BY <1>7, <2>2
<1> QED BY <1>2, <1>11, <1>12

(* The hash tables of the functions lead every name of a function that is  *)
(* listed to its own entry, and any other one to none (hash-lookup.c).     *)
THEOREM Hash_Tables_Right == HashTablesRight
<1> SUFFICES ASSUME NEW m \in Module, NEW n \in Name
             PROVE  HashSearch[m][n] =
                      IF \E i \in 1..Len(Listed[m]) : Listed[m][i] = n
                      THEN Alias[n] ELSE NotFound
  BY DEF HashTablesRight
<1>1. PICK names : names = Listed[m]
  OBVIOUS
<1>2. names \in Seq(Name)
  BY <1>1, HashAssumption
<1>3. PICK k \in Nat : k = Len(names) /\ DOMAIN names = 1..k
  BY <1>2
<1>4. \A i \in 1..k : names[i] \in Name
  BY <1>2, <1>3
<1>5. PICK lines : lines = [i \in 1..k |-> [hash  |-> HashValue[names[i]],
                                            value |-> Alias[names[i]]]]
  OBVIOUS
<1>6. /\ DOMAIN lines = 1..k
      /\ \A i \in 1..k : /\ lines[i].hash = HashValue[names[i]]
                         /\ lines[i].value = Alias[names[i]]
  BY <1>5
<1>7. HashSearch[m][n] = Search(Buckets(lines), HashValue[n])
  <2>1. Functions[m] = Buckets(lines)
    BY <1>1, <1>3, <1>5 DEF Functions
  <2> QED BY <2>1 DEF HashSearch
<1>8. IsData(lines)
  <2>1. lines \in Seq([hash : Nat, value : {Alias[a] : a \in Name}])
    BY <1>4, <1>5, HashAssumption
  <2>2. Len(lines) = k
    BY <1>5
  <2>3. k \in 1..(2^LowBits - 1)
    BY <1>1, <1>3, HashAssumption
  <2>4. \A i, j \in 1..k : names[i] = names[j] => i = j
    BY <1>1, <1>3, HashAssumption
  <2>5. \A i \in 1..k : lines[i].hash \in Nat
    BY <1>4, <1>6, HashAssumption
  <2>6. ASSUME NEW i \in 1..k, NEW j \in 1..k,
               High(lines[i].hash) = High(lines[j].hash)
        PROVE  i = j
    <3>1. High(HashValue[names[i]]) = High(HashValue[names[j]])
      BY <1>6, <2>6
    <3>2. names[i] = names[j]
      BY <1>4, <3>1, HashAssumption
    <3> QED BY <2>4, <3>2
  <2> QED BY <1>6, <2>2, <2>3, <2>5, <2>6 DEF IsData
<1>9. HashValue[n] \in Nat
  BY HashAssumption
<1>10. CASE \E i \in 1..k : names[i] = n
  <2>1. PICK i \in 1..k : names[i] = n
    BY <1>10
  <2>2. Search(Buckets(lines), HashValue[n]) = lines[i].value
    BY <1>6, <1>8, <1>9, <2>1, SearchFinds
  <2> QED BY <1>1, <1>3, <1>6, <1>7, <2>1, <2>2
<1>11. CASE ~\E i \in 1..k : names[i] = n
  <2>1. \A i \in DOMAIN lines : High(lines[i].hash) # High(HashValue[n])
    BY <1>4, <1>6, <1>11, HashAssumption
  <2>2. Search(Buckets(lines), HashValue[n]) = NotFound
    BY <1>8, <1>9, <2>1, SearchFinds
  <2> QED BY <1>1, <1>3, <1>7, <1>11, <2>2
<1> QED BY <1>10, <1>11

-----------------------------------------------------------------------------
(* Looking up names.  A table of a module tells which functions are        *)
(* replaced, however many were looked up in it.                            *)
TablesOK ==
  \A m \in Module, n \in Name : mtable[m] # NULL =>
    /\ n \in Overrides[m] => CheckOverride(m, n) = Override(n)
    /\ n \notin Overrides[m] =>
         \/ CheckOverride(m, n) = NULL
         \/ CheckOverride(m, n) = Closure(n) /\ FindFunc(m, n)

(* A metatable is of a known class, and leads to that of the base class.   *)
ReachOK ==
  \A c \in Class : metatables[c] # NULL =>
    /\ c \in Known
    /\ metatables[c].parent # NULL =>
         /\ Len(Lineage[c]) > 1 /\ metatables[c].parent = Lineage[c][2]
         /\ metatables[Lineage[c][2]] # NULL

(* A name leads to the meaning x in the class that is number i, and the    *)
(* nearer ones, which are known all, do not have it.                       *)
Leads(c, k, i, x, known) ==
  /\ \A j \in 1..i : Lineage[c][j] \in known
  /\ ClassMeans(Lineage[c][i], k, known) = {x}
  /\ \A j \in 1..(i - 1) : ClassMeans(Lineage[c][j], k, known) = {}

Right(c, k, e, known) ==
  IF k \in Attr
  THEN \E i \in 1..Len(Lineage[c]) : Leads(c, k, i, Meaning(e), known)
  ELSE Meaning(e) = <<"function", k>>

RememberedOK ==
  \A c \in Class, k \in Item :
    (metatables[c] # NULL /\ metatables[c].entries[k] # NULL) =>
      Right(c, k, metatables[c].entries[k], Known)

ObjectsOK ==
  alive \subseteq Object /\ \A o \in alive : metatables[ClassOf[o]] # NULL

LInv ==
  /\ MInv /\ TablesOK
  /\ metatables \in [Class -> Metatable \cup {NULL}]
  /\ ReachOK /\ RememberedOK /\ ObjectsOK

(* What is looked up in a module only adds functions to its table that are *)
(* not replaced.                                                           *)
LEMMA TablesKept ==
  ASSUME TablesOK, UNCHANGED mtable
  PROVE  TablesOK'
BY DEF TablesOK, CheckOverride

LEMMA TablesIndexed ==
  ASSUME MInv, TablesOK, NEW m \in Module, NEW k \in ModuleKey, Index(m, k)
  PROVE  TablesOK'
<1> SUFFICES ASSUME NEW q \in Module, NEW n \in Name, mtable'[q] # NULL
             PROVE  /\ n \in Overrides[q] => CheckOverride(q, n)' = Override(n)
                    /\ n \notin Overrides[q] =>
                         \/ CheckOverride(q, n)' = NULL
                         \/ CheckOverride(q, n)' = Closure(n) /\ FindFunc(q, n)
  BY DEF TablesOK
<1>1. k \in TableKey(m) /\ k.name \in Name /\ k = Key(k.name, k.short)
  BY ModulesAssumption DEF TableKey, ModuleKey, Key
<1>2. mtable[m] \in [TableKey(m) -> TableEntry \cup {NULL}] /\ mtable[m] # NULL
  BY DEF Index, MInv, ModulesType
<1>3. mtable' = [mtable EXCEPT ![m] = [mtable[m] EXCEPT ![k] = Found(m, k)]]
  BY DEF Index
<1>4. PICK t : t = [mtable[m] EXCEPT ![k] = Found(m, k)]
  OBVIOUS
<1>5. DOMAIN mtable = Module
  BY DEF MInv, ModulesType
<1>6. CASE q # m
  <2>1. mtable'[q] = mtable[q]
    BY <1>3, <1>5, <1>6
  <2>2. CheckOverride(q, n)' = CheckOverride(q, n)
    BY <2>1 DEF CheckOverride
  <2> QED BY <2>1, <2>2 DEF TablesOK
<1>7. CASE q = m
  <2>1. mtable'[m] = t
    BY <1>3, <1>4, <1>5
  <2>2. DOMAIN t = DOMAIN mtable[m] /\ \A r \in DOMAIN t :
          t[r] = IF r = k THEN Found(m, k) ELSE mtable[m][r]
    BY <1>1, <1>2, <1>4
  <2>3. CASE Key(n, FALSE) # k
    <3>1. CheckOverride(m, n)' = CheckOverride(m, n)
      BY <1>2, <1>7, <2>1, <2>2, <2>3 DEF CheckOverride
    <3> QED BY <1>2, <1>7, <3>1 DEF TablesOK
  <2>4. CASE Key(n, FALSE) = k
    <3>1. k.name = n
      BY <2>4 DEF Key
    <3>2. CheckOverride(m, n) = NULL
      <4>1. mtable[m][k] = NULL
        BY DEF Index
      <4> QED BY <2>4, <4>1 DEF CheckOverride
    <3>3. n \notin Overrides[m]
      <4>1. Override(n) \in TableEntry
        BY DEF Override, TableEntry
      <4> QED BY <1>2, <3>2, <4>1, TableAssumption DEF TablesOK
    <3>4. Found(m, k) # NULL
      BY DEF Index
    <3>5. FindFunc(m, n) /\ Found(m, k) = Closure(n)
      BY <3>1, <3>2, <3>4 DEF Found, First
    <3>6. CheckOverride(m, n)' = Closure(n)
      <4>1. mtable'[m] # NULL /\ k \in DOMAIN mtable'[m] /\ mtable'[m][k] = Found(m, k)
        BY <1>1, <1>2, <1>7, <2>1, <2>2
      <4> QED BY <2>4, <3>5, <4>1 DEF CheckOverride
    <3> QED BY <1>7, <3>3, <3>5, <3>6
  <2> QED BY <2>3, <2>4
<1> QED BY <1>6, <1>7

LEMMA TablesRegistered ==
  ASSUME MInv, TablesOK, Register
  PROVE  TablesOK'
<1>1. PICK m : m = Current.module
  OBVIOUS
<1>2. m \in Module
  <2>1. Current \in Load
    BY DEF Register, Current, MInv, ModulesType
  <2> QED BY <1>1, <2>1 DEF Load
<1>3. CASE Collides(m)
  <2>1. UNCHANGED mtable
    BY <1>1, <1>3 DEF Register
  <2> QED BY <2>1, TablesKept
<1>4. CASE ~Collides(m)
  <2>1. mtable' = [mtable EXCEPT ![m] = Table(m)] /\ DOMAIN mtable = Module
    BY <1>1, <1>4 DEF Register, MInv, ModulesType
  <2> SUFFICES ASSUME NEW q \in Module, NEW n \in Name, mtable'[q] # NULL
               PROVE  /\ n \in Overrides[q] => CheckOverride(q, n)' = Override(n)
                      /\ n \notin Overrides[q] =>
                           \/ CheckOverride(q, n)' = NULL
                           \/ CheckOverride(q, n)' = Closure(n) /\ FindFunc(q, n)
    BY DEF TablesOK
  <2>2. CASE q # m
    <3>1. mtable'[q] = mtable[q]
      BY <2>1, <2>2
    <3>2. CheckOverride(q, n)' = CheckOverride(q, n)
      BY <3>1 DEF CheckOverride
    <3> QED BY <3>1, <3>2 DEF TablesOK
  <2>3. CASE q = m
    <3>1. PICK t : t = Table(m)
      OBVIOUS
    <3>2. mtable'[m] = t
      BY <1>2, <2>1, <3>1
    <3>3. PICK key : key = Key(n, FALSE)
      OBVIOUS
    <3>4. ~key.short /\ key.name = n
      BY <3>3 DEF Key
    <3>5. key \in DOMAIN t => t[key] = IF n \in Overrides[m] THEN Override(n) ELSE NULL
      BY <3>1, <3>4 DEF Table
    <3>6. n \in Overrides[m] => key \in DOMAIN t
      BY <3>1, <3>3 DEF Table, TableKey
    <3>7. CheckOverride(m, n)' = IF key \in DOMAIN t THEN t[key] ELSE NULL
      BY <2>3, <3>2, <3>3 DEF CheckOverride
    <3> QED BY <2>3, <3>5, <3>6, <3>7
  <2> QED BY <2>2, <2>3
<1> QED BY <1>3, <1>4

LEMMA TablesNext ==
  ASSUME MInv, TablesOK, ModulesNext
  PROVE  TablesOK'
<1>1. CASE \E m \in Module : \E k \in ModuleKey : Index(m, k)
  BY <1>1, TablesIndexed
<1>2. CASE Register
  BY <1>2, TablesRegistered
<1>3. CASE (\E m \in Module : Require(m)) \/ CheckFails
           \/ DependencyThere \/ RequireDependency \/ DependencyFails
  <2>1. UNCHANGED mtable
    BY <1>3 DEF Require, CheckFails, DependencyThere, RequireDependency,
                DependencyFails
  <2> QED BY <2>1, TablesKept
<1> QED BY <1>1, <1>2, <1>3 DEF ModulesNext, LoadStep

(* The module of a known class is registered, and so are those it depends  *)
(* on: their classes are known, too.                                       *)
LEMMA KnownFacts ==
  ASSUME MInv, NEW c \in Known
  PROVE  /\ ModuleOf[c] \in Module /\ mtable[ModuleOf[c]] # NULL
         /\ Foreseen(c) \subseteq Known
<1>1. c \in Class /\ c \in TypeName /\ typemap[c] # NULL
  BY ModulesAssumption DEF Known, FindStruct
<1>2. PICK m : m = typemap[c]
  OBVIOUS
<1>3. m \in Module /\ m \in Registered /\ c \in Native[m]
  BY <1>1, <1>2 DEF MInv, ModulesType, TypemapOK
<1>4. ModuleOf[c] \in Module /\ c \in Native[ModuleOf[c]] /\ c \notin Fundamental
  BY <1>1, MetatablesAssumption
<1>5. ModuleOf[c] = m
  BY <1>3, <1>4, TypesAssumption
<1>6. \A n \in Registered : \A t \in Native[n] : typemap[t] # NULL
  BY DEF MInv, RegisteredOK
<1>7. ASSUME NEW j \in 1..Len(Depends[m])
      PROVE  Depends[m][j] \in Registered
  <2>1. PICK i \in 1..Len(modules) : modules[i] = m
    BY <1>3 DEF Registered
  <2>2. Depends[m][j] \in Module
    BY <1>3, ModulesAssumption
  <2>3. PICK p \in 1..(i - 1) : modules[p] = Depends[m][j]
    BY <2>1, <2>2 DEF MInv, DependsFirst
  <2>4. Len(modules) \in Nat /\ p \in 1..Len(modules)
    BY <2>1, <2>3 DEF MInv, ModulesType
  <2> QED BY <2>3, <2>4 DEF Registered
<1>8. Foreseen(c) \subseteq Known
  BY <1>3, <1>5, <1>6, <1>7 DEF Foreseen, Known, FindStruct
<1> QED BY <1>3, <1>5, <1>8 DEF MInv, RegisteredOK

LEMMA KnownKept ==
  ASSUME MInv, UNCHANGED typemap
  PROVE  Known' = Known
BY DEF Known, FindStruct

LEMMA KnownGrows ==
  ASSUME MInv, ModulesNext
  PROVE  Known \subseteq Known'
<1>1. CASE UNCHANGED typemap
  BY <1>1, KnownKept
<1>2. CASE Register
  <2>1. PICK m : m = Current.module
    OBVIOUS
  <2>2. m \in Module
    <3>1. Current \in Load
      BY <1>2 DEF Register, Current, MInv, ModulesType
    <3> QED BY <2>1, <3>1 DEF Load
  <2>3. m # NULL
    BY <2>2, ModulesAssumption
  <2>4. typemap' = Updated(m)
    BY <1>2, <2>1 DEF Register
  <2>5. \A t \in TypeName : typemap[t] # NULL => typemap'[t] # NULL
    BY <2>3, <2>4 DEF Updated
  <2> QED BY <2>5, ModulesAssumption DEF Known, FindStruct
<1>3. CASE ~Register
  BY <1>1, <1>3 DEF ModulesNext, LoadStep, Require, Index, CheckFails,
                    DependencyThere, RequireDependency, DependencyFails
<1> QED BY <1>2, <1>3

(* A function is found with the meaning it has, in the table of the module *)
(* or in its list.                                                         *)
FoundFor(c, n, i) ==
  First(CheckOverride(ModuleOf[c], n),
        IF FindFunc(ModuleOf[c], n) THEN MethodEntry(n, i) ELSE NULL)

LEMMA FunctionFound ==
  ASSUME MInv, TablesOK, NEW c \in Known, NEW a \in Attr,
         NEW i \in Class \cup {NULL}, NEW n, n = FuncName[c, a], n # NULL
  PROVE  /\ FoundFor(c, n, i) \in ItemEntry \cup {NULL}
         /\ FoundFor(c, n, i) = NULL => FunctionMeans(c, a) = {}
         /\ FoundFor(c, n, i) # NULL => FunctionMeans(c, a) = {Meaning(FoundFor(c, n, i))}
<1>1. PICK m \in Module : m = ModuleOf[c] /\ mtable[m] # NULL
  BY KnownFacts
<1>2. n \in Name
  BY ModulesAssumption DEF Known
<1>3. PICK e : e = FoundFor(c, n, i)
  OBVIOUS
<1>4. PICK method : method = MethodEntry(n, i)
  OBVIOUS
<1>5. /\ Override(n) \in ItemEntry /\ Closure(n) \in ItemEntry
      /\ method \in ItemEntry
  BY <1>2, <1>4, ModulesAssumption DEF Override, Closure, MethodEntry, ItemEntry
<1>6. /\ Meaning(Override(n)) = <<"override", n>>
      /\ Meaning(Closure(n)) = <<"function", n>>
      /\ Meaning(method) = <<"function", n>>
      /\ Meaning(MethodEntry(n, NULL)) = <<"function", n>>
  BY <1>4 DEF Meaning, Override, Closure, MethodEntry
<1>7. Override(n) # NULL /\ Closure(n) # NULL /\ method # NULL
  BY <1>5, EntriesAssumption
<1>8. CASE n \in Overrides[m]
  <2>1. e = Override(n)
    BY <1>1, <1>2, <1>3, <1>7, <1>8 DEF FoundFor, First, TablesOK
  <2>2. FunctionMeans(c, a) = {Meaning(Override(n))}
    BY <1>1, <1>8 DEF FunctionMeans
  <2> QED BY <1>3, <1>5, <1>7, <2>1, <2>2
<1>9. CASE n \notin Overrides[m] /\ CheckOverride(m, n) = NULL /\ FindFunc(m, n)
  <2>1. e = method
    BY <1>1, <1>3, <1>4, <1>9 DEF FoundFor, First
  <2>2. FunctionMeans(c, a) = {<<"function", n>>}
    BY <1>1, <1>6, <1>9 DEF FunctionMeans
  <2> QED BY <1>3, <1>5, <1>6, <1>7, <2>1, <2>2
<1>10. CASE n \notin Overrides[m] /\ CheckOverride(m, n) = NULL /\ ~FindFunc(m, n)
  <2>1. e = NULL
    BY <1>1, <1>3, <1>10 DEF FoundFor, First
  <2>2. FunctionMeans(c, a) = {}
    BY <1>1, <1>10 DEF FunctionMeans
  <2> QED BY <1>3, <2>1, <2>2
<1>11. CASE n \notin Overrides[m] /\ CheckOverride(m, n) # NULL
  <2>1. CheckOverride(m, n) = Closure(n) /\ FindFunc(m, n)
    BY <1>1, <1>2, <1>11 DEF TablesOK
  <2>2. e = Closure(n)
    BY <1>1, <1>3, <1>7, <2>1 DEF FoundFor, First
  <2>3. FunctionMeans(c, a) = {<<"function", n>>}
    BY <1>1, <1>6, <1>11, <2>1 DEF FunctionMeans
  <2> QED BY <1>3, <1>5, <1>6, <1>7, <2>2, <2>3
<1> QED BY <1>8, <1>9, <1>10, <1>11

(* The entry e is what the set of meanings M says.                         *)
Agrees(e, M) ==
  /\ e \in ItemEntry \cup {NULL}
  /\ e = NULL => M = {}
  /\ e # NULL => M = {Meaning(e)}

Deciding(c, a, known) ==
  {j \in 1..Len(Interfaces[c]) :
     /\ Interfaces[c][j] \in known
     /\ FuncName[Interfaces[c][j], a] = NULL \/ FunctionMeans(Interfaces[c][j], a) # {}}

InterfacesMean(c, a, known) ==
  IF Deciding(c, a, known) = {} THEN {}
  ELSE FunctionMeans(Interfaces[c][Min(Deciding(c, a, known))], a)

LEMMA ClassFound ==
  ASSUME MInv, TablesOK, NEW c \in Known, NEW a \in Attr
  PROVE  Agrees(CheckClass(c, a),
                IF <<c, a>> \in Field THEN {Meaning(FieldEntry(c, a))}
                ELSE FunctionMeans(c, a))
<1>1. PICK n : n = FuncName[c, a]
  OBVIOUS
<1>2. CASE <<c, a>> \in Field
  <2>1. FieldEntry(c, a) \in ItemEntry
    BY <1>2 DEF FieldEntry, ItemEntry
  <2>2. CheckClass(c, a) = FieldEntry(c, a)
    BY <1>2 DEF CheckClass
  <2> QED BY <1>2, <2>1, <2>2, EntriesAssumption DEF Agrees
<1>3. CASE <<c, a>> \notin Field /\ n = NULL
  <2>1. CheckClass(c, a) = NULL /\ FunctionMeans(c, a) = {}
    BY <1>1, <1>3 DEF CheckClass, FunctionMeans
  <2> QED BY <1>3, <2>1 DEF Agrees
<1>4. CASE <<c, a>> \notin Field /\ n # NULL
  <2>1. CheckClass(c, a) = FoundFor(c, n, NULL)
    BY <1>1, <1>4 DEF CheckClass, FoundFor
  <2>2. Agrees(FoundFor(c, n, NULL), FunctionMeans(c, a))
    BY <1>1, <1>4, FunctionFound DEF Agrees
  <2> QED BY <1>4, <2>1, <2>2
<1> QED BY <1>2, <1>3, <1>4

LEMMA InterfacesFound ==
  ASSUME MInv, TablesOK, NEW c \in Known, NEW a \in Attr
  PROVE  Agrees(CheckInterfaces(c, a), InterfacesMean(c, a, Known))
<1>1. PICK ifs : ifs = Interfaces[c]
  OBVIOUS
<1>2. ifs \in Seq(Class)
  BY <1>1, MetatablesAssumption DEF Known
<1>3. PICK k \in Nat : k = Len(ifs)
  BY <1>2
<1>4. \A j \in 1..k : ifs[j] \in Class
  BY <1>2, <1>3
<1>5. PICK Ends : Ends = {j \in 1..k :
                 /\ FindStruct(ifs[j]) # NULL
                 /\ FuncName[ifs[j], a] = NULL \/ CheckInterface(ifs[j], a) # NULL}
  OBVIOUS
<1>6. ASSUME NEW j \in 1..k, FindStruct(ifs[j]) # NULL
      PROVE  /\ ifs[j] \in Known
             /\ FuncName[ifs[j], a] # NULL =>
                  Agrees(CheckInterface(ifs[j], a), FunctionMeans(ifs[j], a))
  <2>1. ifs[j] \in Known /\ ifs[j] \in Class
    BY <1>4, <1>6 DEF Known
  <2>2. PICK i \in Known : i = ifs[j] /\ i \in Class \cup {NULL}
    BY <2>1
  <2>3. ASSUME NEW n, n = FuncName[i, a], n # NULL
        PROVE  Agrees(CheckInterface(i, a), FunctionMeans(i, a))
    <3>1. CheckInterface(i, a) = FoundFor(i, n, i)
      BY <2>3 DEF CheckInterface, FoundFor
    <3>2. Agrees(FoundFor(i, n, i), FunctionMeans(i, a))
      BY <2>2, <2>3, FunctionFound DEF Agrees
    <3> QED BY <3>1, <3>2
  <2> QED BY <2>1, <2>2, <2>3
<1>7. Deciding(c, a, Known) = Ends
  <2>1. ASSUME NEW j \in 1..k
        PROVE  j \in Ends <=> j \in Deciding(c, a, Known)
    <3>1. j \in Deciding(c, a, Known) <=>
            /\ ifs[j] \in Known
            /\ FuncName[ifs[j], a] = NULL \/ FunctionMeans(ifs[j], a) # {}
      BY <1>1, <1>3 DEF Deciding
    <3>2. j \in Ends <=>
            /\ FindStruct(ifs[j]) # NULL
            /\ FuncName[ifs[j], a] = NULL \/ CheckInterface(ifs[j], a) # NULL
      BY <1>5
    <3>3. CASE FindStruct(ifs[j]) = NULL
      BY <3>1, <3>2, <3>3 DEF Known
    <3>4. CASE FindStruct(ifs[j]) # NULL /\ FuncName[ifs[j], a] = NULL
      BY <1>6, <3>1, <3>2, <3>4
    <3>5. CASE FindStruct(ifs[j]) # NULL /\ FuncName[ifs[j], a] # NULL
      <4>1. Agrees(CheckInterface(ifs[j], a), FunctionMeans(ifs[j], a))
        BY <1>6, <3>5
      <4>2. CheckInterface(ifs[j], a) # NULL <=> FunctionMeans(ifs[j], a) # {}
        BY <4>1 DEF Agrees
      <4> QED BY <1>6, <3>1, <3>2, <3>5, <4>2
    <3> QED BY <3>3, <3>4, <3>5
  <2>2. Ends \subseteq 1..k
    BY <1>5
  <2>3. Deciding(c, a, Known) \subseteq 1..k
    BY <1>1, <1>3 DEF Deciding
  <2> QED BY <2>1, <2>2, <2>3
<1>8. CheckInterfaces(c, a) =
        IF Ends = {} \/ FuncName[ifs[Min(Ends)], a] = NULL THEN NULL
        ELSE CheckInterface(ifs[Min(Ends)], a)
  BY <1>1, <1>3, <1>5 DEF CheckInterfaces
<1>9. CASE Ends = {}
  <2>1. CheckInterfaces(c, a) = NULL /\ InterfacesMean(c, a, Known) = {}
    BY <1>7, <1>8, <1>9 DEF InterfacesMean
  <2> QED BY <2>1 DEF Agrees
<1>10. CASE Ends # {}
  <2>1. PICK h : h = Min(Ends)
    OBVIOUS
  <2>2. h \in Ends
    <3>1. Ends \subseteq Nat
      <4>1. Ends \subseteq 1..k
        BY <1>5
      <4>2. 1..k \subseteq Nat
        OBVIOUS
      <4> QED BY <4>1, <4>2
    <3> QED BY <1>10, <2>1, <3>1, LeastMember
  <2>3. InterfacesMean(c, a, Known) = FunctionMeans(ifs[h], a)
    BY <1>1, <1>7, <1>10, <2>1 DEF InterfacesMean
  <2>4. h \in 1..k /\ FindStruct(ifs[h]) # NULL
    BY <1>5, <2>2
  <2>5. CASE FuncName[ifs[h], a] = NULL
    <3>1. CheckInterfaces(c, a) = NULL
      BY <1>8, <1>10, <2>1, <2>5
    <3>2. FunctionMeans(ifs[h], a) = {}
      BY <2>5 DEF FunctionMeans
    <3> QED BY <2>3, <3>1, <3>2 DEF Agrees
  <2>6. CASE FuncName[ifs[h], a] # NULL
    <3>1. CheckInterfaces(c, a) = CheckInterface(ifs[h], a)
      BY <1>8, <1>10, <2>1, <2>6
    <3> QED BY <1>6, <2>3, <2>4, <2>6, <3>1
  <2> QED BY <2>5, <2>6
<1> QED BY <1>9, <1>10

LEMMA OwnFound ==
  ASSUME MInv, TablesOK, NEW c \in Known, NEW a \in Attr
  PROVE  Agrees(Own(c, a), ClassMeans(c, a, Known))
<1>1. PICK e, f : e = CheckClass(c, a) /\ f = CheckInterfaces(c, a)
  OBVIOUS
<1>2. PICK M, N : M = FunctionMeans(c, a) /\ N = InterfacesMean(c, a, Known)
  OBVIOUS
<1>3. Own(c, a) = IF e # NULL THEN e ELSE f
  BY <1>1 DEF Own, First
<1>4. ClassMeans(c, a, Known) =
        IF <<c, a>> \in Field THEN {Meaning(FieldEntry(c, a))}
        ELSE IF M # {} \/ Deciding(c, a, Known) = {} THEN M ELSE N
  BY <1>2 DEF ClassMeans, InterfacesMean, Deciding
<1>5. Deciding(c, a, Known) = {} => N = {}
  BY <1>2 DEF InterfacesMean
<1>6. Agrees(e, IF <<c, a>> \in Field THEN {Meaning(FieldEntry(c, a))} ELSE M)
  BY <1>1, <1>2, ClassFound
<1>7. Agrees(f, N)
  BY <1>1, <1>2, InterfacesFound
<1> QED BY <1>3, <1>4, <1>5, <1>6, <1>7 DEF Agrees

-----------------------------------------------------------------------------
(* Base classes.                                                           *)
LEMMA Lineages ==
  ASSUME NEW c \in Class
  PROVE  /\ Len(Lineage[c]) \in Nat /\ Len(Lineage[c]) >= 1
         /\ Lineage[c][1] = c
         /\ \A i \in 1..Len(Lineage[c]) :
              /\ Lineage[c][i] \in Class
              /\ Len(Lineage[Lineage[c][i]]) = Len(Lineage[c]) - i + 1
              /\ \A j \in 1..(Len(Lineage[c]) - i + 1) :
                   Lineage[Lineage[c][i]][j] = Lineage[c][i + j - 1]
<1>1. PICK s : s = Lineage[c]
  OBVIOUS
<1>2. s \in Seq(Class) /\ Len(s) > 0 /\ s[1] = c
  BY <1>1, LineageAssumption
<1>3. ASSUME NEW i \in 1..Len(s)
      PROVE  /\ s[i] \in Class /\ Len(Lineage[s[i]]) = Len(s) - i + 1
             /\ \A j \in 1..(Len(s) - i + 1) : Lineage[s[i]][j] = s[i + j - 1]
  <2>1. Lineage[s[i]] = SubSeq(s, i, Len(s))
    BY <1>1, LineageAssumption
  <2>2. Len(SubSeq(s, i, Len(s))) = Len(s) - i + 1
    BY <1>2
  <2>3. \A j \in 1..(Len(s) - i + 1) : SubSeq(s, i, Len(s))[j] = s[i + j - 1]
    BY <1>2
  <2> QED BY <1>2, <2>1, <2>2, <2>3
<1>4. Len(s) \in Nat /\ Len(s) >= 1
  BY <1>2
<1>5. \A i \in 1..Len(s) :
        /\ s[i] \in Class /\ Len(Lineage[s[i]]) = Len(s) - i + 1
        /\ \A j \in 1..(Len(s) - i + 1) : Lineage[s[i]][j] = s[i + j - 1]
  BY <1>3
<1> QED BY <1>1, <1>2, <1>4, <1>5, Zenon

LEMMA BaseClass ==
  ASSUME NEW c \in Class, Len(Lineage[c]) > 1
  PROVE  Lineage[c][2] \in Class
<1>1. 2 \in 1..Len(Lineage[c])
  BY Lineages
<1> QED BY <1>1, Lineages

(* A class that leads to a meaning is the nearest one that has any.        *)
LEMMA LeadsMeans ==
  ASSUME NEW c \in Class, NEW k, NEW i \in 1..Len(Lineage[c]), NEW x, NEW known,
         Leads(c, k, i, x, known)
  PROVE  Means(c, k, known) = {x}
<1>1. PICK n \in Nat : n = Len(Lineage[c])
  BY Lineages
<1>2. i \in 1..n
  BY <1>1
<1>3. PICK Has : Has = {j \in 1..n : ClassMeans(Lineage[c][j], k, known) # {}}
  OBVIOUS
<1>4. i \in Has
  BY <1>2, <1>3 DEF Leads
<1>5. Has \subseteq Nat
  <2>1. Has \subseteq 1..n
    BY <1>3
  <2>2. 1..n \subseteq Nat
    OBVIOUS
  <2> QED BY <2>1, <2>2
<1>6. PICK h \in Has : h = Min(Has) /\ h <= i
  BY <1>4, <1>5, LeastMember
<1>7. h \in 1..n /\ ClassMeans(Lineage[c][h], k, known) # {}
  BY <1>3
<1>8. h = i
  <2>1. h \notin 1..(i - 1)
    BY <1>7 DEF Leads
  <2> QED BY <1>2, <1>6, <1>7, <2>1
<1>9. Means(c, k, known) = ClassMeans(Lineage[c][h], k, known)
  BY <1>1, <1>3, <1>4, <1>6 DEF Means
<1> QED BY <1>8, <1>9 DEF Leads

(* It goes on doing so when more classes are known.                        *)
LEMMA LeadsLater ==
  ASSUME Unhidden, NEW known \in SUBSET Class, NEW later \in SUBSET Class,
         known \subseteq later, \A d \in known : Foreseen(d) \subseteq known,
         NEW c \in Class, NEW k \in Attr, NEW i \in 1..Len(Lineage[c]), NEW x,
         Leads(c, k, i, x, known)
  PROVE  Leads(c, k, i, x, later)
<1>1. PICK n \in Nat : n = Len(Lineage[c])
  BY Lineages
<1>2. i \in 1..n
  BY <1>1
<1>3. ASSUME NEW j \in 1..i
      PROVE  \/ ClassMeans(Lineage[c][j], k, later) = ClassMeans(Lineage[c][j], k, known)
             \/ /\ ClassMeans(Lineage[c][j], k, known) = {}
                /\ \A h \in 2..Len(Lineage[Lineage[c][j]]) :
                     ClassMeans(Lineage[Lineage[c][j]][h], k, later) = {}
  <2>1. PICK d : d = Lineage[c][j]
    OBVIOUS
  <2>2. d \in known /\ d \in Class /\ Foreseen(d) \subseteq known
    BY <2>1 DEF Leads
  <2> QED BY <2>1, <2>2 DEF Unhidden
<1>4. ClassMeans(Lineage[c][i], k, later) = {x}
  <2>1. i \in 1..i /\ ClassMeans(Lineage[c][i], k, known) = {x}
    BY <1>2 DEF Leads
  <2> QED BY <1>3, <2>1
<1>5. ASSUME NEW j \in 1..(i - 1)
      PROVE  ClassMeans(Lineage[c][j], k, later) = {}
  <2>1. j \in 1..i /\ ClassMeans(Lineage[c][j], k, known) = {}
    BY <1>2 DEF Leads
  <2>2. j \in 1..Len(Lineage[c])
    BY <1>1, <1>2
  <2>3. PICK h \in Int : h = i - j + 1
    BY <1>2
  <2>4. h \in 2..(n - j + 1) /\ h \in 1..(n - j + 1) /\ j + h - 1 = i
    BY <1>1, <1>2, <2>3
  <2>5. h \in 2..Len(Lineage[Lineage[c][j]]) /\ Lineage[Lineage[c][j]][h] = Lineage[c][i]
    BY <1>1, <2>2, <2>4, Lineages
  <2>6. ClassMeans(Lineage[Lineage[c][j]][h], k, later) # {}
    BY <1>4, <2>5
  <2> QED BY <1>3, <2>1, <2>5, <2>6
<1> QED BY <1>4, <1>5 DEF Leads

(* What a base class leads to, the class does if the ones between have not *)
(* the name.                                                               *)
LEMMA LeadsUp ==
  ASSUME NEW c \in Class, NEW k, NEW x, NEW known,
         NEW i \in 1..Len(Lineage[c]), NEW h \in 1..Len(Lineage[Lineage[c][i]]),
         \A j \in 1..(i - 1) : /\ Lineage[c][j] \in known
                               /\ ClassMeans(Lineage[c][j], k, known) = {},
         Leads(Lineage[c][i], k, h, x, known)
  PROVE  \E g \in 1..Len(Lineage[c]) : Leads(c, k, g, x, known)
<1>1. PICK n \in Nat : n = Len(Lineage[c])
  BY Lineages
<1>2. i \in 1..n
  BY <1>1
<1>3. PICK d : d = Lineage[c][i]
  OBVIOUS
<1>4. Len(Lineage[d]) = n - i + 1 /\ \A j \in 1..(n - i + 1) :
        Lineage[d][j] = Lineage[c][i + j - 1]
  BY <1>1, <1>2, <1>3, Lineages
<1>5. h \in 1..(n - i + 1)
  BY <1>3, <1>4
<1>6. PICK g \in Int : g = i + h - 1
  BY <1>2, <1>5
<1>7. g \in 1..n
  BY <1>2, <1>5, <1>6
<1>8. Lineage[c][g] = Lineage[d][h]
  BY <1>4, <1>5, <1>6
<1>9. ASSUME NEW j \in 1..g
      PROVE  /\ Lineage[c][j] \in known
             /\ j < g => ClassMeans(Lineage[c][j], k, known) = {}
  <2>1. CASE j < i
    <3>1. j \in 1..(i - 1)
      BY <1>2, <2>1
    <3> QED BY <3>1
  <2>2. CASE j >= i
    <3>1. PICK f \in Int : f = j - i + 1
      BY <1>2
    <3>2. f \in 1..h /\ f \in 1..(n - i + 1) /\ i + f - 1 = j
      BY <1>2, <1>5, <1>6, <2>2, <3>1
    <3>3. Lineage[c][j] = Lineage[d][f]
      BY <1>4, <3>2
    <3>4. j < g => f \in 1..(h - 1)
      BY <1>2, <1>5, <1>6, <3>1, <3>2
    <3> QED BY <1>3, <3>2, <3>3, <3>4 DEF Leads
  <2> QED BY <1>2, <2>1, <2>2
<1>10. \A j \in 1..(g - 1) : j \in 1..g /\ j < g
  BY <1>7
<1>11. Leads(c, k, g, x, known)
  BY <1>3, <1>8, <1>9, <1>10 DEF Leads
<1> QED BY <1>1, <1>7, <1>11

-----------------------------------------------------------------------------
(* What is looked up in the metatables.  Those that are reached are there. *)
LEMMA ReachedKnown ==
  ASSUME metatables \in [Class -> Metatable \cup {NULL}], ReachOK,
         NEW c \in Class, metatables[c] # NULL
  PROVE  \A i \in Reached(c) : /\ Lineage[c][i] \in Class
                               /\ metatables[Lineage[c][i]] # NULL
                               /\ Lineage[c][i] \in Known
<1>1. PICK n \in Nat : n = Len(Lineage[c])
  BY Lineages
<1>2. Reached(c) \subseteq 1..n
  BY <1>1 DEF Reached
<1> DEFINE T == {i \in Nat : i \in Reached(c) => metatables[Lineage[c][i]] # NULL}
<1>3. 0 \in T
  BY <1>2
<1>4. ASSUME NEW i \in Nat, i \in T
      PROVE  i + 1 \in T
  <2> SUFFICES ASSUME i + 1 \in Reached(c)
               PROVE  metatables[Lineage[c][i + 1]] # NULL
    OBVIOUS
  <2>1. CASE i = 0
    <3>1. i + 1 = 1 /\ Lineage[c][1] = c
      BY <2>1, Lineages
    <3> QED BY <3>1
  <2>2. CASE i # 0
    <3>1. i \in 1..n /\ i + 1 \in 1..n
      BY <1>2, <2>2
    <3>2. PICK d : d = Lineage[c][i]
      OBVIOUS
    <3>3. d \in Class /\ Len(Lineage[d]) = n - i + 1 /\ Lineage[d][2] = Lineage[c][i + 1]
      <4>1. 2 \in 1..(n - i + 1) /\ i + 2 - 1 = i + 1
        BY <3>1
      <4> QED BY <1>1, <3>1, <3>2, <4>1, Lineages
    <3>4. i \in Reached(c)
      BY <1>1, <3>1 DEF Reached
    <3>5. metatables[d] # NULL
      BY <1>4, <3>2, <3>4
    <3>6. metatables[d].parent # NULL
      <4>1. i \in 1..((i + 1) - 1)
        BY <3>1
      <4> QED BY <3>2, <4>1 DEF Reached
    <3> QED BY <3>3, <3>5, <3>6 DEF ReachOK
  <2> QED BY <2>1, <2>2
<1>5. Nat \subseteq T
  <2> HIDE DEF T
  <2> QED BY <1>3, <1>4, AllNumbers
<1>6. ASSUME NEW i \in Reached(c)
      PROVE  Lineage[c][i] \in Class /\ metatables[Lineage[c][i]] # NULL
  <2>1. i \in 1..n /\ i \in Nat
    BY <1>2
  <2>2. i \in T
    BY <1>5, <2>1
  <2> QED BY <1>1, <2>1, <2>2, Lineages
<1> QED BY <1>6 DEF ReachOK

(* What a name leads to is right, and it has the type of an entry.         *)
LEMMA RecurseRight ==
  ASSUME LInv, NEW c \in Class, metatables[c] # NULL, NEW k \in Item,
         Recurse(c, k).entry # NULL
  PROVE  /\ Recurse(c, k).entry \in ItemEntry
         /\ Right(c, k, Recurse(c, k).entry, Known)
<1> DEFINE At(i) == In(Lineage[c][i], k).entry
<1>1. PICK n \in Nat : n = Len(Lineage[c])
  BY Lineages
<1>2. \A i \in Reached(c) : /\ Lineage[c][i] \in Class
                            /\ metatables[Lineage[c][i]] # NULL
                            /\ Lineage[c][i] \in Known
  BY ReachedKnown DEF LInv
<1>3. PICK Having : Having = {i \in Reached(c) : At(i) # NULL}
  OBVIOUS
<1>4. Reached(c) \subseteq 1..n
  BY <1>1 DEF Reached
<1>5. ASSUME NEW i \in Reached(c)
      PROVE  /\ At(i) = IF metatables[Lineage[c][i]].entries[k] # NULL
                        THEN metatables[Lineage[c][i]].entries[k]
                        ELSE Own(Lineage[c][i], k)
             /\ metatables[Lineage[c][i]].entries[k] \in ItemEntry \cup {NULL}
  <2>1. PICK d \in Class : d = Lineage[c][i] /\ metatables[d] # NULL
    BY <1>2
  <2>2. metatables[d] \in Metatable
    BY <2>1 DEF LInv
  <2>3. metatables[d].entries[k] \in ItemEntry \cup {NULL}
    BY <2>2 DEF Metatable
  <2>4. PICK e, f : e = metatables[d].entries[k] /\ f = Own(d, k)
    OBVIOUS
  <2>5. At(i) = IF e # NULL THEN e ELSE f
    <3>1. At(i) = FirstResult(Result(e, 2), New(f)).entry
      BY <2>1, <2>4 DEF In
    <3>2. Result(e, 2).entry = e /\ New(f).entry = f
      BY DEF Result, New
    <3> QED BY <3>1, <3>2 DEF FirstResult
  <2> QED BY <2>1, <2>3, <2>4, <2>5
<1>6. Recurse(c, k) = IF Having = {} THEN New(LastTry(c, k))
                      ELSE In(Lineage[c][Min(Having)], k)
  BY <1>3 DEF Recurse
<1> HIDE DEF At
<1>7. CASE Having = {}
  <2>1. Recurse(c, k).entry = LastTry(c, k)
    BY <1>6, <1>7 DEF New, Result
  <2>2. k \in Complete /\ LastTry(c, k) = MethodEntry(k, NULL)
    BY <2>1 DEF LastTry
  <2>3. k \notin Attr /\ k \in Name
    BY <2>2, MetatablesAssumption, ModulesAssumption
  <2>4. MethodEntry(k, NULL) \in ItemEntry
    BY <2>3 DEF MethodEntry, ItemEntry
  <2>5. Meaning(MethodEntry(k, NULL)) = <<"function", k>>
    BY DEF Meaning, MethodEntry
  <2> QED BY <2>1, <2>2, <2>3, <2>4, <2>5 DEF Right
<1>8. CASE Having # {}
  <2>1. Having \subseteq Nat
    <3>1. Having \subseteq 1..n
      BY <1>3, <1>4
    <3>2. 1..n \subseteq Nat
      OBVIOUS
    <3> QED BY <3>1, <3>2
  <2>2. PICK i \in Having : i = Min(Having) /\ \A j \in Having : i <= j
    BY <1>8, <2>1, LeastMember
  <2>3. i \in Reached(c) /\ At(i) # NULL /\ i \in 1..n
    BY <1>3, <1>4
  <2>4. PICK e : e = Recurse(c, k).entry /\ e = At(i)
    BY <1>6, <1>8, <2>2 DEF At
  <2>5. ASSUME NEW j \in 1..(i - 1)
        PROVE  j \in Reached(c) /\ At(j) = NULL
    <3>1. j \in 1..n /\ j < i /\ \A g \in 1..(j - 1) : g \in 1..(i - 1)
      BY <2>3
    <3>2. j \in Reached(c)
      BY <1>1, <2>3, <3>1 DEF Reached
    <3>3. j \notin Having
      BY <2>2, <2>3, <3>1
    <3> QED BY <1>3, <3>2, <3>3
  <2>6. PICK d \in Class : d = Lineage[c][i] /\ metatables[d] # NULL /\ d \in Known
    BY <1>2, <2>3
  <2>7. CASE k \notin Attr
    <3>1. Own(d, k) = NULL
      BY <2>7 DEF Own
    <3>2. e = metatables[d].entries[k] /\ e # NULL /\ e \in ItemEntry
      BY <1>5, <2>3, <2>4, <2>6, <3>1
    <3>3. Right(d, k, e, Known)
      BY <2>6, <3>2 DEF LInv, RememberedOK
    <3> QED BY <2>4, <2>7, <3>2, <3>3 DEF Right
  <2>8. CASE k \in Attr
    <3>1. ASSUME NEW j \in 1..(i - 1)
          PROVE  Lineage[c][j] \in Known /\ ClassMeans(Lineage[c][j], k, Known) = {}
      <4>1. PICK b \in Known : b = Lineage[c][j]
        BY <1>2, <2>5
      <4>2. Own(b, k) = NULL
        BY <1>5, <2>5, <4>1
      <4>3. Agrees(Own(b, k), ClassMeans(b, k, Known))
        BY <2>8, OwnFound DEF LInv
      <4> QED BY <4>1, <4>2, <4>3 DEF Agrees
    <3>2. \E h \in 1..Len(Lineage[d]) : Leads(d, k, h, Meaning(e), Known)
      <4>1. CASE metatables[d].entries[k] # NULL
        <5>1. e = metatables[d].entries[k]
          BY <1>5, <2>3, <2>4, <2>6, <4>1
        <5> QED BY <2>6, <2>8, <4>1, <5>1 DEF LInv, RememberedOK, Right
      <4>2. CASE metatables[d].entries[k] = NULL
        <5>1. e = Own(d, k) /\ e # NULL
          BY <1>5, <2>3, <2>4, <2>6, <4>2
        <5>2. Agrees(e, ClassMeans(d, k, Known))
          BY <2>6, <2>8, <5>1, OwnFound DEF LInv
        <5>3. ClassMeans(d, k, Known) = {Meaning(e)}
          BY <5>1, <5>2 DEF Agrees
        <5>4. Len(Lineage[d]) \in Nat /\ Len(Lineage[d]) >= 1 /\ Lineage[d][1] = d
          BY Lineages
        <5>5. Leads(d, k, 1, Meaning(e), Known)
          BY <2>6, <5>3, <5>4 DEF Leads
        <5> QED BY <5>4, <5>5
      <4> QED BY <4>1, <4>2
    <3>3. PICK h \in 1..Len(Lineage[d]) : Leads(d, k, h, Meaning(e), Known)
      BY <3>2
    <3>4. \E g \in 1..Len(Lineage[c]) : Leads(c, k, g, Meaning(e), Known)
      <4>1. PICK x, known : x = Meaning(e) /\ known = Known
        OBVIOUS
      <4>2. i \in 1..Len(Lineage[c])
        BY <1>1, <2>3
      <4> QED BY <2>6, <3>1, <3>3, <4>1, <4>2, LeadsUp
    <3>5. e \in ItemEntry
      <4>1. Agrees(Own(d, k), ClassMeans(d, k, Known))
        BY <2>6, <2>8, OwnFound DEF LInv
      <4>2. e = metatables[d].entries[k] \/ e = Own(d, k)
        BY <1>5, <2>3, <2>4, <2>6
      <4>3. metatables[d].entries[k] \in ItemEntry \cup {NULL}
        BY <1>5, <2>3, <2>6
      <4> QED BY <2>3, <2>4, <4>1, <4>2, <4>3 DEF Agrees
    <3> QED BY <2>4, <2>8, <3>4, <3>5 DEF Right
  <2> QED BY <2>7, <2>8
<1> QED BY <1>7, <1>8

-----------------------------------------------------------------------------
(* The initial state, and the steps.                                       *)
LEMMA LInvInit == Init => LInv
<1> SUFFICES ASSUME Init PROVE LInv
  OBVIOUS
<1>1. MInv
  BY MInvInit DEF Init
<1>2. TablesOK
  BY DEF Init, ModulesInit, TablesOK
<1>3. /\ metatables \in [Class -> Metatable \cup {NULL}]
      /\ ReachOK /\ RememberedOK /\ ObjectsOK
  BY DEF Init, ReachOK, RememberedOK, ObjectsOK
<1> QED BY <1>1, <1>2, <1>3 DEF LInv

(* What was remembered stays right as more classes come to be known.       *)
LEMMA RightLater ==
  ASSUME Unhidden, MInv, Known \subseteq Known', NEW c \in Class, NEW k \in Item,
         NEW e, Right(c, k, e, Known)
  PROVE  Right(c, k, e, Known')
<1>1. PICK known \in SUBSET Class, later \in SUBSET Class :
        known = Known /\ later = Known'
  BY DEF Known
<1>2. known \subseteq later /\ \A d \in known : Foreseen(d) \subseteq known
  BY <1>1, KnownFacts
<1>3. PICK x : x = Meaning(e)
  OBVIOUS
<1>4. CASE k \in Attr
  <2>1. PICK i \in 1..Len(Lineage[c]) : Leads(c, k, i, x, known)
    BY <1>1, <1>3, <1>4 DEF Right
  <2>2. Leads(c, k, i, x, later)
    BY <1>2, <1>4, <2>1, LeadsLater
  <2> QED BY <1>1, <1>3, <1>4, <2>2 DEF Right
<1>5. CASE k \notin Attr
  BY <1>5 DEF Right
<1> QED BY <1>4, <1>5

LEMMA LInvModules ==
  ASSUME Unhidden, LInv, MInv', TablesOK', Known \subseteq Known',
         UNCHANGED metaVars
  PROVE  LInv'
<1>1. ReachOK'
  BY DEF LInv, ReachOK, metaVars
<1>2. RememberedOK'
  <2> SUFFICES ASSUME NEW c \in Class, NEW k \in Item,
                      metatables[c] # NULL, metatables[c].entries[k] # NULL
               PROVE  Right(c, k, metatables[c].entries[k], Known')
    BY DEF RememberedOK, metaVars
  <2>1. PICK e : e = metatables[c].entries[k]
    OBVIOUS
  <2>2. Right(c, k, e, Known)
    BY <2>1 DEF LInv, RememberedOK
  <2> QED BY <2>1, <2>2, RightLater DEF LInv
<1>3. ObjectsOK' /\ metatables' \in [Class -> Metatable \cup {NULL}]
  BY DEF LInv, ObjectsOK, metaVars
<1> QED BY <1>1, <1>2, <1>3 DEF LInv

LEMMA LInvObject ==
  ASSUME LInv, NEW o \in Object, GetObject(o)
  PROVE  LInv'
<1>1. PICK c \in Class : c = ClassOf[o]
  BY MetatablesAssumption
<1>2. PICK n \in Nat : n = Len(Lineage[c]) /\ n >= 1
  BY Lineages
<1>3. MInv' /\ TablesOK' /\ Known' = Known
  BY UnchangedKeeps, TablesKept, KnownKept DEF LInv, GetObject, moduleVars
<1>4. \A d \in Class : Meta(d) \in Metatable /\ Meta(d).entries = None
  <2> SUFFICES ASSUME NEW d \in Class
               PROVE  Meta(d) \in Metatable /\ Meta(d).entries = None
    OBVIOUS
  <2>1. PICK p : p = Meta(d).parent
    OBVIOUS
  <2>2. Parent(d) \in Class \cup {NULL}
    <3>1. Len(Lineage[d]) > 1 => Lineage[d][2] \in Class
      BY BaseClass
    <3> QED BY <3>1 DEF Parent
  <2>3. p \in Class \cup {NULL}
    BY <2>1, <2>2 DEF Meta
  <2>4. Meta(d) = [parent |-> p, entries |-> None]
    BY <2>1 DEF Meta
  <2>5. None \in [Item -> ItemEntry \cup {NULL}]
    BY DEF None
  <2> QED BY <2>3, <2>4, <2>5 DEF Metatable
<1> DEFINE IsNew(d, i) ==
             /\ Lineage[c][i] = d
             /\ \A j \in 1..(i - 1) : metatables[Lineage[c][j]] = NULL
             /\ \A j \in 1..i : FindStruct(Lineage[c][j]) # NULL
           new == {d \in Class : metatables[d] = NULL /\ \E i \in 1..n : IsNew(d, i)}
<1>5. metatables' = [d \in Class |-> IF d \in new THEN Meta(d) ELSE metatables[d]]
  BY <1>1, <1>2 DEF GetObject, GetObjectMeta
<1>6. \A d \in Class : metatables'[d] = IF d \in new THEN Meta(d) ELSE metatables[d]
  BY <1>5
<1>7. metatables' \in [Class -> Metatable \cup {NULL}]
  <2> HIDE DEF new
  <2> QED BY <1>4, <1>5 DEF LInv
<1>8. \A d \in new : Meta(d) # NULL
  BY <1>4, EntriesAssumption
<1>9. \A d \in Class : metatables[d] # NULL =>
        metatables'[d] = metatables[d] /\ metatables'[d] # NULL
  BY <1>6
<1>10. ASSUME NEW d \in new, Meta(d).parent # NULL
       PROVE  /\ Len(Lineage[d]) > 1 /\ Meta(d).parent = Lineage[d][2]
              /\ metatables'[Lineage[d][2]] # NULL
  <2>1. PICK i \in 1..n : IsNew(d, i)
    OBVIOUS
  <2>2. Parent(d) # NULL /\ FindStruct(Parent(d)) # NULL /\ Meta(d).parent = Parent(d)
    BY <1>10 DEF Meta
  <2>3. Len(Lineage[d]) > 1 /\ Parent(d) = Lineage[d][2]
    BY <2>2 DEF Parent
  <2>4. PICK b : b = Lineage[d][2]
    OBVIOUS
  <2>5. i + 1 \in 1..n /\ b = Lineage[c][i + 1] /\ b \in Class
    <3>1. Len(Lineage[d]) = n - i + 1
      BY <1>2, <2>1, Lineages
    <3>2. i + 1 \in 1..n /\ 2 \in 1..(n - i + 1) /\ i + 2 - 1 = i + 1
      BY <2>3, <3>1
    <3>3. Lineage[c][i] = d /\ i \in 1..Len(Lineage[c])
      BY <1>2, <2>1
    <3>4. Lineage[d][2] = Lineage[c][i + 2 - 1]
      BY <1>2, <3>2, <3>3, Lineages
    <3>5. Lineage[c][i + 1] \in Class
      BY <1>2, <3>2, Lineages
    <3> QED BY <2>4, <3>2, <3>4, <3>5
  <2>6. CASE metatables[b] # NULL
    BY <1>9, <2>2, <2>3, <2>4, <2>5, <2>6
  <2>7. CASE metatables[b] = NULL
    <3>1. \A j \in 1..((i + 1) - 1) : metatables[Lineage[c][j]] = NULL
      <4>1. \A j \in 1..i : j = i \/ j \in 1..(i - 1)
        OBVIOUS
      <4> QED BY <2>1, <4>1
    <3>2. \A j \in 1..(i + 1) : FindStruct(Lineage[c][j]) # NULL
      <4>1. \A j \in 1..(i + 1) : j = i + 1 \/ j \in 1..i
        OBVIOUS
      <4> QED BY <2>1, <2>2, <2>3, <2>4, <2>5, <4>1
    <3>3. IsNew(b, i + 1)
      BY <2>5, <3>1, <3>2
    <3>4. b \in new
      BY <2>5, <2>7, <3>3
    <3> QED BY <1>6, <1>8, <2>2, <2>3, <2>4, <2>5, <3>4
  <2> QED BY <2>6, <2>7
<1>11. \A d \in new : d \in Known
  <2> SUFFICES ASSUME NEW d \in new PROVE d \in Known
    OBVIOUS
  <2>1. PICK i \in 1..n : IsNew(d, i)
    OBVIOUS
  <2>2. FindStruct(d) # NULL
    <3>1. i \in 1..i
      OBVIOUS
    <3> QED BY <2>1, <3>1
  <2> QED BY <2>2 DEF Known
<1>12. ObjectsOK'
  <2>1. metatables'[c] # NULL
    <3>1. CASE metatables[c] # NULL
      BY <1>9, <3>1
    <3>2. CASE metatables[c] = NULL
      <4>1. Lineage[c][1] = c /\ 1 \in 1..n
        BY <1>2, Lineages
      <4>2. FindStruct(c) # NULL
        BY <1>1 DEF GetObject
      <4>3. IsNew(c, 1)
        BY <4>1, <4>2
      <4>4. c \in new
        BY <3>2, <4>1, <4>3
      <4> QED BY <1>6, <1>8, <4>4
    <3> QED BY <3>1, <3>2
  <2>2. alive' = alive \cup {o}
    BY DEF GetObject
  <2> HIDE DEF new
  <2> QED BY <1>1, <1>9, <2>1, <2>2, MetatablesAssumption DEF LInv, ObjectsOK
<1> HIDE DEF new
<1>13. ReachOK'
  <2> SUFFICES ASSUME NEW d \in Class, metatables'[d] # NULL
               PROVE  /\ d \in Known
                      /\ metatables'[d].parent # NULL =>
                           /\ Len(Lineage[d]) > 1
                           /\ metatables'[d].parent = Lineage[d][2]
                           /\ metatables'[Lineage[d][2]] # NULL
    BY <1>3 DEF ReachOK
  <2>1. CASE d \in new
    BY <1>6, <1>10, <1>11, <2>1
  <2>2. CASE d \notin new
    <3>1. metatables'[d] = metatables[d] /\ metatables[d] # NULL
      BY <1>6, <2>2
    <3>2. Len(Lineage[d]) > 1 => Lineage[d][2] \in Class
      BY BaseClass
    <3> QED BY <1>9, <3>1, <3>2 DEF LInv, ReachOK
  <2> QED BY <2>1, <2>2
<1>14. RememberedOK'
  <2> SUFFICES ASSUME NEW d \in Class, NEW k \in Item,
                      metatables'[d] # NULL, metatables'[d].entries[k] # NULL
               PROVE  Right(d, k, metatables'[d].entries[k], Known)
    BY <1>3 DEF RememberedOK
  <2>1. d \notin new
    BY <1>4, <1>6 DEF None
  <2>2. metatables'[d] = metatables[d]
    BY <1>6, <2>1
  <2> QED BY <2>2 DEF LInv, RememberedOK
<1> QED BY <1>3, <1>7, <1>12, <1>13, <1>14 DEF LInv

(* An object is read or assigned to.                                       *)
LEMMA AccessFinds ==
  ASSUME NEW o, NEW k, NEW f, Access(o, k, f)
  PROVE  Finds(o, k, f) /\ UNCHANGED <<alive, typemap, mtable>>
<1>1. ASSUME NEW e, Normalizes(e)
      PROVE  UNCHANGED <<typemap, mtable>>
  BY <1>1 DEF Normalizes, Require, moduleVars
<1>2. CASE ObjectIndex(o, k, f)
  BY <1>1, <1>2 DEF ObjectIndex
<1>3. ASSUME NEW v \in Value, ObjectNewindex(o, k, v, f)
      PROVE  Finds(o, k, f) /\ UNCHANGED <<alive, typemap, mtable>>
  <2>1. CASE SetEnvironment(o, k, v, f)
    BY <2>1 DEF SetEnvironment, moduleVars
  <2>2. CASE SetField(o, k, f)
    BY <1>1, <2>2 DEF SetField, Writes
  <2>3. CASE SetVirtual(o, k, f)
    BY <2>3 DEF SetVirtual, Writes, moduleVars
  <2>4. CASE SetOverride(o, k, f)
    BY <2>4 DEF SetOverride, Writes, moduleVars
  <2> QED BY <1>3, <2>1, <2>2, <2>3, <2>4 DEF ObjectNewindex
<1> QED BY <1>2, <1>3 DEF Access

LEMMA LInvAccess ==
  ASSUME LInv, MInv', NEW o \in Object, NEW k \in Item,
         Access(o, k, FindElement(o, k))
  PROVE  LInv'
<1>1. PICK f : f = FindElement(o, k)
  OBVIOUS
<1>2. Finds(o, k, f) /\ UNCHANGED <<alive, typemap, mtable>>
  BY <1>1, AccessFinds
<1>3. PICK c \in Class : c = ClassOf[o]
  BY MetatablesAssumption
<1>4. metatables[c] # NULL
  BY <1>2, <1>3 DEF Finds, LInv, ObjectsOK
<1>5. TablesOK' /\ Known' = Known
  BY <1>2, TablesKept, KnownKept DEF LInv
<1>6. CASE f.entry = NULL
  <2>1. metatables' = metatables
    BY <1>2, <1>6 DEF Finds
  <2> QED BY <1>2, <1>5, <2>1 DEF LInv, ReachOK, RememberedOK, ObjectsOK
<1>7. CASE f.entry # NULL
  <2>1. PICK e : e = f.entry
    OBVIOUS
  <2>2. f = Recurse(c, k)
    BY <1>1, <1>3, <1>7 DEF FindElement, Result
  <2>3. e \in ItemEntry /\ Right(c, k, e, Known)
    BY <1>4, <1>7, <2>1, <2>2, RecurseRight
  <2>4. metatables' = [metatables EXCEPT ![c].entries[k] = e]
    BY <1>2, <1>3, <1>7, <2>1 DEF Finds, Remember
  <2>5. PICK t : t = metatables[c]
    OBVIOUS
  <2>6. t \in Metatable
    BY <1>4, <2>5 DEF LInv
  <2>7. PICK s : s = [t EXCEPT !.entries = [t.entries EXCEPT ![k] = e]]
    OBVIOUS
  <2>8. /\ s \in Metatable /\ s.parent = t.parent
        /\ \A q \in Item : s.entries[q] = IF q = k THEN e ELSE t.entries[q]
    BY <2>3, <2>6, <2>7 DEF Metatable
  <2>9. metatables' = [metatables EXCEPT ![c] = s]
    BY <2>4, <2>5, <2>7
  <2>10. metatables \in [Class -> Metatable \cup {NULL}]
    BY DEF LInv
  <2>11. /\ metatables' \in [Class -> Metatable \cup {NULL}]
         /\ \A d \in Class : metatables'[d] = IF d = c THEN s ELSE metatables[d]
    BY <2>8, <2>9, <2>10
  <2>12. s # NULL
    BY <2>8, EntriesAssumption
  <2>13. \A d \in Class : /\ metatables'[d] # NULL <=> metatables[d] # NULL
                          /\ metatables'[d] # NULL =>
                               metatables'[d].parent = metatables[d].parent
    BY <1>4, <2>5, <2>8, <2>11, <2>12
  <2>14. ReachOK'
    <3> SUFFICES ASSUME NEW d \in Class, metatables'[d] # NULL
                 PROVE  /\ d \in Known
                        /\ metatables'[d].parent # NULL =>
                             /\ Len(Lineage[d]) > 1
                             /\ metatables'[d].parent = Lineage[d][2]
                             /\ metatables'[Lineage[d][2]] # NULL
      BY <1>5 DEF ReachOK
    <3>1. Len(Lineage[d]) > 1 => Lineage[d][2] \in Class
      BY BaseClass
    <3> QED BY <2>13, <3>1 DEF LInv, ReachOK
  <2>15. RememberedOK'
    <3> SUFFICES ASSUME NEW d \in Class, NEW q \in Item,
                        metatables'[d] # NULL, metatables'[d].entries[q] # NULL
                 PROVE  Right(d, q, metatables'[d].entries[q], Known)
      BY <1>5 DEF RememberedOK
    <3>1. CASE d = c /\ q = k
      BY <2>3, <2>8, <2>11, <3>1
    <3>2. CASE ~(d = c /\ q = k)
      <4>1. metatables[d] # NULL
        BY <2>13
      <4>2. metatables'[d].entries[q] = metatables[d].entries[q]
        BY <2>5, <2>8, <2>11, <3>2
      <4> QED BY <4>1, <4>2 DEF LInv, RememberedOK
    <3> QED BY <3>1, <3>2
  <2>16. ObjectsOK'
    BY <1>2, <2>13, MetatablesAssumption DEF LInv, ObjectsOK
  <2> QED BY <1>5, <2>11, <2>14, <2>15, <2>16 DEF LInv
<1> QED BY <1>6, <1>7

LEMMA LInvNext ==
  ASSUME Unhidden, LInv, [Next]_vars
  PROVE  LInv'
<1>1. MInv'
  BY NextKeeps DEF LInv
<1>2. CASE UNCHANGED vars
  <2>1. TablesOK' /\ Known \subseteq Known' /\ UNCHANGED metaVars
    BY <1>2, TablesKept, KnownKept DEF vars, moduleVars, LInv
  <2> QED BY <1>1, <2>1, LInvModules
<1>3. CASE ModulesNext /\ UNCHANGED metaVars
  <2>1. TablesOK' /\ Known \subseteq Known'
    BY <1>3, TablesNext, KnownGrows DEF LInv
  <2> QED BY <1>1, <1>3, <2>1, LInvModules
<1>4. CASE \E o \in Object : GetObject(o)
  BY <1>4, LInvObject
<1>5. CASE \E o \in Object : \E k \in Item : Access(o, k, FindElement(o, k))
  BY <1>1, <1>5, LInvAccess
<1> QED BY <1>2, <1>3, <1>4, <1>5 DEF Next

(* Looking up a name of an object gives what the libraries define, however *)
(* often it was looked up, through which class, and whichever modules were *)
(* loaded since, unless one of them has an interface that hides a name     *)
(* (_find_element and _fe_recurse, object_meta.c).                         *)
THEOREM Lookup_Right ==
  ASSUME Unhidden
  PROVE  Spec => []LookupRight
<1>1. Init => LInv
  BY LInvInit
<1>2. LInv /\ [Next]_vars => LInv'
  BY LInvNext
<1>3. LInv => LookupRight
  <2> SUFFICES ASSUME LInv, NEW c \in Class, NEW k \in Item,
                      metatables[c] # NULL, metatables[c].entries[k] # NULL
               PROVE  {Meaning(metatables[c].entries[k])} =
                        IF k \in Attr THEN Means(c, k, Known) ELSE {<<"function", k>>}
    BY Hash_Tables_Right DEF LookupRight
  <2>1. PICK e : e = metatables[c].entries[k]
    OBVIOUS
  <2>2. Right(c, k, e, Known)
    BY <2>1 DEF LInv, RememberedOK
  <2>3. CASE k \in Attr
    <3>1. PICK i \in 1..Len(Lineage[c]) : Leads(c, k, i, Meaning(e), Known)
      BY <2>2, <2>3 DEF Right
    <3>2. PICK x, known : x = Meaning(e) /\ known = Known
      OBVIOUS
    <3>3. Means(c, k, known) = {x}
      BY <3>1, <3>2, LeadsMeans
    <3> QED BY <2>1, <2>3, <3>2, <3>3
  <2>4. CASE k \notin Attr
    BY <2>1, <2>2, <2>4 DEF Right
  <2> QED BY <2>3, <2>4
<1> QED BY <1>1, <1>2, <1>3, PTL DEF Spec
=============================================================================
