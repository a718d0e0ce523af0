-------------------------- MODULE VoidWrapperProofs --------------------------
(* Theorems about VoidWrapper, for any number of wrappers and userdata. *)
EXTENDS VoidWrapper, FiniteSetTheorems, TLAPS

-----------------------------------------------------------------------------
(***************************************************************************)
(* The inductive invariant.  What makes it inductive is Kept: the program  *)
(* still holds on to whatever the library has a pointer to, so the last    *)
(* userdata to be finalized takes nothing with it that is in use.          *)
(***************************************************************************)
FreedCleared == \A a \in Wrapper : a \in alloc <=> ref[a] # NULL
Attached     == \A u \in Udata : st[u] = "free" <=> wrapper[u] = NULL
Kept         == \A a \in stored : a \in owed \/ Users(a) # {}
OwedLive     == owed \subseteq alloc

IInv == /\ TypeOK
        /\ FreedCleared /\ Attached /\ Kept /\ OwedLive
        /\ NoDangling /\ RegistryExact /\ CountExact

LEMMA HoldersFinite == \A a : IsFiniteSet(Holders(a))
<1> TAKE a
<1>1. Holders(a) \subseteq Udata
  BY DEF Holders
<1> QED
  BY <1>1, FS_Subset, VoidWrapperAssumption

(* A wrapper that is not allocated counts nobody; one that somebody holds  *)
(* counts at least him, and with a count of 1 nobody else.                 *)
LEMMA CountFacts ==
  ASSUME IInv
  PROVE  /\ \A a \in Wrapper : a \notin alloc =>
              refcount[a] = 0 /\ Holders(a) = {} /\ a \notin owed
         /\ \A u \in Udata : st[u] # "free" =>
              /\ wrapper[u] \in alloc
              /\ refcount[wrapper[u]] > 0
              /\ refcount[wrapper[u]] = 1 =>
                   Holders(wrapper[u]) = {u} /\ wrapper[u] \notin owed
<1> USE DEF IInv
<1>1. ASSUME NEW a \in Wrapper, a \notin alloc
      PROVE  refcount[a] = 0 /\ Holders(a) = {} /\ a \notin owed
  <2>1. a \notin owed
    BY <1>1 DEF OwedLive
  <2>2. Holders(a) = {}
    BY <1>1 DEF Holders, NoDangling
  <2> QED
    BY <2>1, <2>2, FS_EmptySet DEF CountExact
<1>2. ASSUME NEW u \in Udata, st[u] # "free"
      PROVE  /\ wrapper[u] \in alloc
             /\ refcount[wrapper[u]] > 0
             /\ refcount[wrapper[u]] = 1 =>
                   Holders(wrapper[u]) = {u} /\ wrapper[u] \notin owed
  <2> DEFINE a == wrapper[u]
  <2>1. a \in alloc /\ a \in Wrapper
    BY <1>2 DEF NoDangling, TypeOK
  <2>2. u \in Holders(a)
    BY <1>2 DEF Holders
  <2> DEFINE H == Holders(a)
             n == Cardinality(H)
  <2>3. IsFiniteSet(H) /\ n \in Nat /\ H # {}
    BY <2>2, HoldersFinite, FS_CardinalityType
  <2>4. n > 0
    BY <2>3, FS_EmptySet
  <2>5. refcount[a] = n + (IF a \in owed THEN 1 ELSE 0)
    BY <2>1 DEF CountExact
  <2>6. n = 1 => H = {u}
    BY <2>2, <2>3, FS_Singleton
  <2> HIDE DEF a, H, n
  <2>7. refcount[a] > 0 /\ (refcount[a] = 1 => n = 1 /\ a \notin owed)
    BY <2>3, <2>4, <2>5
  <2> QED
    BY <2>1, <2>6, <2>7 DEF a, H
<1> QED
  BY <1>1, <1>2

-----------------------------------------------------------------------------
(***************************************************************************)
(* How the number of holders changes.                                      *)
(***************************************************************************)
LEMMA HoldersAdded ==
  ASSUME TypeOK, NEW u \in Udata, NEW a \in Wrapper, NewUdata(u, a)
  PROVE  \A b \in Wrapper :
           Cardinality(Holders(b)') =
             Cardinality(Holders(b)) + (IF b = a THEN 1 ELSE 0)
<1> TAKE b \in Wrapper
<1>1. Holders(b)' = IF b = a THEN Holders(b) \cup {u} ELSE Holders(b)
  BY DEF NewUdata, Holders, TypeOK
<1>2. u \notin Holders(b)
  BY DEF NewUdata, Holders
<1>3. IsFiniteSet(Holders(b)) /\ Cardinality(Holders(b)) \in Nat
  BY HoldersFinite, FS_CardinalityType
<1>4. Cardinality(Holders(b) \cup {u}) = Cardinality(Holders(b)) + 1
  BY <1>2, <1>3, FS_AddElement
<1> QED
  BY <1>1, <1>3, <1>4

LEMMA HoldersRemoved ==
  ASSUME TypeOK, NEW u \in Udata, st[u] # "free",
         wrapper[u] \in Wrapper,
         st' = [st EXCEPT ![u] = "free"],
         wrapper' = [wrapper EXCEPT ![u] = NULL]
  PROVE  \A b \in Wrapper :
           Cardinality(Holders(b)') =
             Cardinality(Holders(b)) - (IF b = wrapper[u] THEN 1 ELSE 0)
<1> TAKE b \in Wrapper
<1>1. Holders(b)' = IF b = wrapper[u] THEN Holders(b) \ {u} ELSE Holders(b)
  BY DEF Holders, TypeOK
<1>2. b = wrapper[u] => u \in Holders(b)
  BY DEF Holders
<1>3. IsFiniteSet(Holders(b)) /\ Cardinality(Holders(b)) \in Nat
  BY HoldersFinite, FS_CardinalityType
<1>4. b = wrapper[u] =>
        Cardinality(Holders(b) \ {u}) = Cardinality(Holders(b)) - 1
  BY <1>2, <1>3, FS_RemoveElement
<1> QED
  BY <1>1, <1>3, <1>4

(* The number of holders does not change if st # "free" and wrapper do not.*)
LEMMA HoldersSame ==
  ASSUME \A u \in Udata : (st[u] = "free") <=> (st'[u] = "free"),
         wrapper' = wrapper
  PROVE  \A b : Holders(b)' = Holders(b)
BY DEF Holders

-----------------------------------------------------------------------------
(***************************************************************************)
(* Each action preserves the invariant.                                    *)
(***************************************************************************)
LEMMA InitOK == Init => IInv
<1> SUFFICES ASSUME Init PROVE IInv
  OBVIOUS
<1>1. CountExact
  <2>1. \A a : Holders(a) = {}
    BY DEF Holders, Init
  <2> QED
    BY <2>1, FS_EmptySet DEF CountExact, Init
<1>2. TypeOK /\ FreedCleared /\ Attached /\ Kept /\ OwedLive
  BY VoidWrapperAssumption
     DEF Init, TypeOK, FreedCleared, Attached, Kept, OwedLive
<1>3. NoDangling /\ RegistryExact
  BY DEF Init, NoDangling, RegistryExact
<1> QED
  BY <1>1, <1>2, <1>3 DEF IInv

(* lg_make_value_wrapper leaves the other wrappers alone and takes a slot  *)
(* nobody has.                                                             *)
LEMMA MakeOK ==
  ASSUME IInv, NEW a \in Wrapper, NEW n \in Nat, MakeValueWrapper(a, n)
  PROVE  /\ alloc' = alloc \cup {a} /\ alloc' \subseteq Wrapper
         /\ registry' \subseteq Ref
         /\ ref' \in [Wrapper -> Ref \cup {NULL}]
         /\ refcount' \in [Wrapper -> Nat]
         /\ \A b \in Wrapper : refcount'[b] = IF b = a THEN n ELSE refcount[b]
         /\ FreedCleared' /\ RegistryExact'
<1>1. PICK r \in Ref \ registry : /\ registry' = registry \cup {r}
                                 /\ ref' = [ref EXCEPT ![a] = r]
  BY DEF MakeValueWrapper
<1>2. alloc' = alloc \cup {a} /\ a \notin alloc
  BY DEF MakeValueWrapper
<1>3. ref \in [Wrapper -> Ref \cup {NULL}] /\ alloc \subseteq Wrapper
  BY DEF IInv, TypeOK
<1>4. FreedCleared'
  BY <1>1, <1>2, <1>3, VoidWrapperAssumption DEF IInv, FreedCleared
<1>5. RegistryExact'
  <2>1. \A b \in alloc : ref'[b] = ref[b] /\ ref[b] \in registry
    BY <1>1, <1>2, <1>3 DEF IInv, RegistryExact
  <2>2. ref'[a] = r /\ r \notin registry
    BY <1>1, <1>3
  <2>3. registry' = {ref'[b] : b \in alloc'}
    BY <1>1, <1>2, <2>1, <2>2 DEF IInv, RegistryExact
  <2>4. \A b, c \in alloc' : ref'[b] = ref'[c] => b = c
    BY <1>2, <2>1, <2>2 DEF IInv, RegistryExact
  <2> QED
    BY <2>3, <2>4 DEF RegistryExact
<1>6. /\ registry' \subseteq Ref
      /\ ref' \in [Wrapper -> Ref \cup {NULL}]
      /\ refcount' \in [Wrapper -> Nat]
      /\ \A b \in Wrapper : refcount'[b] = IF b = a THEN n ELSE refcount[b]
  BY <1>1 DEF MakeValueWrapper, IInv, TypeOK
<1> QED
  BY <1>2, <1>3, <1>4, <1>5, <1>6

LEMMA VoidPtrOK ==
  ASSUME IInv, NEW a \in Wrapper, NEW u \in Udata, VoidPtr(a, u)
  PROVE  IInv'
<1>1. MakeValueWrapper(a, 1) /\ NewUdata(u, a) /\ a \notin alloc
      /\ stored' = stored /\ owed' = owed
  BY DEF VoidPtr, MakeValueWrapper
<1>2. /\ alloc' = alloc \cup {a} /\ alloc' \subseteq Wrapper
      /\ registry' \subseteq Ref
      /\ ref' \in [Wrapper -> Ref \cup {NULL}]
      /\ refcount' \in [Wrapper -> Nat]
      /\ \A b \in Wrapper : refcount'[b] = IF b = a THEN 1 ELSE refcount[b]
      /\ FreedCleared' /\ RegistryExact'
  BY <1>1, MakeOK
<1>3. TypeOK'
  BY <1>1, <1>2 DEF IInv, TypeOK, NewUdata
<1>4. Attached'
  BY <1>1, VoidWrapperAssumption DEF IInv, Attached, NewUdata, TypeOK
<1>5. Kept' /\ OwedLive'
  <2>1. \A b \in Wrapper : Users(b) \subseteq Users(b)'
    BY <1>1 DEF Users, NewUdata, IInv, TypeOK
  <2> QED
    BY <1>1, <1>2, <2>1 DEF IInv, Kept, OwedLive, TypeOK
<1>6. NoDangling'
  BY <1>1, <1>2 DEF IInv, NoDangling, NewUdata, TypeOK
<1>7. CountExact'
  <2>1. refcount[a] = 0 /\ Holders(a) = {} /\ a \notin owed
    BY <1>1, CountFacts
  <2>2. \A b \in Wrapper : Cardinality(Holders(b)') =
          Cardinality(Holders(b)) + (IF b = a THEN 1 ELSE 0)
    BY <1>1, HoldersAdded DEF IInv
  <2>3. \A b \in Wrapper : Cardinality(Holders(b)) \in Nat
    BY HoldersFinite, FS_CardinalityType
  <2>4. Cardinality(Holders(a)) = 0
    BY <2>1, FS_EmptySet
  <2> QED
    BY <1>1, <1>2, <2>1, <2>2, <2>3, <2>4 DEF IInv, CountExact
<1> QED
  BY <1>2, <1>3, <1>4, <1>5, <1>6, <1>7 DEF IInv

LEMMA PassValueOK ==
  ASSUME IInv, NEW a \in Wrapper, PassValue(a)
  PROVE  IInv'
<1>1. /\ MakeValueWrapper(a, 1) /\ a \notin alloc
      /\ owed' = owed \cup {a}
      /\ stored' = stored \/ stored' = stored \cup {a}
      /\ st' = st /\ wrapper' = wrapper
  BY DEF PassValue, MakeValueWrapper
<1>2. /\ alloc' = alloc \cup {a} /\ alloc' \subseteq Wrapper
      /\ registry' \subseteq Ref
      /\ ref' \in [Wrapper -> Ref \cup {NULL}]
      /\ refcount' \in [Wrapper -> Nat]
      /\ \A b \in Wrapper : refcount'[b] = IF b = a THEN 1 ELSE refcount[b]
      /\ FreedCleared' /\ RegistryExact'
  BY <1>1, MakeOK
<1>3. TypeOK'
  BY <1>1, <1>2 DEF IInv, TypeOK
<1>4. Attached' /\ OwedLive'
  BY <1>1, <1>2 DEF IInv, Attached, OwedLive
<1>5. Kept'
  <2>1. \A b : Users(b)' = Users(b)
    BY <1>1 DEF Users
  <2> QED
    BY <1>1, <2>1 DEF IInv, Kept
<1>6. NoDangling'
  BY <1>1, <1>2 DEF IInv, NoDangling
<1>7. CountExact'
  <2>1. refcount[a] = 0 /\ Holders(a) = {} /\ a \notin owed
    BY <1>1, CountFacts
  <2>2. \A b : Holders(b)' = Holders(b)
    BY <1>1, HoldersSame
  <2>3. Cardinality(Holders(a)) = 0
    BY <2>1, FS_EmptySet
  <2> QED
    BY <1>1, <1>2, <2>2, <2>3 DEF IInv, CountExact
<1> QED
  BY <1>2, <1>3, <1>4, <1>5, <1>6, <1>7 DEF IInv

LEMMA PassWrapperOK ==
  ASSUME IInv, NEW u \in Udata, PassWrapper(u)
  PROVE  IInv'
<1>1. /\ st[u] = "live" /\ stored' = stored \cup {wrapper[u]}
      /\ UNCHANGED <<alloc, ref, refcount, st, wrapper, registry, owed>>
  BY DEF PassWrapper
<1>2. wrapper[u] \in alloc
  BY <1>1 DEF IInv, NoDangling
<1>3. TypeOK' /\ FreedCleared' /\ Attached' /\ OwedLive'
  BY <1>1, <1>2 DEF IInv, TypeOK, FreedCleared, Attached, OwedLive
<1>4. Kept'
  BY <1>1 DEF IInv, Kept, Users
<1>5. NoDangling' /\ RegistryExact'
  BY <1>1, <1>2 DEF IInv, NoDangling, RegistryExact
<1>6. CountExact'
  BY <1>1, HoldersSame DEF IInv, CountExact
<1> QED
  BY <1>3, <1>4, <1>5, <1>6 DEF IInv

LEMMA CallbackOK ==
  ASSUME IInv, NEW a \in Wrapper, NEW u \in Udata, Callback(a, u)
  PROVE  IInv'
<1>1. /\ a \in stored /\ NewUdata(u, a)
      /\ refcount' = [refcount EXCEPT ![a] = @ + 1]
      /\ stored' = stored \/ stored' = stored \ {a}
      /\ UNCHANGED <<alloc, ref, registry, owed>>
  BY DEF Callback, Push
<1>2. TypeOK' /\ FreedCleared' /\ OwedLive'
  BY <1>1 DEF IInv, TypeOK, FreedCleared, OwedLive, NewUdata
<1>3. Attached'
  BY <1>1, VoidWrapperAssumption DEF IInv, Attached, NewUdata, TypeOK
<1>4. Kept'
  <2>1. \A b \in Wrapper : Users(b) \subseteq Users(b)'
    BY <1>1 DEF Users, NewUdata, IInv, TypeOK
  <2> QED
    BY <1>1, <2>1 DEF IInv, Kept, TypeOK
<1>5. NoDangling' /\ RegistryExact'
  BY <1>1 DEF IInv, NoDangling, NewUdata, TypeOK, RegistryExact
<1>6. CountExact'
  <2>1. \A b \in Wrapper : Cardinality(Holders(b)') =
          Cardinality(Holders(b)) + (IF b = a THEN 1 ELSE 0)
    BY <1>1, HoldersAdded DEF IInv
  <2>2. \A b \in Wrapper : Cardinality(Holders(b)) \in Nat
    BY HoldersFinite, FS_CardinalityType
  <2>3. refcount \in [Wrapper -> Nat]
    BY DEF IInv, TypeOK
  <2> QED
    BY <1>1, <2>1, <2>2, <2>3 DEF IInv, CountExact
<1> QED
  BY <1>2, <1>3, <1>4, <1>5, <1>6 DEF IInv

LEMMA ForgetOK ==
  ASSUME IInv, NEW a \in Wrapper, Forget(a)
  PROVE  IInv'
<1>1. /\ stored' = stored \ {a}
      /\ UNCHANGED <<alloc, ref, refcount, st, wrapper, registry, owed>>
  BY DEF Forget
<1>2. TypeOK' /\ FreedCleared' /\ Attached' /\ OwedLive' /\ Kept'
  BY <1>1 DEF IInv, TypeOK, FreedCleared, Attached, OwedLive, Kept, Users
<1>3. NoDangling' /\ RegistryExact'
  BY <1>1 DEF IInv, NoDangling, RegistryExact
<1>4. CountExact'
  BY <1>1, HoldersSame DEF IInv, CountExact
<1> QED
  BY <1>2, <1>3, <1>4 DEF IInv

(* A careful program destroys what it owes, and only when the library has  *)
(* forgotten the pointer: the count goes down with the duty.               *)
LEMMA DestroyOK ==
  ASSUME Careful, IInv, NEW u \in Udata, Destroy(u)
  PROVE  IInv'
<1> DEFINE a == wrapper[u]
<1>1. /\ st[u] = "live" /\ a \in owed /\ a \notin stored
      /\ refcount' = [refcount EXCEPT ![a] = @ - 1]
      /\ owed' = owed \ {a}
      /\ UNCHANGED <<alloc, ref, st, wrapper, registry, stored>>
  BY DEF Destroy
<1>2. a \in Wrapper /\ refcount[a] > 0
  BY <1>1, CountFacts DEF IInv, TypeOK
<1>3. TypeOK' /\ FreedCleared' /\ Attached' /\ OwedLive'
  BY <1>1, <1>2 DEF IInv, TypeOK, FreedCleared, Attached, OwedLive
<1>4. Kept'
  BY <1>1 DEF IInv, Kept, Users
<1>5. NoDangling' /\ RegistryExact'
  BY <1>1 DEF IInv, NoDangling, RegistryExact
<1>6. CountExact'
  <2>1. \A b : Holders(b)' = Holders(b)
    BY <1>1, HoldersSame
  <2>2. \A b \in Wrapper : Cardinality(Holders(b)) \in Nat
    BY HoldersFinite, FS_CardinalityType
  <2>3. refcount \in [Wrapper -> Nat]
    BY DEF IInv, TypeOK
  <2> QED
    BY <1>1, <1>2, <2>1, <2>2, <2>3 DEF IInv, CountExact
<1> QED
  BY <1>3, <1>4, <1>5, <1>6 DEF IInv

LEMMA DropOK ==
  ASSUME Careful, IInv, NEW u \in Udata, Drop(u)
  PROVE  IInv'
<1>1. /\ st[u] = "live" /\ st' = [st EXCEPT ![u] = "doomed"]
      /\ wrapper[u] \in stored \ owed => Users(wrapper[u]) # {u}
      /\ UNCHANGED <<alloc, ref, refcount, wrapper, registry, stored, owed>>
  BY DEF Drop
<1>2. TypeOK' /\ FreedCleared' /\ Attached' /\ OwedLive'
  BY <1>1 DEF IInv, TypeOK, FreedCleared, Attached, OwedLive
<1>3. Kept'
  <2>1. ASSUME NEW b \in stored, b \notin owed
        PROVE  Users(b)' # {}
    <3>1. PICK v \in Users(b) : v # u
      BY <1>1, <2>1 DEF IInv, Kept, Users
    <3>2. v \in Users(b)'
      BY <1>1, <3>1 DEF Users, IInv, TypeOK
    <3> QED
      BY <3>2
  <2> QED
    BY <1>1, <2>1 DEF Kept
<1>4. NoDangling' /\ RegistryExact'
  BY <1>1 DEF IInv, NoDangling, RegistryExact, TypeOK
<1>5. CountExact'
  <2>1. \A b : Holders(b)' = Holders(b)
    BY <1>1, HoldersSame DEF IInv, TypeOK
  <2> QED
    BY <1>1, <2>1 DEF IInv, CountExact
<1> QED
  BY <1>2, <1>3, <1>4, <1>5 DEF IInv

(* The last userdata takes the wrapper with it: nobody owes it a :destroy, *)
(* nobody uses it, so the library has no pointer to it.                    *)
LEMMA WrapperGcOK ==
  ASSUME IInv, NEW u \in Udata, WrapperGc(u)
  PROVE  IInv'
<1> DEFINE a == wrapper[u]
<1>1. /\ st[u] = "doomed"
      /\ st' = [st EXCEPT ![u] = "free"]
      /\ wrapper' = [wrapper EXCEPT ![u] = NULL]
      /\ refcount' = [refcount EXCEPT ![a] = IF @ > 0 THEN @ - 1 ELSE @]
      /\ IF refcount[a] = 1 THEN FreeWrapper(a)
                            ELSE UNCHANGED <<alloc, registry, ref>>
      /\ UNCHANGED <<stored, owed>>
  BY DEF WrapperGc, Last
<1>2. /\ a \in alloc /\ a \in Wrapper /\ refcount[a] > 0
      /\ refcount[a] = 1 => Holders(a) = {u} /\ a \notin owed
  BY <1>1, CountFacts DEF IInv, TypeOK
<1>3. refcount' = [refcount EXCEPT ![a] = @ - 1]
  BY <1>1, <1>2 DEF IInv, TypeOK
<1>4. Attached'
  BY <1>1, VoidWrapperAssumption DEF IInv, Attached, TypeOK
<1>5. \A b : Users(b)' = Users(b)
  BY <1>1 DEF Users, IInv, TypeOK
<1>6. Kept'
  BY <1>1, <1>5 DEF IInv, Kept
<1>7. CountExact'
  <2>1. \A b \in Wrapper : Cardinality(Holders(b)') =
          Cardinality(Holders(b)) - (IF b = a THEN 1 ELSE 0)
    BY <1>1, <1>2, HoldersRemoved DEF IInv
  <2>2. \A b \in Wrapper : Cardinality(Holders(b)) \in Nat
    BY HoldersFinite, FS_CardinalityType
  <2>3. refcount \in [Wrapper -> Nat]
    BY DEF IInv, TypeOK
  <2> QED
    BY <1>1, <1>3, <2>1, <2>2, <2>3 DEF IInv, CountExact
<1>8. CASE refcount[a] = 1
  <2>1. /\ alloc' = alloc \ {a}
        /\ ref' = [ref EXCEPT ![a] = NULL]
        /\ registry' = registry \ {ref[a]}
        /\ a \notin owed
        /\ Holders(a) = {u}
    BY <1>1, <1>2, <1>8 DEF FreeWrapper
  <2>2. a \notin stored
    <3>1. Users(a) = {}
      BY <1>1, <2>1 DEF Users, Holders
    <3> QED
      BY <2>1, <3>1 DEF IInv, Kept
  <2>3. TypeOK'
    BY <1>1, <1>2, <1>3, <2>1 DEF IInv, TypeOK
  <2>4. FreedCleared' /\ OwedLive'
    BY <1>1, <2>1 DEF IInv, FreedCleared, OwedLive, TypeOK
  <2>5. NoDangling'
    <3>1. \A v \in Udata : st[v] # "free" /\ wrapper[v] = a => v = u
      BY <2>1 DEF Holders
    <3> QED
      BY <1>1, <2>1, <2>2, <3>1 DEF IInv, NoDangling, TypeOK
  <2>6. RegistryExact'
    <3>1. \A b \in alloc : b # a => ref'[b] = ref[b] /\ ref[b] # ref[a]
      BY <1>2, <2>1 DEF IInv, RegistryExact, TypeOK
    <3>2. registry' = {ref'[b] : b \in alloc'}
      BY <1>2, <2>1, <3>1 DEF IInv, RegistryExact
    <3>3. \A b, c \in alloc' : ref'[b] = ref'[c] => b = c
      BY <2>1, <3>1 DEF IInv, RegistryExact
    <3> QED
      BY <3>2, <3>3 DEF RegistryExact
  <2> QED
    BY <1>4, <1>6, <1>7, <2>3, <2>4, <2>5, <2>6 DEF IInv
<1>9. CASE refcount[a] # 1
  <2>1. UNCHANGED <<alloc, registry, ref>>
    BY <1>1, <1>9
  <2>2. TypeOK'
    BY <1>1, <1>2, <1>3, <2>1 DEF IInv, TypeOK
  <2>3. FreedCleared' /\ OwedLive' /\ NoDangling' /\ RegistryExact'
    BY <1>1, <2>1
       DEF IInv, FreedCleared, OwedLive, NoDangling, RegistryExact, TypeOK
  <2> QED
    BY <1>4, <1>6, <1>7, <2>2, <2>3 DEF IInv
<1> QED
  BY <1>8, <1>9

LEMMA NextOK == ASSUME Careful PROVE IInv /\ [Next]_vars => IInv'
<1> SUFFICES ASSUME IInv, [Next]_vars PROVE IInv'
  OBVIOUS
<1>1. CASE UNCHANGED vars
  <2>1. UNCHANGED <<alloc, ref, refcount, st, wrapper, registry, stored, owed>>
    BY <1>1 DEF vars
  <2>2. CountExact'
    BY <2>1, HoldersSame DEF IInv, CountExact
  <2> QED
    BY <2>1, <2>2 DEF IInv, TypeOK, FreedCleared, Attached, Kept, OwedLive,
                      NoDangling, RegistryExact, Users
<1>2. ASSUME NEW a \in Wrapper, NEW u \in Udata, VoidPtr(a, u) \/ Callback(a, u)
      PROVE  IInv'
  BY <1>2, VoidPtrOK, CallbackOK
<1>3. ASSUME NEW a \in Wrapper, PassValue(a) \/ Forget(a)
      PROVE  IInv'
  BY <1>3, PassValueOK, ForgetOK
<1>4. ASSUME NEW u \in Udata,
             PassWrapper(u) \/ Destroy(u) \/ Drop(u) \/ WrapperGc(u)
      PROVE  IInv'
  BY <1>4, PassWrapperOK, DestroyOK, DropOK, WrapperGcOK
<1> QED
  BY <1>1, <1>2, <1>3, <1>4 DEF Next

LEMMA Invariance == ASSUME Careful PROVE Spec => []IInv
<1>1. IInv /\ [Next]_vars => IInv'
  BY NextOK
<1> QED
  BY <1>1, InitOK, PTL DEF Spec

-----------------------------------------------------------------------------
(* If the program does its duties, neither a userdata nor a pointer that   *)
(* the library keeps ever leads to a freed wrapper (lg_is_vwrapper).       *)
THEOREM WrappersNeverDangle == ASSUME Careful PROVE Spec => []NoDangling
<1>1. IInv => NoDangling
  BY DEF IInv
<1> QED
  BY <1>1, Invariance, PTL

(* The registry holds one slot for each allocated wrapper and nothing else *)
(* (luaL_ref of lg_make_value_wrapper, luaL_unref of wrapper_gc).          *)
THEOREM RegistryBalanced == ASSUME Careful PROVE Spec => []RegistryExact
<1>1. IInv => RegistryExact
  BY DEF IInv
<1> QED
  BY <1>1, Invariance, PTL

(* The counter of a wrapper is the number of its userdata and of :destroy  *)
(* calls that are due, so it never wraps around and wrapper_gc frees the   *)
(* structure with the last of them.                                        *)
THEOREM CounterExact == ASSUME Careful PROVE Spec => []CountExact
<1>1. IInv => CountExact
  BY DEF IInv
<1> QED
  BY <1>1, Invariance, PTL

-----------------------------------------------------------------------------
(***************************************************************************)
(* VoidWrapper implements SharedObject: each step lets at most one holder  *)
(* or one duty come or go, and the wrapper is there as long as any is left.*)
(***************************************************************************)
Duty(a) == IF a \in owed THEN 1 ELSE 0

LEMMA HeldIf ==
  ASSUME NEW p \in Wrapper, NEW H, NEW n,
         \A b \in Wrapper : Holders(b)' = IF b = p THEN H ELSE Holders(b),
         \A b \in Wrapper : Duty(b)' = IF b = p THEN n ELSE Duty(b),
         \A b \in Wrapper :
           b \in alloc' <=> IF b = p THEN H # {} \/ n > 0 ELSE b \in alloc
  PROVE  Shared!Held(p, H, n)
<1>1. [a \in Wrapper |-> Holders(a)]' =
        [[a \in Wrapper |-> Holders(a)] EXCEPT ![p] = H]
  OBVIOUS
<1>2. [a \in Wrapper |-> Duty(a)]' =
        [[a \in Wrapper |-> Duty(a)] EXCEPT ![p] = n]
  OBVIOUS
<1>3. [a \in Wrapper |-> a \in alloc]' =
        [[a \in Wrapper |-> a \in alloc] EXCEPT ![p] = H # {} \/ n > 0]
  <2> DEFINE New(b) == b \in alloc'
             Old(b) == b \in alloc
             R      == H # {} \/ n > 0
  <2>1. \A b \in Wrapper : New(b) = (IF b = p THEN R ELSE Old(b))
    <3> TAKE b \in Wrapper
    <3>1. CASE b = p
      <4>1. New(b) <=> R
        BY <3>1, Zenon
      <4>2. New(b) = R
        BY <4>1
      <4> QED
        BY <3>1, <4>2
    <3>2. CASE b # p
      <4>1. New(b) <=> Old(b)
        BY <3>2, Zenon
      <4>2. New(b) = Old(b)
        BY <4>1
      <4> QED
        BY <3>2, <4>2
    <3> QED
      BY <3>1, <3>2
  <2> HIDE DEF New, Old, R
  <2>2. [b \in Wrapper |-> New(b)] = [[b \in Wrapper |-> Old(b)] EXCEPT ![p] = R]
    BY <2>1
  <2> QED
    BY <2>2, Zenon DEF New, Old, R
<1> QED
  BY <1>1, <1>2, <1>3 DEF Shared!Held, Duty

(* The mapped state at one address. *)
LEMMA MappedAt ==
  ASSUME NEW p \in Wrapper
  PROVE  /\ [a \in Wrapper |-> a \in alloc][p] <=> p \in alloc
         /\ [a \in Wrapper |-> Holders(a)][p] = Holders(p)
         /\ [a \in Wrapper |-> Duty(a)][p] = Duty(p)
BY Zenon

LEMMA LibLetGoIf ==
  ASSUME NEW p \in Wrapper, p \in alloc, NEW H, H = Holders(p),
         NEW n, n = Duty(p) - 1, Duty(p) = 1, Shared!Held(p, H, n)
  PROVE  Shared!LibLetGo(p)
<1>1. /\ [a \in Wrapper |-> a \in alloc][p]
      /\ [a \in Wrapper |-> Holders(a)][p] = H
      /\ [a \in Wrapper |-> IF a \in owed THEN 1 ELSE 0][p] = 1
  BY MappedAt DEF Duty
<1>2. /\ [a \in Wrapper |-> IF a \in owed THEN 1 ELSE 0][p] - 1 = n
      /\ [a \in Wrapper |-> IF a \in owed THEN 1 ELSE 0][p] > 0
  BY <1>1
<1>3. Shared!Held(p, [a \in Wrapper |-> Holders(a)][p],
                  [a \in Wrapper |-> IF a \in owed THEN 1 ELSE 0][p] - 1)
  BY <1>1, <1>2, Zenon DEF Shared!Held
<1> QED
  BY <1>1, <1>2, <1>3, Zenon DEF Shared!LibLetGo

(* Nobody comes or goes: the step is a stutter of SharedObject. *)
LEMMA StutterIf ==
  ASSUME \A b \in Wrapper : Holders(b)' = Holders(b),
         alloc' = alloc, owed' = owed
  PROVE  UNCHANGED Shared!vars
<1>1. [a \in Wrapper |-> Holders(a)]' = [a \in Wrapper |-> Holders(a)]
  OBVIOUS
<1> QED
  BY <1>1 DEF Shared!vars

LEMMA SharedNextIf ==
  ASSUME NEW p \in Wrapper, NEW u \in Udata,
         \/ \E H \in {{}} \cup {{w} : w \in Udata}, n \in {0, 1} :
              Shared!Create(p, H, n)
         \/ Shared!Hold(p, u) \/ Shared!LetGo(p, u)
         \/ Shared!LibHold(p) \/ Shared!LibLetGo(p)
  PROVE  Shared!Next
BY DEF Shared!Next

LEMMA StepShared ==
  ASSUME Careful, IInv, [Next]_vars
  PROVE  [Shared!Next]_(Shared!vars)
<1> DEFINE Goal == [Shared!Next]_(Shared!vars)
<1> HIDE DEF Goal
<1>0. /\ Shared!Next => Goal
      /\ UNCHANGED Shared!vars => Goal
  BY DEF Goal
<1>1. CASE UNCHANGED vars
  BY <1>0, <1>1, HoldersSame, StutterIf DEF vars
<1>2. ASSUME NEW a \in Wrapper, NEW u \in Udata, VoidPtr(a, u)
      PROVE  Goal
  <2>1. /\ MakeValueWrapper(a, 1) /\ NewUdata(u, a) /\ a \notin alloc
        /\ alloc' = alloc \cup {a} /\ owed' = owed
    BY <1>2 DEF VoidPtr, MakeValueWrapper
  <2>2. Holders(a) = {} /\ a \notin owed
    BY <2>1, CountFacts
  <2>3. \A b \in Wrapper : Holders(b)' = IF b = a THEN {u} ELSE Holders(b)
    BY <2>1, <2>2 DEF Holders, NewUdata, IInv, TypeOK
  <2>4. Shared!Held(a, {u}, 0)
    BY <2>1, <2>2, <2>3, HeldIf DEF Duty
  <2>5. Shared!Create(a, {u}, 0)
    BY <2>1, <2>4 DEF Shared!Create
  <2> QED
    BY <1>0, <2>5, SharedNextIf
<1>3. ASSUME NEW a \in Wrapper, NEW u \in Udata, Callback(a, u)
      PROVE  Goal
  <2>1. a \in alloc /\ NewUdata(u, a) /\ alloc' = alloc /\ owed' = owed
    BY <1>3 DEF Callback, Push, IInv, NoDangling
  <2>2. \A b \in Wrapper :
          Holders(b)' = IF b = a THEN Holders(a) \cup {u} ELSE Holders(b)
    BY <2>1 DEF Holders, NewUdata, IInv, TypeOK
  <2>3. u \notin Holders(a)
    BY <2>1 DEF Holders, NewUdata
  <2>4. PICK H : H = Holders(a) \cup {u}
    OBVIOUS
  <2>5. PICK n : n = Duty(a)
    OBVIOUS
  <2>6. Shared!Held(a, H, n)
    BY <2>1, <2>2, <2>4, <2>5, HeldIf DEF Duty
  <2>7. Shared!Hold(a, u)
    BY <2>1, <2>3, <2>4, <2>5, <2>6, MappedAt
       DEF Shared!Hold, Shared!Held, Duty
  <2> QED
    BY <1>0, <2>7, SharedNextIf
<1>4. ASSUME NEW a \in Wrapper, PassValue(a)
      PROVE  Goal
  <2>1. /\ MakeValueWrapper(a, 1) /\ a \notin alloc
        /\ alloc' = alloc \cup {a} /\ owed' = owed \cup {a}
        /\ st' = st /\ wrapper' = wrapper
    BY <1>4 DEF PassValue, MakeValueWrapper
  <2>2. Holders(a) = {}
    BY <2>1, CountFacts
  <2>3. \A b \in Wrapper : Holders(b)' = IF b = a THEN {} ELSE Holders(b)
    BY <2>1, <2>2, HoldersSame
  <2>4. Shared!Held(a, {}, 1)
    BY <2>1, <2>3, HeldIf DEF Duty
  <2>5. Shared!Create(a, {}, 1)
    BY <2>1, <2>4, MappedAt DEF Shared!Create
  <2>6. Shared!Next
    BY <2>5 DEF Shared!Next
  <2> QED
    BY <1>0, <2>6
<1>5. ASSUME NEW a \in Wrapper, Forget(a)
      PROVE  Goal
  BY <1>0, <1>5, HoldersSame, StutterIf DEF Forget
<1>6. ASSUME NEW u \in Udata, PassWrapper(u)
      PROVE  Goal
  BY <1>0, <1>6, HoldersSame, StutterIf DEF PassWrapper
<1>7. ASSUME NEW u \in Udata, Drop(u)
      PROVE  Goal
  <2>1. /\ \A v \in Udata : (st[v] = "free") <=> (st'[v] = "free")
        /\ wrapper' = wrapper /\ alloc' = alloc /\ owed' = owed
    BY <1>7 DEF Drop, IInv, TypeOK
  <2> QED
    BY <1>0, <2>1, HoldersSame, StutterIf
<1>8. ASSUME NEW u \in Udata, Destroy(u)
      PROVE  Goal
  <2> DEFINE a == wrapper[u]
  <2>1. /\ st[u] = "live" /\ a \in owed /\ owed' = owed \ {a}
        /\ alloc' = alloc /\ st' = st /\ wrapper' = wrapper
    BY <1>8 DEF Destroy
  <2>2. a \in Wrapper /\ a \in alloc /\ u \in Holders(a)
    BY <2>1 DEF IInv, TypeOK, NoDangling, Holders
  <2>3. \A b : Holders(b)' = Holders(b)
    BY <2>1, HoldersSame
  <2> HIDE DEF a
  <2>4. PICK H : H = Holders(a)
    OBVIOUS
  <2>5. PICK p : p = a
    OBVIOUS
  <2>6. Duty(p) = 1
    BY <2>1, <2>5 DEF Duty
  <2>7. PICK n : n = Duty(p) - 1
    OBVIOUS
  <2>8. n = 0
    BY <2>6, <2>7
  <2>9. Shared!Held(p, H, n)
    BY <2>1, <2>2, <2>3, <2>4, <2>5, <2>8, HeldIf DEF Duty
  <2>10. Shared!LibLetGo(p)
    BY <2>2, <2>4, <2>5, <2>6, <2>7, <2>9, LibLetGoIf
  <2> QED
    BY <1>0, <2>2, <2>5, <2>10, SharedNextIf
<1>9. ASSUME NEW u \in Udata, WrapperGc(u)
      PROVE  Goal
  <2> DEFINE a == wrapper[u]
  <2>1. /\ st[u] = "doomed"
        /\ st' = [st EXCEPT ![u] = "free"]
        /\ wrapper' = [wrapper EXCEPT ![u] = NULL]
        /\ alloc' = IF refcount[a] = 1 THEN alloc \ {a} ELSE alloc
        /\ owed' = owed
    BY <1>9 DEF WrapperGc, Last, FreeWrapper
  <2>2. /\ a \in alloc /\ a \in Wrapper /\ u \in Holders(a)
        /\ refcount[a] = 1 => Holders(a) = {u} /\ a \notin owed
    BY <2>1, CountFacts DEF IInv, TypeOK, Holders
  <2>3. \A b \in Wrapper :
          Holders(b)' = IF b = a THEN Holders(a) \ {u} ELSE Holders(b)
    BY <2>1 DEF Holders, IInv, TypeOK
  <2> HIDE DEF a
  <2>4. Holders(a) = {u} /\ a \notin owed => refcount[a] = 1
    <3>1. Cardinality({u}) = 1
      BY FS_Singleton
    <3>2. refcount[a] = Cardinality(Holders(a)) + (IF a \in owed THEN 1 ELSE 0)
      BY <2>2 DEF IInv, CountExact
    <3> QED
      BY <3>1, <3>2
  <2>5. PICK p : p = a
    OBVIOUS
  <2>6. PICK H : H = Holders(p) \ {u}
    OBVIOUS
  <2>7. PICK n : n = Duty(p)
    OBVIOUS
  <2>8. p \in alloc' <=> H # {} \/ n > 0
    BY <2>1, <2>2, <2>4, <2>5, <2>6, <2>7 DEF Duty
  <2>9. Shared!Held(p, H, n)
    <3>1. \A b \in Wrapper : Duty(b)' = IF b = p THEN n ELSE Duty(b)
      BY <2>1, <2>7 DEF Duty
    <3>2. \A b \in Wrapper :
            b \in alloc' <=> IF b = p THEN H # {} \/ n > 0 ELSE b \in alloc
      BY <2>1, <2>5, <2>8
    <3>3. \A b \in Wrapper : Holders(b)' = IF b = p THEN H ELSE Holders(b)
      BY <2>3, <2>5, <2>6
    <3> QED
      BY <2>2, <2>5, <3>1, <3>2, <3>3, HeldIf
  <2>10. Shared!LetGo(p, u)
    BY <2>2, <2>5, <2>6, <2>7, <2>9, MappedAt
       DEF Shared!LetGo, Shared!Held, Duty
  <2> QED
    BY <1>0, <2>2, <2>5, <2>10, SharedNextIf
<1> QED
  BY <1>1, <1>2, <1>3, <1>4, <1>5, <1>6, <1>7, <1>8, <1>9 DEF Next, Goal

(* A wrapper lives exactly as long as a userdata or a :destroy() that is   *)
(* due holds it: VoidWrapper implements SharedObject (lg_make_value_wrapper,*)
(* lg_push_vwrapper_wrapper, wrapper_destroy, wrapper_gc).                 *)
THEOREM WrapperImplementsShared == ASSUME Careful PROVE Spec => ImplementsShared
<1>1. Init => Shared!Init
  <2>1. ASSUME Init PROVE Shared!Init
    <3>1. \A a \in Wrapper : Holders(a) = {} /\ a \notin alloc /\ a \notin owed
      BY <2>1 DEF Init, Holders
    <3>2. [a \in Wrapper |-> Holders(a)] = [a \in Wrapper |-> {}]
      BY <3>1
    <3>3. [a \in Wrapper |-> Duty(a)] = [a \in Wrapper |-> 0]
      BY <3>1 DEF Duty
    <3>4. [a \in Wrapper |-> a \in alloc] = [a \in Wrapper |-> FALSE]
      <4> DEFINE F(a) == a \in alloc
      <4>1. \A a \in Wrapper : F(a) = FALSE
        BY <3>1
      <4> HIDE DEF F
      <4>2. [a \in Wrapper |-> F(a)] = [a \in Wrapper |-> FALSE]
        BY <4>1
      <4> QED
        BY <4>2, Zenon DEF F
    <3> QED
      BY <3>2, <3>3, <3>4 DEF Shared!Init, Duty
  <2> QED
    BY <2>1
<1>2. IInv /\ [Next]_vars => [Shared!Next]_(Shared!vars)
  BY StepShared
<1> QED
  BY <1>1, <1>2, Invariance, PTL DEF Spec, ImplementsShared, Shared!Spec
=============================================================================
