----------------------------- MODULE VoidWrapper -----------------------------
(***************************************************************************)
(* void* wrappers (src/gnome/voidptr.c): a C structure that stands for a   *)
(* Lua value wherever the library takes a void*.  It pins the value with a *)
(* reference in the Lua registry, and counts the Lua userdata made for it. *)
(*                                                                         *)
(* The library keeps such pointers without telling anybody, so the program *)
(* has duties (doc/en/voidptr.html): a wrapper that was made implicitly is *)
(* owed one call of :destroy(), and while the library keeps the pointer of *)
(* one made by gnome.void_ptr, a userdata for it must be kept.  A program  *)
(* that is Careful does that.                                              *)
(***************************************************************************)
EXTENDS Integers, FiniteSets

CONSTANTS
  Wrapper,   (* addresses of struct value_wrapper                          *)
  Udata,     (* addresses of userdata (struct _value_wrapper2)             *)
  Ref,       (* slots of the Lua registry                                  *)
  Careful,   (* does the program fulfil its duties                         *)
  NULL

ASSUME VoidWrapperAssumption ==
  /\ IsFiniteSet(Udata)
  /\ Careful \in BOOLEAN
  /\ NULL \notin Wrapper \cup Ref

VARIABLES
  alloc,     (* the structures that are allocated                          *)
  ref,       (* struct value_wrapper: ref                                  *)
  refcount,  (* struct value_wrapper: refcount                             *)
  st,        (* is a userdata free, live, or unreachable ("doomed")        *)
  wrapper,   (* struct _value_wrapper2: wrapper                            *)
  registry,  (* slots of the registry that are in use                      *)
  stored,    (* wrappers the library keeps a pointer to                    *)
  owed       (* wrappers made implicitly and not destroyed yet             *)

vars == <<alloc, ref, refcount, st, wrapper, registry, stored, owed>>

Init ==
  /\ alloc    = {}
  /\ ref      = [a \in Wrapper |-> NULL]
  /\ refcount = [a \in Wrapper |-> 0]
  /\ st       = [u \in Udata |-> "free"]
  /\ wrapper  = [u \in Udata |-> NULL]
  /\ registry = {}
  /\ stored   = {}
  /\ owed     = {}

Holders(a) == {u \in Udata : st[u] # "free" /\ wrapper[u] = a}
Users(a)   == {u \in Udata : st[u] = "live" /\ wrapper[u] = a}

-----------------------------------------------------------------------------
(* lg_make_value_wrapper, and the references its caller adds. *)
MakeValueWrapper(a, n) ==
  /\ a \notin alloc
  /\ alloc' = alloc \cup {a}
  /\ refcount' = [refcount EXCEPT ![a] = n]
  /\ \E r \in Ref \ registry :
       /\ registry' = registry \cup {r}
       /\ ref' = [ref EXCEPT ![a] = r]

(* A userdata for a. *)
NewUdata(u, a) ==
  /\ st[u] = "free"
  /\ st' = [st EXCEPT ![u] = "live"]
  /\ wrapper' = [wrapper EXCEPT ![u] = a]

(* lg_is_vwrapper: anything else raises an error. *)
IsVwrapper(a) == refcount[a] > 0 /\ ref[a] # NULL

(* lg_push_vwrapper_wrapper, for a wrapper the library hands to a callback.*)
Push_Uncounted(a, u) ==
  /\ IsVwrapper(a)
  /\ NewUdata(u, a)
  /\ UNCHANGED refcount

Push(a, u) ==
  /\ IsVwrapper(a)
  /\ NewUdata(u, a)
  /\ refcount' = [refcount EXCEPT ![a] = @ + 1]

-----------------------------------------------------------------------------
(* gnome.void_ptr(value). *)
VoidPtr(a, u) ==
  /\ MakeValueWrapper(a, 1)
  /\ NewUdata(u, a)
  /\ UNCHANGED <<stored, owed>>

(* lua2ffi_void_ptr: a library function is called with a plain Lua value,  *)
(* and keeps the pointer or not.                                           *)
PassValue_Uncounted(a) ==
  /\ MakeValueWrapper(a, 0)
  /\ owed' = owed \cup {a}
  /\ stored' \in {stored, stored \cup {a}}
  /\ UNCHANGED <<st, wrapper>>

PassValue(a) ==
  /\ MakeValueWrapper(a, 1)
  /\ owed' = owed \cup {a}
  /\ stored' \in {stored, stored \cup {a}}
  /\ UNCHANGED <<st, wrapper>>

(* lg_userdata_to_ffi: it is called with a userdata, and keeps the pointer.*)
PassWrapper(u) ==
  /\ st[u] = "live"
  /\ stored' = stored \cup {wrapper[u]}
  /\ UNCHANGED <<alloc, ref, refcount, st, wrapper, registry, owed>>

(* ffi2lua_void_ptr: the library calls back with a pointer it keeps, or    *)
(* (GDestroyNotify) with one that it has just removed.                     *)
Callback(a, u) ==
  /\ a \in stored
  /\ Push(a, u)
  /\ stored' \in {stored, stored \ {a}}
  /\ UNCHANGED <<alloc, ref, registry, owed>>

(* The library forgets the pointer without telling anybody. *)
Forget(a) ==
  /\ a \in stored
  /\ stored' = stored \ {a}
  /\ UNCHANGED <<alloc, ref, refcount, st, wrapper, registry, owed>>

(* wrapper_destroy. *)
Destroy(u) ==
  /\ st[u] = "live" /\ IsVwrapper(wrapper[u])
  /\ Careful => wrapper[u] \in owed \ stored
  /\ refcount' = [refcount EXCEPT ![wrapper[u]] = @ - 1]
  /\ owed' = owed \ {wrapper[u]}
  /\ UNCHANGED <<alloc, ref, st, wrapper, registry, stored>>

(* Lua code forgets a userdata. *)
Drop(u) ==
  /\ st[u] = "live"
  /\ Careful /\ wrapper[u] \in stored \ owed => Users(wrapper[u]) # {u}
  /\ st' = [st EXCEPT ![u] = "doomed"]
  /\ UNCHANGED <<alloc, ref, refcount, wrapper, registry, stored, owed>>

(* wrapper_gc: the structure is freed with the last reference, and gives   *)
(* back its slot of the registry.                                          *)
Last_TestedTooEarly(a) == refcount[a] = 0
Last(a) == refcount[a] = 1

FreeWrapper_RefKept(a) ==
  /\ alloc' = alloc \ {a}
  /\ ref' = [ref EXCEPT ![a] = NULL]
  /\ UNCHANGED registry

FreeWrapper(a) ==
  /\ alloc' = alloc \ {a}
  /\ ref' = [ref EXCEPT ![a] = NULL]
  /\ registry' = registry \ {ref[a]}

WrapperGc(u) ==
  LET a == wrapper[u]
  IN  /\ st[u] = "doomed"
      /\ st' = [st EXCEPT ![u] = "free"]
      /\ wrapper' = [wrapper EXCEPT ![u] = NULL]
      /\ refcount' = [refcount EXCEPT ![a] = IF @ > 0 THEN @ - 1 ELSE @]
      /\ IF Last(a) THEN FreeWrapper(a) ELSE UNCHANGED <<alloc, registry, ref>>
      /\ UNCHANGED <<stored, owed>>

Next ==
  \/ \E a \in Wrapper, u \in Udata : VoidPtr(a, u) \/ Callback(a, u)
  \/ \E a \in Wrapper : PassValue(a) \/ Forget(a)
  \/ \E u \in Udata : PassWrapper(u) \/ Destroy(u) \/ Drop(u) \/ WrapperGc(u)

Spec == Init /\ [][Next]_vars

(* Lua finalizes what is unreachable. *)
FairSpec == Spec /\ \A u \in Udata : WF_vars(WrapperGc(u))

-----------------------------------------------------------------------------
(* The state consists of the values the code can put there. *)
TypeOK ==
  /\ alloc \subseteq Wrapper /\ stored \subseteq Wrapper /\ owed \subseteq Wrapper
  /\ registry \subseteq Ref
  /\ ref \in [Wrapper -> Ref \cup {NULL}]
  /\ refcount \in [Wrapper -> Nat]
  /\ st \in [Udata -> {"free", "live", "doomed"}]
  /\ wrapper \in [Udata -> Wrapper \cup {NULL}]

(* For a careful program, no userdata and no pointer kept by the library   *)
(* ever leads to a freed wrapper: the check of lg_is_vwrapper never reads  *)
(* freed memory and never fails.                                           *)
NoDangling ==
  /\ \A u \in Udata : st[u] # "free" => wrapper[u] \in alloc
  /\ stored \subseteq alloc

(* Every wrapper pins exactly one value, and every reference into the      *)
(* registry belongs to one wrapper: none is lost, none is given back twice.*)
RegistryExact ==
  /\ registry = {ref[a] : a \in alloc}
  /\ \A a, b \in alloc : ref[a] = ref[b] => a = b

(* "This counter should be at least one ... When it drops to zero, the     *)
(* void* wrapper is automatically freed" (voidptr.html:74).                *)
CountPositive == \A a \in alloc : refcount[a] > 0

(* The counter is the number of userdata, plus one while :destroy() is owed.*)
CountExact ==
  \A a \in Wrapper :
    refcount[a] = Cardinality(Holders(a)) + (IF a \in owed THEN 1 ELSE 0)

(* What nobody uses is freed. *)
Unused(a) == a \in alloc /\ a \notin owed /\ Users(a) = {}
UnusedFreed == \A a \in Wrapper : Unused(a) ~> ~Unused(a)

(* A wrapper lives exactly as long as somebody holds it. *)
Shared == INSTANCE SharedObject WITH
  Addr    <- Wrapper,
  Holder  <- Udata,
  alive   <- [a \in Wrapper |-> a \in alloc],
  holders <- [a \in Wrapper |-> Holders(a)],
  lib     <- [a \in Wrapper |-> IF a \in owed THEN 1 ELSE 0]
ImplementsShared == Shared!Spec
=============================================================================
