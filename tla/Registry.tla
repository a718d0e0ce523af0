------------------------------ MODULE Registry ------------------------------
(***************************************************************************)
(* References to Lua values in the registry, luaL_ref and luaL_unref of    *)
(* Lua 5.1, which closures, boxed values and signal handlers share.  Cell  *)
(* 0 is the head of the list of free cells; a free cell holds the number   *)
(* of the next one.  Nothing stops anybody from giving a cell back twice.  *)
(***************************************************************************)
EXTENDS Integers, FiniteSets

CONSTANTS
  MaxRef,    (* bound: cells of the registry                               *)
  NIL,       (* the value nil, of which no reference is kept               *)
  NULL       (* no address; the content of a cell never used               *)

ASSUME RegistryAssumption == MaxRef \in Nat \ {0}

VARIABLE registry

LUA_REFNIL == -1

RegistryInit == registry = [i \in 0..MaxRef |-> IF i = 0 THEN 0 ELSE NULL]

(* lua_tointeger: what is no number counts as 0. *)
ToInteger(x) == IF x \in 0..MaxRef THEN x ELSE 0

(* The cell that luaL_ref takes: the first free one, or one more. *)
FreeRef(r) ==
  IF ToInteger(r[0]) # 0
  THEN r[0]
  ELSE Cardinality({i \in 1..MaxRef : r[i] # NULL}) + 1

RefOf(r, v) == IF v = NIL THEN LUA_REFNIL ELSE FreeRef(r)

(* luaL_ref, when there is room. *)
HasRoom(r, v) == RefOf(r, v) <= MaxRef
Referenced(r, v) ==
  IF v = NIL
  THEN r
  ELSE [r EXCEPT ![0] = IF ToInteger(r[0]) # 0 THEN r[r[0]] ELSE @,
                 ![FreeRef(r)] = v]

(* luaL_unref *)
Unreferenced(r, ref) ==
  IF ref = LUA_REFNIL THEN r ELSE [r EXCEPT ![ref] = r[0], ![0] = ref]

(* lua_rawgeti *)
RawGet(r, ref) == IF ref = LUA_REFNIL THEN NIL ELSE r[ref]
=============================================================================
