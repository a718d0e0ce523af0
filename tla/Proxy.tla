------------------------------- MODULE Proxy -------------------------------
(***************************************************************************)
(* Lua proxy objects for library objects (src/gnome/object.c).             *)
(*                                                                         *)
(* A proxy is a userdata holding the address of a library object and the   *)
(* type it is seen as.  gnome.objects maps an address to one of the proxies*)
(* for it; all proxies for an address (its "aliases", one per type) are    *)
(* linked into a circular list.  gnome.aliases is a weak table: the Lua    *)
(* collector removes an unreachable proxy from it at once, but calls the   *)
(* proxy's finalizer lg_object_gc later, and the program runs in between.  *)
(* That window, and the addresses that the C heap reuses, are what this    *)
(* module is about.                                                        *)
(*                                                                         *)
(* is_new is left out: the code sets and clears it but never reads it.     *)
(***************************************************************************)
EXTENDS ObjectTypes, FiniteSets

CONSTANTS
  Proxy,      (* addresses of userdata                                     *)
  Addr,       (* addresses of library objects on the heap                  *)
  Stack,      (* addresses of library objects on the C stack               *)
  Type,       (* typespecs                                                 *)
  KindOf,     (* what a handler can see of a typespec                      *)
  Features,   (* which operations the program uses beside the basic ones   *)
  MaxCRef,    (* bound: references held by library code                    *)
  MaxRef,     (* bound: reference count of an object a proxy is made for   *)
  NULL,       (* NULL pointer, nil, no object                              *)
  Detect      (* typespec 0: detect the type from the object itself        *)

Location == Addr \cup Stack

ASSUME ProxyAssumption ==
  /\ IsFiniteSet(Proxy)
  /\ KindOf \in [Type -> Kinds]
  /\ Features \subseteq {"const", "destroy", "override"}
  /\ MaxCRef \in Nat /\ MaxRef \in Nat
  /\ NULL \notin Proxy \cup Location \cup Type
  /\ Detect \notin Type
  /\ Addr \cap Stack = {}

VARIABLES
  st,       (* life cycle of the userdata, see Status                      *)
  ptr,      (* struct object: p                                            *)
  ts,       (* struct object: ts                                           *)
  mm,       (* struct object: mm_type                                      *)
  deleted,  (* struct object: is_deleted                                   *)
  next,     (* struct object: next, the circular list of aliases           *)
  objects,  (* gnome.objects                                               *)
  class,    (* library heap: type of the object at an address, or NULL     *)
  rc,       (* library heap: its reference count                           *)
  cref,     (* of these, the references held by library code               *)
  fault     (* a freed object or a NULL pointer has been dereferenced;     *)
            (* what happens after that is undefined and not modelled       *)

proxyVars == <<st, ptr, ts, mm, deleted, next>>
heapVars  == <<class, rc, cref>>
vars == <<proxyVars, objects, heapVars, fault>>

(* live: reachable from Lua.  dropped: unreachable, not yet noticed by the *)
(* collector.  doomed: removed from gnome.aliases, lg_object_gc pending.   *)
Status == {"free", "live", "dropped", "doomed"}

InAliases(w) == st[w] \in {"live", "dropped"}
Exists(w)    == st[w] # "free"

Init ==
  /\ st      = [w \in Proxy |-> "free"]
  /\ ptr     = [w \in Proxy |-> NULL]
  /\ ts      = [w \in Proxy |-> NULL]
  /\ mm      = [w \in Proxy |-> "plain"]
  /\ deleted = [w \in Proxy |-> FALSE]
  /\ next    = [w \in Proxy |-> NULL]
  /\ objects = [p \in Location |-> NULL]
  /\ class   = [p \in Location |-> NULL]
  /\ rc      = [p \in Location |-> 0]
  /\ cref    = [p \in Location |-> 0]
  /\ fault   = FALSE

-----------------------------------------------------------------------------
(***************************************************************************)
(* Walks along the circular list, as the least set that holds the start    *)
(* and the successor of each member the loop goes on from.                 *)
(***************************************************************************)
Walk(start, GoesOn(_)) ==
  {u \in Proxy : \A S \in SUBSET Proxy :
     (/\ start \in S
      /\ \A v \in S : next[v] # NULL /\ GoesOn(v) => next[v] \in S) => u \in S}

(* _find_alias stops at a proxy of the wanted type, or at a wrong address. *)
Fits(u, want) == want = Detect \/ ts[u] = want
Visited(o, p, want) ==
  LET GoesOn(v) == ptr[v] = p /\ ~Fits(v, want) IN Walk(o, GoesOn)

(* lg_invalidate_object goes on while the next proxy has an address.       *)
Invalidated(o) ==
  LET GoesOn(v) == ptr[next[v]] # NULL IN Walk(o, GoesOn)

(* _alias_unlink walks the list until it finds the predecessor.            *)
Before(w) == CHOOSE u \in Proxy : next[u] = w

-----------------------------------------------------------------------------
(***************************************************************************)
(* The library heap.  h describes the object at an address.                *)
(***************************************************************************)
Object(c, n, k) == [class |-> c, rc |-> n, cref |-> k, floating |-> FALSE]
NoObject == Object(NULL, 0, 0)
ObjectAt(p) == Object(class[p], rc[p], cref[p])

WithRefs(h, n) == [h EXCEPT !.rc = @ + n]

SetObject(p, h) ==
  /\ class' = [class EXCEPT ![p] = h.class]
  /\ rc'    = [rc    EXCEPT ![p] = h.rc]
  /\ cref'  = [cref  EXCEPT ![p] = h.cref]

(* WIDGET_UNREF, reached through lg_dec_refcount.  Dropping the last       *)
(* reference frees the object, and so do the handlers that own the memory. *)
(* Doing so for an object that is gone already is a fault.                 *)
Released(m, p) ==
  CASE m \in Counted /\ rc[p] > 1 -> Object(class[p], rc[p] - 1, cref[p])
    [] m = "plain"                -> ObjectAt(p)
    [] OTHER                      -> NoObject

Unref(w) ==
  IF deleted[w]
  THEN UNCHANGED <<heapVars, fault>>
  ELSE /\ SetObject(ptr[w], Released(mm[w], ptr[w]))
       /\ fault' = (mm[w] # "plain" /\ class[ptr[w]] = NULL)

-----------------------------------------------------------------------------
(***************************************************************************)
(* lg_get_object(p, want, flags), for an object h at p.                    *)
(***************************************************************************)
(* _make_object, up to the entries in objects and the list of aliases.     *)
MakeObject_Undetected(w, p, want, flags, h) ==
  LET m == GuessType(KindOf[IF want = Detect THEN h.class ELSE want], flags,
                     p \in Stack)
  IN  /\ st[w] = "free"
      /\ st'      = [st      EXCEPT ![w] = "live"]
      /\ ptr'     = [ptr     EXCEPT ![w] = p]
      /\ ts'      = [ts      EXCEPT ![w] = want]
      /\ mm'      = [mm      EXCEPT ![w] = m]
      /\ deleted' = [deleted EXCEPT ![w] = FALSE]
      /\ SetObject(p, WithRefs(h, RefsAdded(m, flags, h.floating)))

MakeObject(w, p, want, flags, h) ==
  LET t == IF want = Detect THEN h.class ELSE want
      m == GuessType(KindOf[t], flags, p \in Stack)
  IN  /\ st[w] = "free"
      /\ st'      = [st      EXCEPT ![w] = "live"]
      /\ ptr'     = [ptr     EXCEPT ![w] = p]
      /\ ts'      = [ts      EXCEPT ![w] = t]
      /\ mm'      = [mm      EXCEPT ![w] = m]
      /\ deleted' = [deleted EXCEPT ![w] = FALSE]
      /\ SetObject(p, WithRefs(h, RefsAdded(m, flags, h.floating)))

(* The first proxy for p, or none that has survived until now.             *)
MakeFirst(p, want, flags, h) ==
  \E w \in Proxy :
    /\ MakeObject(w, p, want, flags, h)
    /\ objects' = IF p \in Stack THEN objects ELSE [objects EXCEPT ![p] = w]
    /\ UNCHANGED <<next, fault>>

(* w added to the circular list of o.                                      *)
Linked_Open(o, w) == [next EXCEPT ![w] = next[o], ![o] = w]
Linked(o, w) == [next EXCEPT ![w] = IF next[o] = NULL THEN o ELSE next[o],
                             ![o] = w]

(* Another proxy for p, linked behind o.                                   *)
MakeAlias(o, p, want, flags, h) ==
  \E w \in Proxy :
    /\ MakeObject(w, p, want, flags \ {"NEW"}, h)
    /\ next' = Linked(o, w)
    /\ UNCHANGED <<objects, fault>>

(* _reuse_object.  A proxy that points elsewhere makes _find_alias raise an *)
(* error, or return nil which _reuse_object then dereferences.             *)
Reuse(o, p, want, flags, h) ==
  LET seen  == Visited(o, p, want)
      wrong == {u \in seen : ptr[u] # p}
      found == {u \in seen : ptr[u] = p /\ Fits(u, want)
                             /\ (u = o \/ InAliases(u))}
  IN  IF wrong # {}
      THEN /\ fault' = \E u \in wrong : ptr[u] = NULL /\ deleted[u]
           /\ SetObject(p, h)
           /\ UNCHANGED <<proxyVars, objects>>
      ELSE IF found # {}
      THEN \E u \in found :
             /\ st' = [st EXCEPT ![u] = "live"]
             /\ SetObject(p, h)
             /\ UNCHANGED <<ptr, ts, mm, deleted, next, objects, fault>>
      ELSE MakeAlias(o, p, want, flags, h)

GetObject(p, want, flags, h) ==
  IF objects[p] # NULL /\ InAliases(objects[p])
  THEN Reuse(objects[p], p, want, flags, h)
  ELSE MakeFirst(p, want, flags, h)

-----------------------------------------------------------------------------
(***************************************************************************)
(* What Lua code and the library do.                                       *)
(***************************************************************************)
(* How an object of each kind is born in a library function or in          *)
(* gnome.new, and the flags it is then handed to lg_get_object with.  A    *)
(* GtkWindow is not floating, Gtk itself holds a reference to it.          *)
Birth(flags, cr, floating) ==
  [flags |-> flags, cref |-> cr, floating |-> floating]

Births(kind) ==
  CASE kind = "gobject" -> {Birth({"NEW"}, 0, FALSE),
                            Birth({"NOINCREF"}, 0, FALSE)}
    [] kind = "unowned" -> {Birth({"NEW"}, 0, TRUE), Birth({"NEW"}, 1, FALSE),
                            Birth({"NOINCREF"}, 0, FALSE)}
    [] kind = "struct"  -> {Birth({"NEW"}, 0, FALSE),
                            Birth({"NEW", "ALLOCATED"}, 0, FALSE),
                            Birth({"NEW", "ARRAY"}, 0, FALSE)}
    [] OTHER            -> {Birth({"NEW"}, 0, FALSE)}

(* Only for a GObject the type may be left to detection.                   *)
Wanted(t) ==
  {u \in Type : KindOf[u] = KindOf[t]}
    \cup (IF KindOf[t] \in {"gobject", "unowned"} THEN {Detect} ELSE {})

(* A library function called from Lua returns a new object.                *)
LuaNew(p, t, b) ==
  /\ ~fault
  /\ class[p] = NULL
  /\ b \in Births(KindOf[t])
  /\ GetObject(p, t, b.flags, [class |-> t, rc |-> 1, cref |-> b.cref,
                               floating |-> b.floating])

(* Lua gets hold of an existing object: as a return value, as an argument  *)
(* of a callback, by reading a field, or with gnome.cast.                  *)
Get(p, want, flags) ==
  /\ ~fault
  /\ class[p] # NULL
  /\ want \in Wanted(class[p])
  /\ rc[p] < MaxRef
  /\ GetObject(p, want, flags, ObjectAt(p))

(* The same for the result of a function marked CONST_OBJECT.              *)
GetConst(p, want) == "const" \in Features /\ Get(p, want, {"CONST"})

(* Lua code forgets a proxy.                                               *)
Drop(w) ==
  /\ ~fault
  /\ st[w] = "live"
  /\ st' = [st EXCEPT ![w] = "dropped"]
  /\ UNCHANGED <<ptr, ts, mm, deleted, next, objects, heapVars, fault>>

(* The atomic step of a Lua collection: the entries of the proxies found   *)
(* unreachable leave gnome.aliases.  The finalizers of the last collection *)
(* have all been called by then.                                           *)
Collect(D) ==
  /\ ~fault
  /\ D # {} /\ \A w \in D : st[w] = "dropped"
  /\ \A w \in Proxy : st[w] # "doomed"
  /\ st' = [w \in Proxy |-> IF w \in D THEN "doomed" ELSE st[w]]
  /\ UNCHANGED <<ptr, ts, mm, deleted, next, objects, heapVars, fault>>

(* _alias_unlink: the circular list without w ...                          *)
Unlinked(w) ==
  IF next[w] = NULL THEN next
  ELSE [next EXCEPT ![Before(w)] = IF next[w] = Before(w) THEN NULL ELSE next[w],
                    ![w] = NULL]

(* ... and the entry of w in objects passed on to its predecessor.         *)
PassedOn_Never(w) == objects
PassedOn(w) ==
  LET b == Before(w)
  IN  IF next[w] # NULL /\ ptr[b] # NULL /\ objects[ptr[b]] = w
      THEN [objects EXCEPT ![ptr[b]] = b] ELSE objects

(* _set_object_pointer(w->p, NULL, w): no entry is left that leads to w.   *)
Removed_Kept(w, objs) == objs
Removed(w, objs) ==
  IF ptr[w] # NULL /\ objs[ptr[w]] = w THEN [objs EXCEPT ![ptr[w]] = NULL]
  ELSE objs

(* lg_object_gc.  The userdata is freed after it; its fields are cleared   *)
(* here because nothing may look at them any more.                         *)
Finalize_AliasKeepsRef(w) ==
  /\ ~fault
  /\ st[w] = "doomed"
  /\ next'    = Unlinked(w)
  /\ objects' = Removed(w, PassedOn(w))
  /\ IF next[w] # NULL THEN UNCHANGED <<heapVars, fault>> ELSE Unref(w)
  /\ st'      = [st      EXCEPT ![w] = "free"]
  /\ ptr'     = [ptr     EXCEPT ![w] = NULL]
  /\ ts'      = [ts      EXCEPT ![w] = NULL]
  /\ mm'      = [mm      EXCEPT ![w] = "plain"]
  /\ deleted' = [deleted EXCEPT ![w] = FALSE]

Finalize(w) ==
  /\ ~fault
  /\ st[w] = "doomed"
  /\ next'    = Unlinked(w)
  /\ objects' = Removed(w, PassedOn(w))
  /\ Unref(w)
  /\ st'      = [st      EXCEPT ![w] = "free"]
  /\ ptr'     = [ptr     EXCEPT ![w] = NULL]
  /\ ts'      = [ts      EXCEPT ![w] = NULL]
  /\ mm'      = [mm      EXCEPT ![w] = "plain"]
  /\ deleted' = [deleted EXCEPT ![w] = FALSE]

(* lg_invalidate_object(w), for the address p found in w.                  *)
Invalidate(w, p) ==
  /\ ptr'     = [u \in Proxy |-> IF u \in Invalidated(w) THEN NULL ELSE ptr[u]]
  /\ deleted' = [u \in Proxy |-> u \in Invalidated(w) \/ deleted[u]]
  /\ objects' = IF p = NULL THEN objects ELSE [objects EXCEPT ![p] = NULL]
  /\ UNCHANGED <<st, ts, mm, next>>

(* gnome.destroy: lg_destroy keeps the address for lg_invalidate_object.   *)
Destroy_NotInvalidated(w) ==
  /\ ~fault
  /\ "destroy" \in Features
  /\ st[w] = "live" /\ ptr[w] # NULL
  /\ Unref(w)
  /\ UNCHANGED <<proxyVars, objects>>

Destroy(w) ==
  /\ ~fault
  /\ "destroy" \in Features
  /\ st[w] = "live" /\ ptr[w] # NULL
  /\ Unref(w)
  /\ Invalidate(w, ptr[w])

(* g_slist_free, g_list_free, g_tree_destroy and g_dir_close called from   *)
(* Lua: the library frees the structure, the override invalidates w.       *)
FreeOverride_NotInvalidated(w) ==
  /\ ~fault
  /\ "override" \in Features
  /\ st[w] = "live" /\ ptr[w] \in Addr
  /\ KindOf[ts[w]] \in {"slist", "struct"} /\ cref[ptr[w]] = 0
  /\ SetObject(ptr[w], NoObject)
  /\ fault' = (class[ptr[w]] = NULL)
  /\ UNCHANGED <<proxyVars, objects>>

FreeOverride(w) ==
  /\ ~fault
  /\ "override" \in Features
  /\ st[w] = "live" /\ ptr[w] \in Addr
  /\ KindOf[ts[w]] \in {"slist", "struct"} /\ cref[ptr[w]] = 0
  /\ SetObject(ptr[w], NoObject)
  /\ fault' = (class[ptr[w]] = NULL)
  /\ Invalidate(w, ptr[w])

(* The library on its own: it creates objects, takes references to them    *)
(* and gives them back.  A structure it owns counts as one reference.  Lua *)
(* code that frees lists itself (FreeOverride) frees only those it made.   *)
LibNew(p, t) ==
  /\ ~fault
  /\ class[p] = NULL
  /\ p \in Stack => KindOf[t] = "struct"
  /\ "override" \in Features => KindOf[t] \notin {"slist", "struct"}
  /\ SetObject(p, Object(t, 1, 1))
  /\ UNCHANGED <<proxyVars, objects, fault>>

LibRef(p) ==
  /\ ~fault
  /\ class[p] # NULL /\ KindOf[class[p]] \in Counted
  /\ cref[p] < MaxCRef /\ rc[p] < MaxRef
  /\ SetObject(p, Object(class[p], rc[p] + 1, cref[p] + 1))
  /\ UNCHANGED <<proxyVars, objects, fault>>

LibUnref(p) ==
  /\ ~fault
  /\ cref[p] > 0
  /\ SetObject(p, IF rc[p] = 1 THEN NoObject
                  ELSE Object(class[p], rc[p] - 1, cref[p] - 1))
  /\ UNCHANGED <<proxyVars, objects, fault>>

Next ==
  \/ \E p \in Addr, t \in Type : \E b \in Births(KindOf[t]) : LuaNew(p, t, b)
  \/ \E p \in Location, want \in Type \cup {Detect} :
       Get(p, want, {"NOT_NEW"}) \/ GetConst(p, want)
  \/ \E w \in Proxy : Drop(w) \/ Finalize(w) \/ Destroy(w) \/ FreeOverride(w)
  \/ \E D \in SUBSET Proxy : Collect(D)
  \/ \E p \in Location, t \in Type : LibNew(p, t)
  \/ \E p \in Location : LibRef(p) \/ LibUnref(p)

Spec == Init /\ [][Next]_vars

(* Lua keeps collecting: a cycle finds everything that was unreachable when *)
(* it began, and every finalizer due is called.                            *)
FairSpec ==
  /\ Spec
  /\ \A w \in Proxy : WF_vars(Finalize(w))
  /\ \A w \in Proxy :
       SF_vars(\E D \in SUBSET Proxy : w \in D /\ Collect(D))

-----------------------------------------------------------------------------
(* The state consists of the values the code can put there.                *)
TypeOK ==
  /\ st \in [Proxy -> Status]
  /\ ptr \in [Proxy -> Location \cup {NULL}]
  /\ ts \in [Proxy -> Type \cup {NULL}]
  /\ mm \in [Proxy -> MMType]
  /\ deleted \in [Proxy -> BOOLEAN]
  /\ next \in [Proxy -> Proxy \cup {NULL}]
  /\ objects \in [Location -> Proxy \cup {NULL}]
  /\ class \in [Location -> Type \cup {NULL}]
  /\ rc \in [Location -> Nat]
  /\ cref \in [Location -> Nat]
  /\ fault \in BOOLEAN

(* No sequence of calls and collections makes the binding use a freed      *)
(* object or a NULL pointer (lg_object_gc, lg_destroy, _reuse_object).     *)
NoFault == ~fault

(* An entry of gnome.objects always leads to a proxy that has not been     *)
(* finalized and stands for that very address, so that lg_get_object never *)
(* sees the "should point to" error or the stale proxy of a reused address.*)
ObjectsSound ==
  \A p \in Location : objects[p] # NULL =>
     Exists(objects[p]) /\ ptr[objects[p]] = p /\ ~deleted[objects[p]]

(* The aliases of an object form closed rings: the walks of _find_alias,   *)
(* _alias_unlink and lg_invalidate_object end, meet no finalized proxy, and*)
(* stay with one object, whatever order proxies are made and finalized in. *)
RingOK ==
  \A w \in Proxy : next[w] # NULL =>
    /\ Exists(w) /\ Exists(next[w]) /\ next[w] # w /\ next[next[w]] # NULL
    /\ ptr[w] = ptr[next[w]] /\ (deleted[w] <=> deleted[next[w]])
    /\ \A u \in Proxy : next[u] = next[w] => u = w
    /\ \E u \in Proxy : next[u] = w

(* The proxies that will give back a reference to the object at p.         *)
Owners(p) ==
  {w \in Proxy : Exists(w) /\ ~deleted[w] /\ ptr[w] = p /\ mm[w] \in Counted}

(* "Each such Lua proxy object ... holds only one reference to the         *)
(* underlying library object" (object.c:189): every proxy of a reference   *)
(* counted object is backed by a reference of its own, so the object lives *)
(* at least as long as the last of them.                                   *)
Covered(w) ==
  /\ class[ptr[w]] # NULL
  /\ rc[ptr[w]] >= cref[ptr[w]] + Cardinality(Owners(ptr[w]))

RefsCovered ==
  \A p \in Location : \A w \in Owners(p) : KindOf[ts[w]] # "channel" => Covered(w)

(* The same for GIOChannel: "GIOChannels are created with a refcount of 1. *)
(* Only add more refs if this is not a new object" (channel.c:415).        *)
ChannelCovered ==
  \A p \in Location : \A w \in Owners(p) : KindOf[ts[w]] = "channel" => Covered(w)

(* No reference is lost either: an object has as many references as        *)
(* proxies and library code hold.                                          *)
RefsExact ==
  \A p \in Location :
    class[p] # NULL /\ KindOf[class[p]] \in {"gobject", "unowned"} =>
      rc[p] = cref[p] + Cardinality(Owners(p))

(* A GObject that neither Lua nor the library uses is freed: the collector *)
(* finalizes all of its proxies, which give back all of its references.    *)
(* (A GSList is freed by nobody but g_slist_free.)                         *)
Abandoned(p) ==
  /\ class[p] # NULL /\ KindOf[class[p]] \in {"gobject", "unowned"}
  /\ cref[p] = 0
  /\ \A w \in Proxy : ptr[w] = p => st[w] # "live"
GarbageFreed == \A p \in Addr : Abandoned(p) ~> ~Abandoned(p)

(* Reference counted objects, seen without their counters, behave as       *)
(* SharedObject says.                                                      *)
Shared == INSTANCE SharedObject WITH
  Addr    <- Location,
  Holder  <- Proxy,
  alive   <- [p \in Location |-> class[p] # NULL /\ KindOf[class[p]] \in Counted],
  holders <- [p \in Location |-> Owners(p)],
  lib     <- cref
ImplementsShared == Shared!Spec
=============================================================================
