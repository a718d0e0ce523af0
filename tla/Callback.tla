------------------------------ MODULE Callback ------------------------------
(***************************************************************************)
(* Signal handlers in Lua (src/glib/callback.c).  A struct callback_info   *)
(* keeps references to the handler, to the object's proxy and to a table   *)
(* of extra arguments, from glib_connect until GLib has no more use for    *)
(* the connection.  The object lives as long as the library or a proxy     *)
(* has a reference to it.                                                  *)
(***************************************************************************)
EXTENDS Registry

CONSTANTS
  Handler,    (* handler ids, with their struct callback_info              *)
  Object,     (* objects; a proxy of the object is written the same        *)
  HandlerFunc,(* Lua functions used as handlers                            *)
  ExtraArgs,  (* tables of extra arguments                                 *)
  Tooltip     (* handlers of the signal query-tooltip                      *)

ASSUME CallbackAssumption == IsFiniteSet(Handler)

(* struct callback_info, and what its references are for. *)
InfoRecord == [handler_ref : Int, object_ref : Int, args_ref : Int,
               f : HandlerFunc, o : Object, a : ExtraArgs \cup {NULL}]

VARIABLES
  cbi,        (* struct callback_info: NULL, or references and what they   *)
              (* are references to                                         *)
  connected,  (* handlers that GLib knows of                               *)
  running,    (* handlers that are being called                            *)
  proxy,      (* the proxy of an object: none, held by the program, or not *)
  libref,     (* objects the library has a reference to                    *)
  tip,        (* does a live proxy of the GtkTooltip exist                 *)
  tiprefs     (* references that Lua has to the GtkTooltip                 *)

callbackVars == <<cbi, connected, running, proxy, libref, tip, tiprefs>>

CallbackInit ==
  /\ cbi = [h \in Handler |-> NULL]
  /\ connected = {} /\ running = {}
  /\ proxy = [o \in Object |-> "held"]
  /\ libref = Object
  /\ tip = FALSE /\ tiprefs = 0

InUse(o) == \E h \in running : cbi[h].o = o
Alive(o) == o \in libref \/ proxy[o] # "none"

-----------------------------------------------------------------------------
(* _connect: three references, the last only if there are extra arguments. *)
Info(h, o, f, a) ==
  LET r1 == Referenced(registry, f)
      r2 == Referenced(r1, o)
  IN [handler_ref |-> RefOf(registry, f), object_ref |-> RefOf(r1, o),
      args_ref |-> IF a = NULL THEN 0 ELSE RefOf(r2, a),
      f |-> f, o |-> o, a |-> a]

Connected(h, o, f, a) ==
  LET r2 == Referenced(Referenced(registry, f), o)
  IN IF a = NULL THEN r2 ELSE Referenced(r2, a)

(* Bound: the registry has a cell for each of them. *)
Fits(o, f, a) ==
  LET r1 == Referenced(registry, f)
      r2 == Referenced(r1, o)
  IN HasRoom(registry, f) /\ HasRoom(r1, o) /\ (a # NULL => HasRoom(r2, a))

Connect_Unanchored(h, o, f, a) ==
  /\ cbi[h] = NULL /\ proxy[o] = "held"
  /\ Fits(o, f, a)
  /\ cbi' = [cbi EXCEPT ![h] = [Info(h, o, f, NULL) EXCEPT !.object_ref =
                                                    LUA_REFNIL]]
  /\ registry' = Referenced(registry, f)
  /\ connected' = connected \cup {h}
  /\ UNCHANGED <<running, proxy, libref, tip, tiprefs>>

Connect(h, o, f, a) ==
  /\ cbi[h] = NULL /\ proxy[o] = "held"
  /\ Fits(o, f, a)
  /\ cbi' = [cbi EXCEPT ![h] = Info(h, o, f, a)]
  /\ registry' = Connected(h, o, f, a)
  /\ connected' = connected \cup {h}
  /\ UNCHANGED <<running, proxy, libref, tip, tiprefs>>

(* _callback, up to the call of the handler.  The argument of query-tooltip*)
(* becomes a proxy, with a reference, unless there is one already.         *)
Emit(h) ==
  /\ h \in connected \ running
  /\ running' = running \cup {h}
  /\ tip' = (tip \/ h \in Tooltip)
  /\ tiprefs' = IF h \in Tooltip /\ ~tip THEN tiprefs + 1 ELSE tiprefs
  /\ UNCHANGED <<registry, cbi, connected, proxy, libref>>

(* _free_callback_info, for the handlers in hs.                            *)
Released_ArgsKept(r, h) ==
  Unreferenced(Unreferenced(r, cbi[h].handler_ref), cbi[h].object_ref)

Released(r, h) ==
  LET r2 == Unreferenced(Unreferenced(r, cbi[h].handler_ref),
                         cbi[h].object_ref)
  IN IF cbi[h].args_ref = 0 THEN r2 ELSE Unreferenced(r2, cbi[h].args_ref)

AllReleased(order, n) ==
  LET R[i \in 0..n] == IF i = 0 THEN registry ELSE Released(R[i - 1], order[i])
  IN R[n]

FreeCallbackInfo(hs) ==
  /\ cbi' = [h \in Handler |-> IF h \in hs THEN NULL ELSE cbi[h]]
  /\ \E order \in [1..Cardinality(hs) -> hs] :
       /\ \A h \in hs : \E i \in 1..Cardinality(hs) : order[i] = h
       /\ registry' = AllReleased(order, Cardinality(hs))

(* _callback, after the call: the tooltip is given back and its proxy made *)
(* invalid.  If the handler was disconnected meanwhile, GLib frees it now. *)
HandlerReturns(h) ==
  /\ h \in running
  /\ running' = running \ {h}
  /\ tip' = (tip /\ h \notin Tooltip)
  /\ tiprefs' = IF h \in Tooltip /\ tip THEN tiprefs - 1 ELSE tiprefs
  /\ FreeCallbackInfo({h} \ connected)
  /\ UNCHANGED <<connected, proxy, libref>>

(* g_signal_handlers_disconnect: a handler that runs is freed later.       *)
Disconnected(hs) ==
  /\ connected' = connected \ hs
  /\ FreeCallbackInfo(hs \ running)

(* glib_disconnect *)
Disconnect(h) ==
  /\ h \in connected /\ proxy[cbi[h].o] = "held"
  /\ Disconnected({h})
  /\ UNCHANGED <<running, proxy, libref, tip, tiprefs>>

OfObject(o) == {h \in connected : cbi[h].o = o}

(* The library destroys the object: it gives its reference back, and all   *)
(* signal handlers are disconnected.                                       *)
Dispose(o) ==
  /\ o \in libref
  /\ libref' = libref \ {o}
  /\ Disconnected(OfObject(o))
  /\ UNCHANGED <<running, proxy, tip, tiprefs>>

(* The program forgets the proxy, or gets it again as the first argument   *)
(* of a handler.                                                           *)
DropProxy(o) ==
  /\ proxy[o] = "held"
  /\ proxy' = [proxy EXCEPT ![o] = "dropped"]
  /\ UNCHANGED <<registry, cbi, connected, running, libref, tip, tiprefs>>

Receive(h) ==
  /\ h \in running /\ RawGet(registry, cbi[h].object_ref) = cbi[h].o
  /\ proxy[cbi[h].o] = "dropped"
  /\ proxy' = [proxy EXCEPT ![cbi[h].o] = "held"]
  /\ UNCHANGED <<registry, cbi, connected, running, libref, tip, tiprefs>>

(* The collector finds the proxy neither in the registry nor on the stack  *)
(* of a handler.  Its reference may have been the last: the object goes.   *)
CollectProxy(o) ==
  /\ proxy[o] = "dropped" /\ ~InUse(o)
  /\ \A i \in 1..MaxRef : registry[i] # o
  /\ proxy' = [proxy EXCEPT ![o] = "none"]
  /\ IF o \in libref THEN UNCHANGED <<registry, cbi, connected>>
                     ELSE Disconnected(OfObject(o))
  /\ UNCHANGED <<running, libref, tip, tiprefs>>

CallbackNext ==
  \/ \E h \in Handler, o \in Object, f \in HandlerFunc,
        a \in ExtraArgs \cup {NULL} : Connect(h, o, f, a)
  \/ \E h \in Handler :
       Emit(h) \/ HandlerReturns(h) \/ Disconnect(h) \/ Receive(h)
  \/ \E o \in Object : Dispose(o) \/ DropProxy(o) \/ CollectProxy(o)

-----------------------------------------------------------------------------
(* As long as a signal can call a handler, and as long as the handler      *)
(* runs, its callback_info exists and leads to the function, the object    *)
(* and the extra arguments it was connected with, also when the program    *)
(* has no other reference to them or the handler disconnects itself.       *)
HandlersServed ==
  \A h \in connected \cup running :
    /\ cbi[h] # NULL
    /\ RawGet(registry, cbi[h].handler_ref) = cbi[h].f
    /\ RawGet(registry, cbi[h].object_ref) = cbi[h].o
    /\ cbi[h].a # NULL => RawGet(registry, cbi[h].args_ref) = cbi[h].a
    /\ proxy[cbi[h].o] # "none"

(* The GtkTooltip is released when the handler returns ("must be released  *)
(* NOW", callback.c:211): Lua has one reference to it per proxy, and none  *)
(* when no handler of query-tooltip runs.                                  *)
TooltipReleased ==
  /\ tiprefs = IF tip THEN 1 ELSE 0
  /\ tip => running \cap Tooltip # {}
=============================================================================
