----------------------------- MODULE References -----------------------------
(***************************************************************************)
(* Closures, boxed values and signal handlers together: they share the     *)
(* registry, and each of them is called by the library or the collector at *)
(* any time between steps of the others.                                   *)
(***************************************************************************)
EXTENDS Boxed, Closure, Callback

(* What is kept in the registry: no number, no address, not nil. *)
Things == Value \cup Func \cup Object \cup HandlerFunc \cup ExtraArgs

ASSUME ThingsAssumption ==
  /\ Things \cap ({NULL, NIL} \cup 0..MaxRef) = {} /\ NULL # NIL
  /\ NULL \notin BoxRecord \cup InfoRecord \cup 0..MaxRef

vars == <<registry, boxedVars, closureVars, callbackVars>>

Init == RegistryInit /\ BoxedInit /\ ClosureInit /\ CallbackInit

BoxedStep    == BoxedNext    /\ UNCHANGED <<closureVars, callbackVars>>
ClosureStep  == ClosureNext  /\ UNCHANGED <<boxedVars, callbackVars>>
CallbackStep == CallbackNext /\ UNCHANGED <<boxedVars, closureVars>>

Next == BoxedStep \/ ClosureStep \/ CallbackStep

Spec == Init /\ [][Next]_vars

-----------------------------------------------------------------------------
TypeOK ==
  /\ DOMAIN registry = 0..MaxRef
  /\ \A b \in Boxes : boxes[b].ref \in {LUA_REFNIL} \cup 1..MaxRef
  /\ boxed_count \in 0..Cardinality(Box)
  /\ \A c \in Closure : Live(c) => cl[c].func_ref \in 1..MaxRef
  /\ cifs \subseteq Cif /\ leaked \subseteq 1..MaxRef
  /\ running \subseteq Handler /\ connected \subseteq Handler

(* The references somebody has, each with its owner and the value. *)
BoxRefs == {<<b, boxes[b].ref, boxes[b].value>> :
              b \in {x \in Boxes : ~boxes[x].freed /\ boxes[x].value # NIL}}
ClosureRefs == {<<c, cl[c].func_ref, cl[c].func>> : c \in {x \in Closure : Live(x)}}
HandlerRefs ==
  LET H == {h \in Handler : cbi[h] # NULL}
  IN (UNION {{<<h, cbi[h].handler_ref, cbi[h].f>>,
              <<h, cbi[h].object_ref, cbi[h].o>>} : h \in H})
     \cup {<<h, cbi[h].args_ref, cbi[h].a>> : h \in {x \in H : cbi[x].a # NULL}}

Owned == BoxRefs \cup ClosureRefs \cup HandlerRefs

(* No two owners share a cell of the registry, each finds its value there, *)
(* and a cell that holds a value has an owner, or belonged to a closure    *)
(* that was collected (l_closure_gc does not give its reference back):     *)
(* nothing else is kept from the collector.  The reference to the tooltip  *)
(* is Lua's for as long as a handler of query-tooltip has its proxy.       *)
RefsOwned ==
  /\ TooltipReleased
  /\ \A x, y \in Owned : x # y => x[2] # y[2]
  /\ \A x \in Owned : registry[x[2]] = x[3]
  /\ \A i \in 1..MaxRef :
       registry[i] \in Things => i \in leaked \/ \E x \in Owned : x[2] = i
=============================================================================
