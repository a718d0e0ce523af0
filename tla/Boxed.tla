-------------------------------- MODULE Boxed --------------------------------
(***************************************************************************)
(* Boxed values (src/gnome/boxed.c): a type of GObject whose values are    *)
(* Lua values, kept as references in the registry.  A box is a userdata    *)
(* made by gnome.box, freed by the collector, or a slice made for an       *)
(* argument, a GValue, or by GObject copying a box; such a one is freed by *)
(* lg_boxed_free, which GObject or call_info_free calls.                   *)
(***************************************************************************)
EXTENDS Registry

CONSTANTS
  Box,        (* addresses of struct boxed_lua_value                       *)
  Value,      (* Lua values that are boxed                                 *)
  Thread,     (* Lua threads                                               *)
  ValueKey,   (* what box.value reads from the stack in another thread     *)
  TakesBoxes  (* does the library free a box it was given                  *)

(* struct boxed_lua_value, and in value what was boxed. *)
BoxRecord == [ref : Int, L : Thread, is_userdata : BOOLEAN,
              value : Value \cup {NIL}, freed : BOOLEAN]

VARIABLES
  boxes,      (* struct boxed_lua_value; value is what was boxed           *)
  boxed_count

boxedVars == <<boxes, boxed_count>>

BoxedInit ==
  /\ boxes = [b \in Box |-> NULL]
  /\ boxed_count = 0

Boxes == {b \in Box : boxes[b] # NULL}

(* _fill_boxed_value, and the fields its callers set.                      *)
Filled(v, l, is_userdata) ==
  [ref |-> RefOf(registry, v), L |-> l, is_userdata |-> is_userdata,
   value |-> v, freed |-> FALSE]

Fill(b, v, l, is_userdata) ==
  /\ boxes[b] = NULL
  /\ HasRoom(registry, v)
  /\ boxes' = [boxes EXCEPT ![b] = Filled(v, l, is_userdata)]
  /\ registry' = Referenced(registry, v)
  /\ boxed_count' = boxed_count + 1

(* gnome.box *)
BoxValue(b, v, l) == Fill(b, v, l, TRUE)

(* lg_make_boxed_value, for what is neither nil nor a box.                 *)
MakeBoxedValue(b, v, l) == v # NIL /\ Fill(b, v, l, FALSE)

(* _boxed_copy: called by GObject, and by lg_make_boxed_value for a box.   *)
BoxedCopy(b, src) ==
  /\ boxes[b] = NULL /\ boxes[src] # NULL
  /\ LET v == RawGet(registry, boxes[src].ref) IN
       /\ HasRoom(registry, v)
       /\ boxes' = [boxes EXCEPT ![b] = [boxes[src] EXCEPT
                      !.ref = RefOf(registry, v), !.is_userdata = FALSE]]
       /\ registry' = Referenced(registry, v)
  /\ boxed_count' = boxed_count + 1

(* lg_boxed_free: for a userdata there is an error message, and the memory *)
(* stays.                                                                  *)
BoxedFree(b) ==
  /\ boxes[b] # NULL
  /\ boxes[b].is_userdata => TakesBoxes /\ ~boxes[b].freed
  /\ registry' = Unreferenced(registry, boxes[b].ref)
  /\ boxed_count' = boxed_count - 1
  /\ boxes' = [boxes EXCEPT ![b] = IF boxes[b].is_userdata
                                   THEN [boxes[b] EXCEPT !.freed = TRUE]
                                   ELSE NULL]

(* l_boxed_gc *)
BoxedGc(b) ==
  /\ boxes[b] # NULL /\ boxes[b].is_userdata
  /\ registry' = Unreferenced(registry, boxes[b].ref)
  /\ boxed_count' = boxed_count - 1
  /\ boxes' = [boxes EXCEPT ![b] = NULL]

BoxedNext ==
  \/ \E b \in Box, v \in Value \cup {NIL}, l \in Thread :
       BoxValue(b, v, l) \/ MakeBoxedValue(b, v, l)
  \/ \E b, src \in Box : BoxedCopy(b, src)
  \/ \E b \in Box : BoxedFree(b) \/ BoxedGc(b)

-----------------------------------------------------------------------------
(* lg_get_boxed_value, called in thread l: the value is moved there.       *)
GetBoxedValue(b) == RawGet(registry, boxes[b].ref)

(* l_boxed_index with the key "value", called in thread l: the value is    *)
(* put on the stack of the box's thread, and the top of l's is returned.   *)
BoxedIndexValue(b, l) ==
  IF boxes[b].L = l THEN GetBoxedValue(b) ELSE ValueKey

(* What can be read from a box, by the library for the program or by the   *)
(* program, is the value that was put into it: doc/en/boxed.html, "when    *)
(* you access the field "value" (...) the wrapped Lua value is returned".  *)
(* Of two threads, one reads its own key instead (boxed.c:90).  With one,  *)
(* this follows from RefsOwned, which the runs check.                      *)
ReadRight ==
  \A b \in Boxes : ~boxes[b].freed =>
    /\ GetBoxedValue(b) = boxes[b].value
    /\ \A l \in Thread : BoxedIndexValue(b, l) = boxes[b].value
=============================================================================
