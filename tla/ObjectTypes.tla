---------------------------- MODULE ObjectTypes ----------------------------
(***************************************************************************)
(* Memory management types of Lua proxy objects (src/gnome/object_types.c, *)
(* src/glib/init.c, src/glib/channel.c): which handler is chosen for a new *)
(* proxy, and what that handler does on WIDGET_REF and WIDGET_UNREF.       *)
(*                                                                         *)
(* A handler sees the proxy's class only through a few questions (is it a  *)
(* GObject, is it a GInitiallyUnowned, is it called GSList...), so classes *)
(* are abstracted to the kinds below, and the FLAG_xxx bit mask to the set *)
(* of the flags that are set.                                              *)
(***************************************************************************)
EXTENDS Integers

Kinds == {"gobject", "unowned", "loop", "channel", "slist", "struct"}

Flags == {"NEW", "NOT_NEW", "ALLOCATED", "ARRAY", "ARRAY_ELEMENT", "CONST",
          "NOINCREF"}

(* The handlers, in the order lg_register_object_type is called for them.  *)
MMTypes == <<"plain", "malloc", "array", "channel", "gobject", "unowned",
             "loop">>
MMType == {"plain", "malloc", "array", "channel", "gobject", "unowned", "loop"}

Counted == {"channel", "gobject", "unowned", "loop"}  \* wrap a reference count
Freeing == {"malloc", "array"}                        \* own a memory block

(***************************************************************************)
(* WIDGET_SCORE of each handler.                                           *)
(***************************************************************************)
PlainScore(kind, flags, onStack) ==
  IF "ARRAY_ELEMENT" \in flags THEN 1000
  ELSE IF kind = "slist" THEN 10
  ELSE IF onStack THEN 5
  ELSE IF "CONST" \in flags THEN 500
  ELSE IF "ALLOCATED" \in flags THEN 1 ELSE 2

MallocScore(flags) ==
  IF "NEW" \notin flags THEN 0 ELSE IF "ALLOCATED" \in flags THEN 4 ELSE 3

ArrayScore(flags) == IF "ARRAY" \in flags THEN 200 ELSE 0

ChannelScore(kind) == IF kind = "channel" THEN 100 ELSE 0

GObjectScore(kind, flags) ==
  IF "ALLOCATED" \notin flags /\ kind \in {"gobject", "unowned"} THEN 100 ELSE 0

UnownedScore(kind, flags) ==
  IF "ALLOCATED" \notin flags /\ kind = "unowned" THEN 103 ELSE 0

LoopScore(kind) == IF kind = "loop" THEN 100 ELSE 0

Scores(kind, flags, onStack) ==
  <<PlainScore(kind, flags, onStack), MallocScore(flags), ArrayScore(flags),
    ChannelScore(kind), GObjectScore(kind, flags), UnownedScore(kind, flags),
    LoopScore(kind)>>

(* lg_guess_object_type: the highest score, the first registered on a tie. *)
Best(score, i) ==
  \A j \in 1..7 : score[i] > score[j] \/ (score[i] = score[j] /\ i <= j)
GuessType(kind, flags, onStack) ==
  MMTypes[CHOOSE i \in 1..7 : Best(Scores(kind, flags, onStack), i)]

(***************************************************************************)
(* lg_inc_refcount and WIDGET_REF: how many references are added to the    *)
(* library object.  g_object_ref_sink adds none when it takes over the     *)
(* floating reference.                                                     *)
(***************************************************************************)
RefSink(floating) == IF floating THEN 0 ELSE 1

(* g_object_ref_sink replaced by g_object_ref. *)
RefsAdded_NotSunk(m, flags, floating) ==
  IF "NOINCREF" \in flags \/ m \notin Counted THEN 0
  ELSE IF m = "gobject" /\ "NEW" \in flags THEN 0 ELSE 1

(* The GIOChannel handler's test used for all. *)
RefsAdded_IfNoFlags(m, flags, floating) ==
  IF m \in Counted /\ flags = {} THEN 1 ELSE 0

(* No exception for new objects. *)
RefsAdded_EvenIfNew(m, flags, floating) ==
  IF "NOINCREF" \in flags \/ m \notin Counted THEN 0 ELSE RefSink(floating)

RefsAdded(m, flags, floating) ==
  IF "NOINCREF" \in flags THEN 0
  ELSE CASE m = "gobject" -> IF "NEW" \in flags THEN 0 ELSE RefSink(floating)
         [] m = "unowned" -> RefSink(floating)
         [] m = "loop"    -> 1
         [] m = "channel" -> IF flags = {} THEN 1 ELSE 0
         [] OTHER         -> 0
=============================================================================
