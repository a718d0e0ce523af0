------------------------------ MODULE MCProxy ------------------------------
(* Instances of Proxy for TLC. *)
EXTENDS Proxy, TLC

(* Types with the properties the handlers look at.  GtkWidget and GtkWindow *)
(* are two types one object can be seen as, so are GdkEvent and GdkEventKey.*)
TypeKinds ==
  [GdkPixbuf   |-> "gobject", GObject   |-> "gobject",
   GtkWidget   |-> "unowned", GtkWindow |-> "unowned",
   GMainLoop   |-> "loop",    GIOChannel |-> "channel",
   GdkEvent    |-> "struct",  GdkEventKey |-> "struct", GList |-> "struct",
   GSList      |-> "slist"]

MCKindOf == [t \in Type |-> TypeKinds[t]]

Symmetry == Permutations(Proxy) \cup Permutations(Addr)
=============================================================================
