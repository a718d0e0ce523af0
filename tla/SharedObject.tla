---------------------------- MODULE SharedObject ----------------------------
(***************************************************************************)
(* What the proxies of reference counted objects promise, without counters:*)
(* an object has a set of holders in Lua and a number of references in the *)
(* library, and it is freed in the very step in which the last of them     *)
(* lets go - never earlier, never later.                                   *)
(***************************************************************************)
EXTENDS Naturals

CONSTANTS Addr,    (* addresses of objects *)
          Holder   (* who can hold a reference in Lua *)

VARIABLES alive,   (* there is an object at the address *)
          holders, (* who holds a reference to it in Lua *)
          lib      (* references held by library code *)

vars == <<alive, holders, lib>>

Init ==
  /\ alive   = [p \in Addr |-> FALSE]
  /\ holders = [p \in Addr |-> {}]
  /\ lib     = [p \in Addr |-> 0]

(* H and n hold on to the object at p after the step. *)
Held(p, H, n) ==
  /\ holders' = [holders EXCEPT ![p] = H]
  /\ lib'     = [lib     EXCEPT ![p] = n]
  /\ alive'   = [alive   EXCEPT ![p] = H # {} \/ n > 0]

Create(p, H, n) ==
  /\ ~alive[p]
  /\ H # {} \/ n > 0
  /\ Held(p, H, n)

Hold(p, w) ==
  /\ alive[p] /\ w \notin holders[p]
  /\ Held(p, holders[p] \cup {w}, lib[p])

LetGo(p, w) ==
  /\ alive[p] /\ w \in holders[p]
  /\ Held(p, holders[p] \ {w}, lib[p])

LibHold(p) == alive[p] /\ Held(p, holders[p], lib[p] + 1)

LibLetGo(p) == alive[p] /\ lib[p] > 0 /\ Held(p, holders[p], lib[p] - 1)

Next ==
  \E p \in Addr :
    \/ \E H \in {{}} \cup {{w} : w \in Holder}, n \in {0, 1} : Create(p, H, n)
    \/ \E w \in Holder : Hold(p, w) \/ LetGo(p, w)
    \/ LibHold(p) \/ LibLetGo(p)

Spec == Init /\ [][Next]_vars
=============================================================================
