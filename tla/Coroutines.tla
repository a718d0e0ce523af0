----------------------------- MODULE Coroutines -----------------------------
(* What the network library promises its coroutines (lib/watches.lua:13-17,  *)
(* 23-34): one that waits is resumed, by the main loop, when one of the      *)
(* events it waits for has happened, and at no other time.                   *)
EXTENDS Naturals

CONSTANTS Thread,   \* coroutines
          Event     \* what one can wait for

VARIABLES status,   \* status[t]: what has become of coroutine t
          waits,    \* waits[t]: the events t waits for
          ready     \* the events that have happened and are not used up

vars == <<status, waits, ready>>

Init == /\ status = [t \in Thread |-> "new"]
        /\ waits = [t \in Thread |-> {}]
        /\ ready = {}

Start(t) == /\ status[t] = "new"
            /\ status' = [status EXCEPT ![t] = "active"]
            /\ UNCHANGED <<waits, ready>>

\* A coroutine yields; it has used up what it found ready.
Block(t) == /\ status[t] = "active"
            /\ status' = [status EXCEPT ![t] = "waiting"]
            /\ \E E \in (SUBSET Event) \ {{}} : waits' = [waits EXCEPT ![t] = E]
            /\ ready' \in SUBSET ready

Resume(t) == /\ status[t] = "waiting"
             /\ waits[t] \cap ready # {}
             /\ status' = [status EXCEPT ![t] = "active"]
             /\ waits' = [waits EXCEPT ![t] = {}]
             /\ ready' \in SUBSET ready

\* It returns or raises an error.
End(t) == /\ status[t] = "active"
          /\ status' = [status EXCEPT ![t] = "dead"]
          /\ ready' \in SUBSET ready
          /\ UNCHANGED waits

Happen == /\ ready \subseteq ready'
          /\ ready' \in SUBSET Event
          /\ UNCHANGED <<status, waits>>

Next == \/ \E t \in Thread : Start(t) \/ Block(t) \/ Resume(t) \/ End(t)
        \/ Happen

Spec == Init /\ [][Next]_vars
=============================================================================
