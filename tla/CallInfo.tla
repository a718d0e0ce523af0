------------------------------ MODULE CallInfo ------------------------------
(***************************************************************************)
(* Calls between Lua and the library (src/gnome/call.c, closure.c).        *)
(*                                                                         *)
(* Each call of a library function (lg_call) and each call of a Lua        *)
(* function through a closure (closure_handler) borrows a call_info from a *)
(* pool.  Calls nest: the library calls a closure or a signal handler, Lua *)
(* code in there calls the library again.  A Lua error unwinds the stack to*)
(* a pcall with a longjmp through all of that, and nothing is cleaned up.  *)
(*                                                                         *)
(* An argument is described by what the binding does with it:              *)
(*   "value"   copied, no memory, never returned                           *)
(*   "nil"     NULL for a pointer to a number                              *)
(*   "inout"   a pointer to a number, which is returned after the call     *)
(*   "gvalue"  a Lua value converted to a GValue, returned after the call  *)
(*   "boxed"   a Lua value made a GBoxed                                   *)
(***************************************************************************)
EXTENDS Integers, Sequences, FiniteSets

CONSTANTS
  Info,       (* addresses of struct call_info                             *)
  MaxArg,     (* bound: arguments of a function                            *)
  MaxDepth,   (* bound: calls in progress                                  *)
  Forms,      (* the forms of arguments the program uses                   *)
  OutArgs,    (* do closures have output arguments (int* )                 *)
  Errors,     (* do Lua errors occur                                       *)
  NULL

AllForms == {"value", "nil", "inout", "gvalue", "boxed"}
ArgNr == 1..MaxArg

ASSUME CallInfoAssumption ==
  /\ NULL \notin Info
  /\ MaxArg \in Nat /\ MaxDepth \in Nat
  /\ Forms \subseteq AllForms
  /\ OutArgs \in BOOLEAN /\ Errors \in BOOLEAN

VARIABLES
  ci_pool,     (* the discarded structures, the last one first             *)
  ci_current,  (* "the currently running function"                         *)
  made,        (* the structures allocated so far                          *)
  is_output,   (* call_info: args[i].is_output, the i for which it is set  *)
  free_method, (* call_info: args[i].free_method, the i for which it is set*)
  arg_count,   (* call_info: arg_count, with the return value              *)
  items,       (* call_info: first, the i with memory in the list          *)
  boxes,       (* boxed values made for arguments and not yet freed        *)
  frames,      (* the C stack: calls in progress, the innermost one last   *)
  fault        (* freed memory or a NULL pointer has been used, which ends *)
               (* the model                                                *)

infoVars == <<is_output, free_method, arg_count, items>>
vars == <<ci_pool, ci_current, made, infoVars, boxes, frames, fault>>

(* A frame: lg_call, closure_handler or (without a call_info) the callback *)
(* for signals; the arguments; tmp, where lg_call saves ci_current.        *)
Frame(kind, ci, args, tmp) == [kind |-> kind, ci |-> ci, args |-> args, tmp |-> tmp]

Depth == Len(frames)
Top   == frames[Depth]
InLua == Depth > 0 => Top.kind # "call"
InLib == Depth > 0 /\ Top.kind = "call"

Init ==
  /\ ci_pool     = <<>>
  /\ ci_current  = NULL
  /\ made        = {}
  /\ is_output   = [c \in Info |-> {}]
  /\ free_method = [c \in Info |-> {}]
  /\ arg_count   = [c \in Info |-> 0]
  /\ items       = [c \in Info |-> {}]
  /\ boxes       = {}
  /\ frames      = <<>>
  /\ fault       = FALSE

-----------------------------------------------------------------------------
(* The structure is left in the pool. *)
Allocated_Kept(c) ==
  /\ IF ci_pool # <<>> THEN c = Head(ci_pool) ELSE c \notin made
  /\ ci_pool' = ci_pool
  /\ made' = made \cup {c}

(* call_info_alloc: from the pool, or new.  c is the structure, and the    *)
(* flags of the arguments it was last used for, up to arg_count, are       *)
(* cleared.                                                                *)
Allocated(c) ==
  /\ IF ci_pool # <<>> THEN c = Head(ci_pool) /\ ci_pool' = Tail(ci_pool)
                       ELSE c \notin made     /\ ci_pool' = ci_pool
  /\ made' = made \cup {c}

Zeroed_AllButLast(c) == {i \in ArgNr : i < arg_count[c] - 1}
Zeroed(c) == {i \in ArgNr : i < arg_count[c]}

(* call_info_free: the list of extra memory, then the arguments that need  *)
(* it; a GValue is in the list.                                            *)
ToFree_AllButLast(c) == {i \in free_method[c] : i < arg_count[c] - 1}
ToFree(c) == {i \in free_method[c] : i < arg_count[c]}

Freed(c) ==
  /\ ci_pool' = <<c>> \o ci_pool
  /\ items' = [items EXCEPT ![c] = {}]
  /\ boxes' = boxes \ {<<c, i>> : i \in ToFree(c)}

(* The innermost pcall is called by Lua code in frame k (0: outermost).    *)
Catcher(k) == k > 0 => frames[k].kind # "call"

Unwound(k) ==
  /\ Errors /\ k < Depth /\ Catcher(k)
  /\ frames' = SubSeq(frames, 1, k)

-----------------------------------------------------------------------------
(* lg_call, up to ffi_call.                                                *)
With(args, forms) == {i \in DOMAIN args : args[i] \in forms}

Built_FlagsKept(c, args) ==
  /\ is_output'   = [is_output   EXCEPT ![c] = @ \cup With(args, {"inout", "gvalue"})]
  /\ free_method' = [free_method EXCEPT ![c] = @ \cup With(args, {"gvalue", "boxed"})]
  /\ items'       = [items       EXCEPT ![c] = With(args, {"inout", "gvalue"})]
  /\ boxes'       = boxes \cup {<<c, i>> : i \in With(args, {"boxed"})}

Built(c, args) ==
  /\ is_output'   = [is_output   EXCEPT ![c] = (@ \ Zeroed(c)) \cup With(args, {"inout", "gvalue"})]
  /\ free_method' = [free_method EXCEPT ![c] = (@ \ Zeroed(c)) \cup With(args, {"gvalue", "boxed"})]
  /\ items'       = [items       EXCEPT ![c] = With(args, {"inout", "gvalue"})]
  /\ boxes'       = boxes \cup {<<c, i>> : i \in With(args, {"boxed"})}

Call(c, args) ==
  /\ ~fault
  /\ InLua /\ Depth < MaxDepth
  /\ Allocated(c)
  /\ Built(c, args)
  /\ arg_count' = [arg_count EXCEPT ![c] = Len(args) + 1]
  /\ frames' = Append(frames, Frame("call", c, args, ci_current))
  /\ ci_current' = c
  /\ UNCHANGED fault

(* An argument cannot be converted; the ones before it have been.          *)
CallFails(c, args, k) ==
  /\ ~fault
  /\ InLua /\ Depth < MaxDepth
  /\ Allocated(c)
  /\ Built(c, args)
  /\ arg_count' = [arg_count EXCEPT ![c] = 0]
  /\ Errors /\ k <= Depth /\ Catcher(k)
  /\ frames' = SubSeq(frames, 1, k)
  /\ UNCHANGED <<ci_current, fault>>

(* The library function has returned: lg_call, from there on.              *)
Dereferenced(f) == {i \in DOMAIN f.args : i \in is_output[f.ci] /\ f.args[i] # "value"}

CallReturn_CurrentKept ==
  /\ ~fault
  /\ InLib
  /\ ci_current' = ci_current
  /\ Freed(Top.ci)
  /\ fault' = FALSE
  /\ frames' = SubSeq(frames, 1, Depth - 1)
  /\ UNCHANGED <<made, is_output, free_method, arg_count>>

CallReturn ==
  /\ ~fault
  /\ InLib
  /\ ci_current' = Top.tmp
  /\ Freed(Top.ci)
  /\ fault' = \/ \E i \in Dereferenced(Top) : Top.args[i] = "nil"
              \/ \E i \in ToFree(Top.ci) : Top.args[i] = "gvalue"
  /\ frames' = SubSeq(frames, 1, Depth - 1)
  /\ UNCHANGED <<made, is_output, free_method, arg_count>>

(* Its result cannot be converted to a Lua value.                          *)
ReturnFails(k) ==
  /\ ~fault
  /\ InLib
  /\ ci_current' = Top.tmp
  /\ Unwound(k)
  /\ UNCHANGED <<ci_pool, made, infoVars, boxes, fault>>

(* closure_handler, up to lua_call; the arguments out are int*.            *)
Closure(c, out) ==
  /\ ~fault
  /\ InLib /\ Depth < MaxDepth
  /\ Allocated(c)
  /\ is_output'   = [is_output   EXCEPT ![c] = (@ \ Zeroed(c)) \cup out]
  /\ free_method' = [free_method EXCEPT ![c] = @ \ Zeroed(c)]
  /\ arg_count'   = [arg_count   EXCEPT ![c] = 0]
  /\ items'       = [items       EXCEPT ![c] = {}]
  /\ frames' = Append(frames, Frame("closure", c,
                  [i \in ArgNr |-> IF i \in out THEN "inout" ELSE "value"], NULL))
  /\ UNCHANGED <<ci_current, boxes, fault>>

ClosureReturn ==
  /\ ~fault
  /\ Depth > 0 /\ Top.kind = "closure"
  /\ Freed(Top.ci)
  /\ frames' = SubSeq(frames, 1, Depth - 1)
  /\ UNCHANGED <<ci_current, made, is_output, free_method, arg_count, fault>>

(* A signal handler is called and returns.                                 *)
Signal ==
  /\ ~fault
  /\ InLib /\ Depth < MaxDepth
  /\ frames' = Append(frames, Frame("signal", NULL, <<>>, NULL))
  /\ UNCHANGED <<ci_pool, ci_current, made, infoVars, boxes, fault>>

SignalReturn ==
  /\ ~fault
  /\ Depth > 0 /\ Top.kind = "signal"
  /\ frames' = SubSeq(frames, 1, Depth - 1)
  /\ UNCHANGED <<ci_pool, ci_current, made, infoVars, boxes, fault>>

(* An error in Lua code, or in converting what a closure returns.          *)
LuaError(k) ==
  /\ ~fault
  /\ Depth > 0 /\ InLua
  /\ Unwound(k)
  /\ UNCHANGED <<ci_pool, ci_current, made, infoVars, boxes, fault>>

Arguments == UNION {[1..n -> Forms] : n \in 0..MaxArg}

Next ==
  \/ \E c \in Info, args \in Arguments : Call(c, args)
  \/ \E c \in Info, args \in Arguments, k \in 0..Depth : CallFails(c, args, k)
  \/ CallReturn
  \/ \E k \in 0..Depth : ReturnFails(k) \/ LuaError(k)
  \/ \E c \in Info, out \in SUBSET (IF OutArgs THEN ArgNr ELSE {}) : Closure(c, out)
  \/ ClosureReturn
  \/ Signal \/ SignalReturn

Spec == Init /\ [][Next]_vars

-----------------------------------------------------------------------------
(* The state consists of the values the code can put there.                *)
Frames == [kind : {"call", "closure", "signal"}, ci : Info \cup {NULL},
           args : UNION {[1..n -> AllForms] : n \in 0..MaxArg}, tmp : Info \cup {NULL}]
TypeOK ==
  /\ ci_pool \in Seq(Info) /\ made \subseteq Info
  /\ ci_current \in Info \cup {NULL}
  /\ is_output \in [Info -> SUBSET ArgNr] /\ free_method \in [Info -> SUBSET ArgNr]
  /\ arg_count \in [Info -> 0..MaxArg + 1] /\ items \in [Info -> SUBSET ArgNr]
  /\ boxes \subseteq Info \X ArgNr
  /\ frames \in Seq(Frames) /\ Depth <= MaxDepth
  /\ fault \in BOOLEAN

Pooled == {ci_pool[i] : i \in DOMAIN ci_pool}
Using(i) == frames[i].kind # "signal"
InUse == {frames[i].ci : i \in {j \in DOMAIN frames : Using(j)}}
Lost  == made \ (Pooled \cup InUse)

(* Neither freed memory nor a NULL pointer is used when a call ends and its *)
(* results and arguments are converted and freed.                          *)
NoFault == ~fault

(* However calls nest and fail, no structure serves two calls at a time,   *)
(* and none is in the pool twice or while it is in use.                    *)
PoolSound ==
  /\ Pooled \cup InUse \subseteq made /\ Pooled \cap InUse = {}
  /\ \A i, j \in DOMAIN ci_pool : ci_pool[i] = ci_pool[j] => i = j
  /\ \A i, j \in DOMAIN frames :
       Using(i) /\ Using(j) /\ frames[i].ci = frames[j].ci => i = j

(* A structure is "taken from the pool, or newly allocated. In both cases, *)
(* it is initialized to 0" (call.c:44): what a call returns to Lua and what *)
(* it frees are its own arguments, never those of an earlier call.         *)
FlagsExact ==
  \A i \in {j \in DOMAIN frames : Using(j)} :
    /\ is_output[frames[i].ci] = With(frames[i].args, {"inout", "gvalue"})
    /\ free_method[frames[i].ci] = With(frames[i].args, {"gvalue", "boxed"})

(* ci_current, read by lg_log_func at any time, and the values saved to    *)
(* restore it, never lead to a structure that was freed or is used for     *)
(* another call by now, not even after a Lua error has left them behind.   *)
Safe(c) == c # NULL => c \in made \ Pooled
CurrentSafe ==
  /\ Safe(ci_current)
  /\ \A i \in DOMAIN frames :
       /\ Safe(frames[i].tmp)
       /\ frames[i].kind = "closure" => ci_current # frames[i].ci

(* The boxed values made for the arguments of a call are freed with it,    *)
(* unless an error has lost them with the structure.                       *)
BoxesFreed == \A b \in boxes : b[1] \notin Pooled
=============================================================================
