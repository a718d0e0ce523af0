------------------------------- MODULE Closure -------------------------------
(***************************************************************************)
(* Closures (src/gnome/closure.c): C code, made by libffi, through which   *)
(* the library calls a Lua function.  The userdata struct lua_closure is   *)
(* the program's, or automatic: made for an argument, and collected any    *)
(* time after the call.  What the library keeps is an address of code; it  *)
(* leads to closure_handler with a pointer to the userdata and a cif.      *)
(*                                                                         *)
(* Memory that was freed is used again: userdata, code and cif alike.      *)
(***************************************************************************)
EXTENDS Registry

CONSTANTS
  Closure,    (* addresses of userdata (struct lua_closure)                *)
  Code,       (* addresses of code (ffi_closure)                           *)
  Cif,        (* addresses of ffi_cif                                      *)
  Func,       (* Lua functions                                             *)
  LibFunc,    (* library functions that take a function, and fields of     *)
              (* structures that hold one                                  *)
  Field,      (* those that are fields                                     *)
  TypeOf,     (* the function type each of them wants                      *)
  Whitelist,  (* _check_types_whitelist                                    *)
  Blacklist,  (* _check_funcs_blacklist                                    *)
  Keeps       (* those that keep the function after they have returned     *)

(* The lists are right: a function that keeps what it was given has a type *)
(* that is not listed, or is listed itself.                                *)
ASSUME ClosureAssumption ==
  /\ NULL \notin Closure \cup Code \cup Cif
  /\ Field \subseteq Keeps /\ Keeps \subseteq LibFunc
  /\ \A fn \in LibFunc : TypeOf[fn] # NULL
  /\ \A fn \in Keeps \ Field : TypeOf[fn] \in Whitelist => fn \in Blacklist

(* struct lua_closure, what the library has or gets as a function, and a    *)
(* call under way.                                                         *)
Types == {TypeOf[fn] : fn \in LibFunc}

ClosureRecord ==
  [magic1 : BOOLEAN, func_ref : Int, ts : Types \cup {NULL},
   code : Code \cup {NULL}, cif : Cif \cup {NULL}, is_automatic : BOOLEAN,
   func : Func \cup {NULL}]

PointerRecord == [code : Code, func : Func \cup {NULL}, ts : Types]

CallRecord == [fn : LibFunc, closure : Closure, pointer : PointerRecord]

ASSUME RecordsAssumption == NULL \notin ClosureRecord \cup CallRecord

VARIABLES
  cl,         (* struct lua_closure: NULL, or its fields; func is the      *)
              (* function the program gave                                 *)
  code,       (* is the code allocated, where does it lead                 *)
  cifs,       (* the allocated ffi_cifs                                    *)
  unused,     (* struct closure_keeper: pairs of code and cif              *)
  held,       (* closures that are reachable from Lua                      *)
  call,       (* the call of a library function under way, or NULL         *)
  lib,        (* what the library keeps, with what it was told it is       *)
  leaked,     (* references to functions that were not given back          *)
  careful,    (* does the program keep its closures long enough            *)
  debug       (* RUNTIME_DEBUG_CLOSURES                                    *)

closureVars ==
  <<cl, code, cifs, unused, held, call, lib, leaked, careful, debug>>

ClosureInit ==
  /\ cl = [c \in Closure |-> NULL]
  /\ code = [t \in Code |-> [alloc |-> FALSE, cl |-> NULL, cif |-> NULL]]
  /\ cifs = {} /\ unused = {} /\ held = {} /\ lib = {} /\ leaked = {}
  /\ call = NULL
  /\ careful \in BOOLEAN
  /\ debug \in BOOLEAN

(* What memset leaves. *)
Zeroed == [magic1 |-> FALSE, func_ref |-> 0, ts |-> NULL, code |-> NULL,
           cif |-> NULL, is_automatic |-> FALSE, func |-> NULL]

Live(c) == cl[c] # NULL /\ cl[c].magic1

(* What the library has or gets: an address, and what it stands for. *)
Pointer(c, fn, t) == [code |-> t, func |-> cl'[c].func, ts |-> TypeOf[fn]]

-----------------------------------------------------------------------------
(* lg_create_closure *)
Created(c, f, is_automatic) ==
  [Zeroed EXCEPT !.magic1 = TRUE, !.func_ref = RefOf(registry, f),
                 !.is_automatic = is_automatic, !.func = f]

Create(c, f) ==
  /\ cl[c] = NULL
  /\ HasRoom(registry, f)
  /\ registry' = Referenced(registry, f)

(* gnome.closure *)
NewClosure(c, f) ==
  /\ Create(c, f)
  /\ cl' = [cl EXCEPT ![c] = Created(c, f, FALSE)]
  /\ held' = held \cup {c}
  /\ UNCHANGED <<code, cifs, unused, call, lib, leaked, careful, debug>>

(* _check_automatic *)
MayBeAutomatic_ByType(fn) == TypeOf[fn] \in Whitelist
MayBeAutomatic(fn) == TypeOf[fn] \in Whitelist /\ fn \notin Blacklist

(* _setup_closure after the check: allocate, and let the code lead to c.   *)
Setup(c, x, fn, t, k) ==
  /\ ~code[t].alloc /\ k \notin cifs
  /\ cl' = [cl EXCEPT ![c] = [x EXCEPT !.ts = TypeOf[fn], !.code = t,
                                       !.cif = k]]
  /\ code' = [code EXCEPT ![t] = [alloc |-> TRUE, cl |-> c, cif |-> k]]
  /\ cifs' = cifs \cup {k}

(* lg_use_closure: set up at the first use; another type is an error.      *)
Use(c, fn, t) ==
  IF cl[c].ts = NULL
  THEN \E k \in Cif : Setup(c, cl[c], fn, t, k)
  ELSE /\ cl[c].ts = TypeOf[fn]
       /\ t = cl[c].code
       /\ UNCHANGED <<cl, code, cifs>>

(* lua2ffi_func_ptr with a closure, for an argument of function fn.        *)
PassClosure(c, fn) ==
  /\ call = NULL /\ c \in held /\ fn \notin Field
  /\ \E t \in Code :
       /\ Use(c, fn, t)
       /\ call' = [fn |-> fn, closure |-> c, pointer |-> Pointer(c, fn, t)]
  /\ UNCHANGED <<registry, unused, held, lib, leaked, careful, debug>>

(* lua2ffi_func_ptr with a Lua function: an automatic closure, which stays *)
(* on the stack until the library function has returned.                   *)
PassFunction(c, f, fn) ==
  /\ call = NULL /\ fn \notin Field
  /\ Create(c, f)
  /\ MayBeAutomatic(fn)
  /\ \E t \in Code, k \in Cif :
       /\ Setup(c, Created(c, f, TRUE), fn, t, k)
       /\ call' = [fn |-> fn, closure |-> c, pointer |-> Pointer(c, fn, t)]
  /\ held' = held \cup {c}
  /\ UNCHANGED <<unused, lib, leaked, careful, debug>>

(* ... or an error; the closure has its type, but no code.                 *)
PassFunctionFails(c, f, fn) ==
  /\ call = NULL /\ fn \notin Field
  /\ Create(c, f)
  /\ ~MayBeAutomatic(fn)
  /\ cl' = [cl EXCEPT ![c] = [Created(c, f, TRUE) EXCEPT !.ts = TypeOf[fn]]]
  /\ UNCHANGED <<code, cifs, unused, held, call, lib, leaked, careful, debug>>

(* The library function returns. *)
Return ==
  /\ call # NULL
  /\ lib' = IF call.fn \in Keeps THEN lib \cup {call.pointer} ELSE lib
  /\ held' = IF cl[call.closure].is_automatic THEN held \ {call.closure}
                                              ELSE held
  /\ call' = NULL
  /\ UNCHANGED <<registry, cl, code, cifs, unused, leaked, careful, debug>>

(* lua2struct_func_ptr: a Lua function is refused there, a closure stored. *)
SetField(c, fn) ==
  /\ c \in held /\ ~cl[c].is_automatic /\ fn \in Field
  /\ \E t \in Code :
       /\ Use(c, fn, t)
       /\ lib' = lib \cup {Pointer(c, fn, t)}
  /\ UNCHANGED <<registry, unused, held, call, leaked, careful, debug>>

(* The library forgets a function. *)
Forget(p) ==
  /\ p \in lib
  /\ lib' = lib \ {p}
  /\ UNCHANGED <<registry, cl, code, cifs, unused, held, call, leaked,
                 careful, debug>>

(* The program forgets a closure; if it is careful, not while the library  *)
(* has it (doc/en/closure.html).                                           *)
Drop(c) ==
  /\ c \in held /\ (call # NULL => call.closure # c)
  /\ careful => \A p \in lib : p.code # cl[c].code
  /\ held' = held \ {c}
  /\ UNCHANGED <<registry, cl, code, cifs, unused, call, lib, leaked, careful,
                 debug>>

(* _free_closure: code stays what it was until it is used again.           *)
FreedCode(ts) ==
  [t \in Code |-> [code[t] EXCEPT !.alloc = @ /\ t \notin ts]]

(* l_closure_gc: func_ref is not given back.                               *)
Gc_CifFreed(c) ==
  /\ Live(c) /\ c \notin held
  /\ cifs' = cifs \ {cl[c].cif}
  /\ IF debug /\ cl[c].code # NULL
     THEN /\ unused' = unused \cup {<<cl[c].code, cl[c].cif>>}
          /\ UNCHANGED code
     ELSE /\ code' = FreedCode({cl[c].code})
          /\ UNCHANGED unused
  /\ cl' = [cl EXCEPT ![c] = Zeroed]
  /\ leaked' = leaked \cup {cl[c].func_ref}
  /\ UNCHANGED <<registry, held, call, lib, careful, debug>>

(* Mutant: the reference is given back, the structure not cleared.         *)
Gc_NotCleared(c) ==
  /\ Live(c) /\ c \notin held
  /\ registry' = Unreferenced(registry, cl[c].func_ref)
  /\ code' = FreedCode({cl[c].code})
  /\ cifs' = cifs \ {cl[c].cif}
  /\ UNCHANGED <<cl, unused, held, call, lib, leaked, careful, debug>>

Gc(c) ==
  /\ Live(c) /\ c \notin held
  /\ IF debug /\ cl[c].code # NULL
     THEN /\ unused' = unused \cup {<<cl[c].code, cl[c].cif>>}
          /\ UNCHANGED <<code, cifs>>
     ELSE /\ code' = FreedCode({cl[c].code})
          /\ cifs' = cifs \ {cl[c].cif}
          /\ UNCHANGED unused
  /\ cl' = [cl EXCEPT ![c] = Zeroed]
  /\ leaked' = leaked \cup {cl[c].func_ref}
  /\ UNCHANGED <<registry, held, call, lib, careful, debug>>

(* Lua frees the userdata, a collection later. *)
Reclaim(c) ==
  /\ cl[c] = Zeroed
  /\ cl' = [cl EXCEPT ![c] = NULL]
  /\ UNCHANGED <<registry, code, cifs, unused, held, call, lib, leaked,
                 careful, debug>>

(* l_unset_debug_flags: lg_done_closure frees what was kept.               *)
UnsetDebug ==
  /\ debug
  /\ code' = FreedCode({u[1] : u \in unused})
  /\ cifs' = cifs \ {u[2] : u \in unused}
  /\ unused' = {}
  /\ debug' = FALSE
  /\ UNCHANGED <<registry, cl, held, call, lib, leaked, careful>>

ClosureNext ==
  \/ \E c \in Closure, f \in Func : NewClosure(c, f)
  \/ \E c \in Closure, f \in Func, fn \in LibFunc :
       PassFunction(c, f, fn) \/ PassFunctionFails(c, f, fn)
  \/ \E c \in Closure, fn \in LibFunc : PassClosure(c, fn) \/ SetField(c, fn)
  \/ Return
  \/ \E p \in lib : Forget(p)
  \/ \E c \in Closure : Drop(c) \/ Gc(c) \/ Reclaim(c)
  \/ UnsetDebug

-----------------------------------------------------------------------------
(* What the library can call now. *)
Pointers == lib \cup (IF call = NULL THEN {} ELSE {call.pointer})

(* closure_handler: the test that ends the program with a message.         *)
Detected(t) == ~Live(code[t].cl) \/ cl[code[t].cl].cif # code[t].cif

(* The code is there, and the handler runs the function that was given,    *)
(* with arguments of the type that the library passes.                     *)
RunsRight(p) ==
  /\ code[p.code].alloc
  /\ ~Detected(p.code)
  /\ LET c == code[p.code].cl IN cl[c].func = p.func /\ cl[c].ts = p.ts

(* If the program keeps its closures as long as the library has them, the  *)
(* library never calls anything else than what it was given: an automatic  *)
(* closure is never called after the call it was made for, memory is not   *)
(* used for another one too early, types match.                            *)
PointersGood == careful => \A p \in Pointers : RunsRight(p)

(* With the debug flag, calling a closure that was collected too early     *)
(* ends the program with a message, and never runs another function, even  *)
(* when the same addresses have been used again (closure.c:329, "This      *)
(* ensures that GC'd closures can be detected in closure_handler").        *)
CallsDetected ==
  debug => \A p \in Pointers :
             code[p.code].alloc /\ (Detected(p.code) \/ RunsRight(p))

(* The same is promised without the flag: closure.c:213, "the main test    *)
(* here is on cif.  A new closure might have already been allocated at the *)
(* same location (...) the cif pointer will differ".                       *)
StaleDetected ==
  \A p \in Pointers :
    code[p.code].alloc => Detected(p.code) \/ RunsRight(p)
=============================================================================
