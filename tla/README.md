# A formal model of lua-gtk

lua-gtk (LuaGnome) binds Gtk, GLib, Gdk, Pango and other C libraries to Lua 5.1.
Functions, constants, structures and their types are found in generated tables at
run time; libffi makes the calls. What is delicate is not the calling but the
lifetimes: Lua has a tracing collector with finalizers, GObject has reference
counts with floating references, plain C structures have an owner somebody has to
know, and each side keeps pointers to what the other side frees. Beside that stands
the meaning of what crosses the border: the bits of a field, the type of an enum,
the function that a name stands for. This directory holds TLA+ models of the program,
TLC configurations that check them, and proofs that TLAPS checks.

Paths below are relative to `src/lua-gtk/src/`.

## 1. Inventory

### Components, their state and operations

| Component | Code | State | Operations | Model |
|---|---|---|---|---|
| Proxy objects | `gnome/object.c` | userdata `struct object` (p, ts, mm_type, is_deleted, next), tables `gnome.objects` and the weak `gnome.aliases` | `lg_get_object` (`_make_object`, `_find_alias`, `_reuse_object`), `lg_object_gc` (`_alias_unlink`), `lg_invalidate_object` | `Proxy` |
| Object types | `gnome/object_types.c`, `glib/init.c`, `glib/channel.c` | table of handlers | score, reference, release | `ObjectTypes` |
| gnome.new, destroy, cast | `gnome/init.c` | none | `lg_generic_new_array`, `lg_destroy`, `lg_cast` | `Proxy` |
| Freeing overrides | `glib/override.c` | none | `g_slist_free`, `g_list_free`, `g_tree_destroy`, `g_dir_close` | `Proxy` |
| void* wrappers | `gnome/voidptr.c` | `struct value_wrapper` (ref, refcount), userdata for it | make, push, destroy, collect, recognise | `VoidWrapper` |
| Calls | `gnome/call.c` | pool of `struct call_info`, `ci_current` | `lg_call`, allocation and release of argument memory | `CallInfo` |
| Closures | `gnome/closure.c` | userdata `struct lua_closure` (L, func_ref, ts, code) | create, type at first use, call from C, collect | `Closure`; nesting of calls: `CallInfo` |
| Signal callbacks | `glib/callback.c` | `struct callback_info` with registry references | connect, call, disconnect | `Callback`; nesting: `CallInfo` |
| Boxed values | `gnome/boxed.c` | `struct boxed_lua_value` (L, ref), userdata or slice | box, copy, free, index, collect | `Boxed` |
| The Lua registry | Lua's `luaL_ref`, as closures, boxes and callbacks use it | cells and the list of free ones | reference, unreference | `Registry`, `References` |
| Constants | `gnome/enum.c`, `gnome/data.c`, `../script/xml-const.lua` | none | encode, look up, decode, compare, add, subtract | `Constants` |
| Structures | `gnome/types.c` (struct2lua, lua2struct) | memory of the structure | read and write a field | `Fields` |
| Arguments and results | `gnome/types.c` (lua2ffi, ffi2lua) | items of a call_info | convert for a call, for a callback, and back | `Arguments`; what it leaves in a call_info: `CallInfo` |
| GValues and properties | `gnome/gvalue.c`, `glib/override.c`, `gtk/override.c` | GValues, properties | convert, get, set, clean up | `GValues` |
| Modules and types | `gnome/data.c`, `gnome/init.c` | `modules[]`, `gnome.typemap`, module tables | require, register, normalise, find | `Modules` |
| Hash tables | `hash/` | tables written at build time | build, search | `HashTable` |
| Metatables | `gnome/object_meta.c` | metatables filled on demand, environments of objects | index, newindex, virtual functions | `Metatables` |
| Coroutines and watches | `../lib/watches.lua` | sources of the main loop, coroutines, their wrappers | `start_watch`, yield, timeouts, watches | `Coroutines`, `Watches` |
| Lines and characters over channels | `../lib/socket_co.lua`, `glib/channel.c` | input buffer of each channel, position in a source | `connect`, `receive_line`, `read_chars`, `write_chars`, `get_reply`, sources | `Channels`; replies: `Ftp` |
| HTTP | `../lib/http_co.lua` | request arguments, shared connections | `request_co` to the callbacks | `Http`, `Network` |
| FTP | `../lib/ftp_co.lua` | control and data connection | `put_co`: commands, replies, the file | `Ftp`, `Network` |
| Overrides of other modules, debugging, generator, glade.lua, cms-admin | `gtk/`, `gdk/`, ..., `../script/`, `../../cms-admin/` | read-only or none | reordering of arguments, reformatting, file processing | not modelled |

### How they interact

* A call from Lua (`lg_call`) converts each argument: objects through their proxy, Lua
  values through a void* wrapper, a GValue, a boxed value or a closure. Memory for them
  hangs on the call's `call_info`.
* Results come back through `lg_get_object`, which asks an object type's handler what to
  do about references, or through the wrapper or box they were hidden in.
* The library calls Lua through closures and signal handlers, in the middle of such a
  call; Lua code there calls the library again. A Lua error leaves all of this with a
  longjmp to the nearest `pcall`.
* Closures, boxes and signal handlers keep their Lua values in one registry, where a
  reference given back twice is soon somebody else's.
* The Lua collector runs at any allocation. It removes unreachable proxies from the weak
  table at once and calls finalizers later, with other code in between.
* A name after an object's dot is looked up in tables that modules bring; a field's type
  may need a module that is not loaded yet, and what was found is kept in metatables.
* In the network library, coroutines yield to the main loop; a source whose data is the
  coroutine, in a void* wrapper, resumes them. One request may use the connection another
  left open.
* The library frees objects on its own; the C heap hands their addresses out again.

### What is hard

Interleaving of Lua code with the two phases of collection; reuse of addresses while
proxies for the previous object linger; several proxies (aliases) for one object with one
reference each, finalized in any order; explicit destruction beside finalization;
structures that are freed by their proxy, by an override, by the library, or by nobody;
nested calls that share a pool, and errors that skip everything between; code pointers the
library keeps after the closure behind them is gone; handlers that disconnect themselves or
destroy their object while they run; memos of lookups that modules loaded later could make
wrong; modules that fail while others wait for them; bit fields, signs and encodings with a
limit at every byte; coroutines that start others or the main loop while they run, and
events that come between the answer to one watch and the making of the next; a stream that
is cut anywhere, with what was read beyond the end of a message; servers that close a
connection when it suits them. The list with source lines is under `hazards` in
`PROJECT.json`; two of them have no property, for the reasons given there.

### Properties that make the components correct

* Proxies: no freed object is used; an entry of `gnome.objects` is never stale; rings of
  aliases stay closed; a counted object has one reference per proxy, no more (leak) and no
  fewer (dangling proxy); a structure is freed once; what nobody uses is freed.
* void* wrappers: a pinned value and its registry slot live exactly as long as a userdata
  or an owed `:destroy()`.
* Calls: one call per `call_info`, with flags that are its own; memory freed once and not
  before its use; `ci_current` never leads to something else.
* Closures: a function pointer of the library runs the function it was made for, with its
  type, as long as the program does its duty; with the debug flag it is noticed when not.
* Boxes, closures, handlers: no two owners of one registry cell, none lost; a box reads as
  what was put in; a handler that can be called has all it needs.
* Conversion: a constant means the same before encoding and after decoding; a field, once
  written, reads the same and leaves its neighbours alone; what was read can be written
  back; GValues give back what they took.
* Modules and metatables: a module comes after those it depends on; each type leads to the
  module that defines it; a lookup gives the same whatever was looked up before; objects
  share no assigned value.
* Watches: a waiting coroutine has the one source it needs, is resumed for nothing else and
  is not forgotten; one that has ended leaves no source and no wrapper.
* Network: the sink of a request gets the body and nothing but it, once; nothing of one reply is left for
  the next; every connection has one request that uses or closes it; a file arrives as far as
  it was read; every request and every upload ends.

## 2. Modules and their correspondence to the code

`ObjectTypes` — pure. `Scores` lists the `WIDGET_SCORE` answers of the seven handlers in
the order of registration, `GuessType` is `lg_guess_object_type`, `RefsAdded` is
`lg_inc_refcount` with the handlers' `WIDGET_REF`. A class is abstracted to what the
handlers ask of it (`Kinds`), the flag mask to a set of flags.

`SharedObject` — abstract specification: an address is alive as long as somebody, a
holder or the library, holds on to what is there. It is what both proxies of counted
objects and void* wrappers implement.

`Proxy` — `struct object` is split into functions `ptr` (p), `ts`, `mm` (mm_type),
`deleted` (is_deleted) and `next`; `objects` is `gnome.objects`; membership in
`gnome.aliases` is the status `st` of the userdata. `class`, `rc`, `cref` describe the C
heap: type, reference count, and how many of the references belong to library code.
`LuaNew` and `Get` are the ways to `lg_get_object`; `MakeFirst`, `MakeAlias` and `Reuse`
are its three outcomes. `Drop`, `Collect` and `Finalize` are the collector: unreachable,
cleared from the weak table (atomically for a set of proxies, as Lua's atomic phase does),
finalized by `lg_object_gc`. `Destroy` and `FreeOverride` are `gnome.destroy` and the
freeing overrides; `LibNew`, `LibRef`, `LibUnref` are the library, modelled from what the
handlers call. `fault` records the use of a freed object or of a NULL pointer.

`VoidWrapper` — `alloc`, `ref`, `refcount` are the C structures, `st` and `wrapper` the
userdata, `registry` the slots in use. `stored` are pointers the library keeps and `owed`
the implicit wrappers whose `:destroy()` is due; both describe the program that uses the
binding, and the constant `Careful` says whether it does what `doc/en/voidptr.html` asks.

`CallInfo` — `ci_pool` and `ci_current` are the C variables, `is_output`, `free_method`,
`arg_count` and `items` the fields of each `call_info`, `frames` the C stack: `lg_call`,
`closure_handler` or a signal handler. An argument is abstracted to what conversion does
to the `call_info` (`Forms`). `Call` and `CallReturn` are `lg_call` before and after
`ffi_call`; `Closure` and `ClosureReturn` are `closure_handler` around `lua_call`;
`CallFails`, `ReturnFails` and `LuaError` are Lua errors, which pop frames down to one that
runs Lua code (where the `pcall` is) and undo nothing.

`Coroutines` — abstract specification: what the network library promises a coroutine. It
is resumed when one of the events it waits for has happened, and at no other time.

`Watches` — `source` is the table of sources of glib's main loop, each with the coroutine
that is its data; `wrapper` says which of these data, void* wrappers, exist. `stack` holds
the calls of `_watch_func` that are active: a coroutine can start another one with
`start_watch`, or run the main loop. `WatchFunc` is the beginning of `_watch_func`
(`coroutine.resume`); `YieldIowait`, `YieldSleep` and `Exit` are its three ends, by what
the coroutine did. `AnswerFalse` is what `false` makes glib do, including `_watch_destroy`.
glib is modelled in `Dispatchable`, `Elapse`, `Arrive` and the order of priorities in
`DispatchWatch`. `deadcalled` stands for the message of line 46.

`Channels` — `conn[c]` is a channel with its socket: `buf` what `receive_line` has read and
not used, `down` and `flight` what has arrived and what is on its way, `up` and `got` the
other direction. What travels is a sequence of units, a piece of a line, a line end or a
piece of a body, which arrive one at a time (`Deliver`), so that every message is cut
everywhere. `TakeLine`, `ReadMore` and `NoMoreLines` are the three ways through the loop of
`receive_line`, `Available` and `TakeChars` are `read_chars`, `WriteChars` is one turn of
`write_chars`, `SourceBuffer` the memory source. An operation that returns "timeout" leaves
its coroutine in `waiting` until `Resumed`, which is what `Coroutines` promises. The other
end is external (`ServerReads`, `Deliver`, `Break`).

`Http` — `pc[r]` is where the coroutine of a request is between `request_co` and the end,
`arg[r]` its argument table together with the locals of `request_2` and the decoders. An
action is a piece of `request` and the functions it calls that reads, writes or decides
once. `MayStart` lets the program make a request when nothing runs, or in the callback
`done` with `keep_alive`. `ServerAnswers` is a server that answers late or closes.

`Ftp` — `at[p]` is the command whose reply is next, or what `put_3` does; `put[p]` the
argument table. `WriteCommand` is `command`, `GetReply` and `AwaitReply` are `get_reply` and
`check`, `Allowed` and `After` the patterns each command gives to `check` and what follows.
Every upload ends in `Dies`: lines 139 and 190 of `ftp_co.lua` assign to `gtk.widgets`, which
no longer exists, and the error ends the coroutine after the first shutdown. So the reply to
the transfer is not awaited, the sockets are not closed and `done` is not called; the model
stops there, too.

`Network` — `Http` and `Ftp` with their servers on one main loop. A program makes either
requests or uploads: they share functions, but no connection.

`Registry` — `luaL_ref` and `luaL_unref`: cells of the registry, the free ones in a list
through cell 0, exactly as Lua links them, so that giving a cell back twice makes two owners.

`Boxed` — `boxes` are the `struct boxed_lua_value`, userdata or slices. `BoxValue` and
`MakeBoxedValue` are `gnome.box` and boxes for arguments, `BoxedCopy`, `BoxedFree` and
`BoxedGc` what GObject, `call_info_free` and the collector do, `BoxedIndexValue` is
`box.value` with the stacks of both threads.

`Closure` — `cl` are the userdata, `code` and `cifs` what libffi allocates, `unused` the list
of code that has been collected and may be reused, `lib` the pointers the library keeps with
the type it was told they have. `PassFunction` makes an automatic closure, `PassClosure` and
`SetField` use one of the program's (`Setup` types it), `Gc` is `l_closure_gc` with and
without the debug flag, `Reclaim` the allocator. `careful` says whether the program has kept
its closures as long as the library needs them; what a program that has not may still expect
is `CallsDetected`. The module stands for a build with `LUAGNOME_DEBUG_FUNCS`.

`Callback` — `cbi` are the `struct callback_info` with their references, `connected` and
`running` what GLib knows. `Connect`, `Emit`, `HandlerReturns`, `Disconnect`, `Dispose`; the
query-tooltip path has a proxy of its own (`tip`, `tiprefs`). Errors that leave a handler are
left out here; `CallInfo` has them.

`References` — the three share the registry; the library or the collector calls any of them
at any time.

`HashTable` — pure. `Chain`, `Place` and `Buckets` are the generator (`_build_hash_table`,
`_distribute`, `_output_buckets`), `Search` is `hash_search_simple`. The generator's loop gives
the empty buckets out one after the other; `Place` says the same without a loop: what overflows
has its `Turn`, and the one whose turn is number n gets the empty bucket number n.

`Modules` — `package` and `loading` are Lua's `require`, `modules`, `typemap` and `mtable`
the tables of `data.c`. A module is registered after its dependencies, or fails; one that
failed is not tried again. `Normalized` types are looked up by the module that is named with them,
which may have to be loaded. Names of functions are found through `HashTable`; `FuncName`
stands for `lg_make_func_name`.

`Metatables` — `metatables` holds, per class, what `lg_object_index` has kept; `env` and
`emptyattr` are the environments, `virtuals` the functions set in interface structures.
`ObjectIndex` is `lg_object_index`: environment, then `Recurse` along the chain of
metatables, each with fields, overrides, functions and interfaces, then `Remember`.
`ObjectNewindex` is the assignment: field, virtual function, override or environment.
`Lineage` gives the base classes of a class, as GType does; the chain of metatables follows it as
far as the classes were known when they were made (`Reached`). `Means` is the reference: what a
name means by the definitions of the libraries and the classes that are known.

`Constants` — constants as the generator encodes them and `_decode_constant_v2` reads them, on
bytes of `Byte` bits; enum userdata with comparison and arithmetic. The program has one
variable `x`, and `meant` remembers what the constant in it was declared as (`AsDeclared`: an
int, as every constant is at run time).

`Fields` — `memory` is the set of bits that are set. `Struct2Lua` and `Lua2Struct` convert;
a bit field is read and written through a long at its first byte (`GetBits`, `SetBits`).

`GValues` — conversion both ways, and what reads and sets properties and list store columns
with it; `strings` and `refs` count copies and references.

`Arguments` — pure: what each `lua2ffi_*` and `ffi2lua_*` makes of a value, the items behind
output pointers, results and callbacks.

`Values` — a program that moves `x` between all four. `Programs` says which constants,
fields, properties and functions one program uses.

`MCProxy`, `MCVoidWrapper`, `MCCallInfo`, `MCWatches`, `MCNetwork`, `MCReferences`,
`MCMetatables` and `MCValues` instantiate them for TLC. Operators whose name has a suffix
(`Linked_Open`) are deliberately broken variants of the one before the underscore: each
property is known to fail with one of them.

## 3. Runs

| Run | Question | Result |
|---|---|---|
| widgets | Counted objects and a structure, on heap and stack, with `gnome.destroy` and const results: faults, stale tables, open rings, missing references? | none (`TypeOK`, `NoFault`, `ObjectsSound`, `RingOK`, `RefsCovered`) |
| live | Without those two: exact counters, refinement of `SharedObject`, collection of garbage, `g_slist_free`? | hold (`RefsExact`, `ImplementsShared`, `GarbageFreed`, `NoFault`) |
| careful | void* wrappers of a careful program | sound, exact, freed (`NoDangling`, `RegistryExact`, `CountExact`, `ImplementsShared`, `UnusedFreed`) |
| calls | Nesting, errors, reuse of call_info | sound (`NoFault`, `PoolSound`, `FlagsExact`, `CurrentSafe`, `BoxesFreed`) |
| watches | Coroutines that start each other, sleep and wait: one source each, resumed for what they wait for, none forgotten? | yes (`OneSource`, `WrappersExact`, `NoDeadResume`, `ImplementsCoroutines`, `Served`) |
| network | Two requests, the second perhaps on the first one's connection, or an upload: exact bodies and files, replies in step, connections owned and closed, an end? | yes (`TransfersExact`, `NothingLeft`, `ConnectionsOwned`, `AllEnd`) |
| closures | Two closures, functions the library forgets and keeps, a field, freed memory used again: does each pointer run what it was made for? One owner per reference, also beside a handler? | yes for a careful program; else calls of what is gone are noticed with the debug flag (`PointersGood`, `CallsDetected`); yes, but for the functions of collected closures, which are leaked (`RefsOwned`) |
| handlers | Two handlers, one for query-tooltip, an object, two boxes: one owner per reference, handlers with all they need? | yes (`RefsOwned`, `HandlersServed`) |
| types | Five modules, one of them for another version, that load each other; four classes with an interface, overrides, colliding hash values, two objects: registration in order, types that lead right, lookups that do not depend on history, private environments? | yes (`ModulesSound`, `LookupRight`, `EnvironmentsPrivate`) |
| values | Constants, fields, properties, functions and callbacks: the same meaning, bits, value and ownership after each way? | yes, with the exceptions named at `RoundTrip`, and constants cut to an int (`ConstantsExact`, `FieldsKept`, `RoundTrip`, `OwnershipExact`) |
| glist | Is a GList freed once? | no |
| assign | Is what `_fe_check_metatable` leaves a meta entry? | not after an override was read |

### Bounds

* Proxies: three userdata, one heap address and, in `widgets`, one stack address. Three
  are needed for a ring that can lose a member in the middle, or for two aliases beside a
  doomed proxy; the hazards all concern the proxies of one address over its lifetimes, and
  the address is reused without limit. `MaxCRef = 1` and `MaxRef = 4` bound the library's
  references and new ones; with three proxies the counter cannot usefully be higher.
  Types: two aliases of one GInitiallyUnowned object and a structure in `widgets`; a plain
  GObject and a GSList in `live`. GMainLoop's handler is modelled but in no instance.
* void* wrappers: two wrappers, three userdata, two slots: enough for a slot or an address
  to be reused while another is pinned, and for several userdata per wrapper.
* Calls: three structures, two arguments, four frames: a call in a closure in a call, with
  a signal handler in between; a lost structure and one that is reused.
* Watches: two coroutines, two channels, three sources (one per coroutine and the one that
  is being replaced), `MaxDepth = 2` calls inside each other: enough for one coroutine to
  start the other and for a watch to come due while another is being served.
* Network: two requests and an upload on two channels, so that the second request finds a
  connection kept, one being closed, or none; messages of few units delivered one by one,
  files of one block and of two (`FileSize`, `BlockSize = 3`), the last one shorter, against
  a `Window` of two, so that a read or write ends before, at, and after the end of a message,
  and a block is written in parts; the replies of `MCReplies`: delimited by length, by chunks, by the end
  of the connection, with an interim response, a trailer, none; FTP replies of one and
  several lines, with lines in between that look like the last one, refusals, no address.
  `MaxTalking = 1`, and either requests or uploads: connections share no state, so what two
  of them do at the same time is a product of independent behaviours. `UploadSize` and
  `FileSize` leave out the lengths that `source_buffer` cannot send (see below).
* Closures: two userdata, two addresses of code, two cifs, so that each can be reused while
  another is alive; three uses, a function that forgets (automatic closures allowed), one that
  keeps and is therefore listed, and a field; one handler that competes for the `MaxRef = 4`
  registry cells with its two or three references.
* Handlers: `MaxRef = 5` cells for two handlers with up to three references each and two
  boxes; one object. One Lua thread: another one makes a difference only to `box.value`, see below.
* Modules: `gdk`, `gtk`, `atk`, `ext` and the incompatible `old`; hash values with two that
  share a bucket and one that overflows (`LowBits = 3`); all orders of loading and lookup.
* Values: bytes of 3 bits, ints of 6, longs of 9: each limit (a byte, the type number, a sign,
  an int in a long) has values on both sides. A program uses a few names at a time
  (`Programs`), which covers every pair that can meet in `x`.
* States: 881 000 (`handlers`), 795 000 (`widgets`), 1 432 000 (`closures`), 114 000
  (`network`), 107 000 (`types`), 96 000 (`calls`), 60 000 (`watches`), 13 000 (`values`),
  10 000 (`live`), 3 000 (`careful`). Symmetry over addresses is used where no liveness
  property is checked; addresses are only compared for equality.

Deadlock is not checked: a program may stop calling, userdata and structures of a finite
instance run out, and the models stop at a fault.

The type invariants `TypeOK` of `Http`, `Watches`, `References` and `Metatables` are true in
these instances, too (add them to the configuration); that of `Watches` is proved.

### Fairness

`Proxy!FairSpec` and `VoidWrapper!FairSpec` assume the Lua collector only: every finalizer
that is due is called (weak fairness of `Finalize`, `WrapperGc`), and an unreachable proxy
is found by some later cycle (strong fairness of `Collect` with that proxy in the set; it
is strong because collection of it is disabled while finalizers of the previous cycle are
pending). Lua 5.1 does both as long as the program allocates. Nothing is assumed of the
program or the library, so liveness is claimed for objects that both have let go.

`Watches!FairSpec` assumes that time passes (`Elapse`), that a coroutine which runs comes
to a yield or an end (`Run`), and that the main loop calls what is due: timeouts with weak
fairness, watches with strong fairness, since they are not called while a timeout waits
(glib serves the higher priority first). That makes `[]<>AtRest` necessary: with timeouts
so short that one is due at every moment, a watch starves. This is an assumption about
the program's calls of `sleep`, and TLC finds the starvation without it.

`Network!FairSpec` assumes that a coroutine that does not wait goes on (weak fairness of
`Step` and `PutStep`), that one whose channel is ready is resumed (strong fairness of
`Resume` and `ResumePut`, since another one may be running; the promise of `Served`), that a
server reads and answers unless the connection is broken, and that the network delivers. The
code sets no timeouts of its own: a server that is silent for ever keeps a request for ever.

### Disagreements found

Two have a run that exhibits them and an entry under `findings`:

* *glist*: `lg_get_object` sees an object through one entry of `objects` and a weak table.
  In the window between collection and finalization it makes a second family of proxies,
  and a list may be freed by an override and by the finalizer.
* *assign*: an override that has been read is kept in the metatable as a plain function;
  assigning to the name takes it for a meta entry and dereferences NULL.

Others were met while modelling. With the constants given here, TLC exhibits them, too:

* `gnome.destroy` gives one reference back, though each alias holds one: `RefsExact` fails
  in `live` with `Features = {"destroy"}` and the types GtkWidget and GtkWindow.
* The channel handler tests the whole flag mask instead of FLAG_NEW_OBJECT, so a proxy of an
  existing channel has no reference (`glib/channel.c:417`): `ChannelCovered` fails with
  `Type = {"GIOChannel"}`.
* `wrapper_destroy` does not test the counter, as its comment says it must: `CountPositive`
  fails with `Careful = FALSE`.
* `closure_handler` never sets `arg_count`, so flags of its arguments survive: `FlagsExact`
  fails with `OutArgs = TRUE`.
* `call_info_free` frees the memory list before unsetting the GValues in it: `NoFault` fails
  in `calls` with `Forms = {"value", "gvalue"}`.
* Without the debug flag, a call of a collected closure reads freed memory unnoticed:
  `StaleDetected` fails in `closures`.
* `box.value` in another thread than the box's reads its own key from the stack
  (`gnome/boxed.c:90`), though `doc/en/boxed.html` promises the wrapped value: `ReadRight`
  fails with `Thread = {main, co}`. In one thread it follows from `RefsOwned`: no run checks it.
* `_decode_constant_v2` collects a constant in an `int` (`gnome/data.c:425`, `:454`) that
  `lua_pushinteger` pushes (`gnome/init.c:204`), but `parse-xml.lua:489` takes a `#define` of any size:
  one like `0xffffffff` reads as -1. `ConstantsExact` says so instead of hiding it: exact for
  what an int can hold, cut to an int beyond (`AsInt`). The overflow of the shift is taken to
  lose the high bits, as compilers do.
* Interfaces whose class is not known are passed over, "e.g. Atk not loaded"
  (`gnome/object_meta.c:158`), and a function of a base class may be found and kept instead: when
  the module is loaded, the metatable hides the function of the interface. `LookupRight` fails
  in `types` when `MCSymbols` has all names and `MCFuncName` no NULL. With the functions given
  here this does not happen, which `Unhidden` says and TLC tests (`ASSUME Unhidden`, to be
  removed for this).
* `source_buffer` (`../lib/socket_co.lua:46`) takes the end of its buffer for reached when
  one byte is left: with `UploadSize = {1}` a request never ends, with `FileSize = {4}` a
  file arrives without its last byte.
* Every FTP upload ends with the error of `gtk.widgets` (`../lib/ftp_co.lua:139`, `:190`), see
  `Ftp`.

Conversions have exceptions, which `RoundTrip` names or the functions of `GValues` and
`Arguments` have as they are: a flags property whose type is known cannot be set with flags
userdata (`gnome/gvalue.c:201`); a string property set to something that is neither string nor
number is copied from NULL (`:346-359`); a number and an enum that is not a flag are
combined through NULL (`gnome/enum.c:138`); a word of one letter converts to 0, the comment says
to its code (`gnome/gvalue.c:229-233`); enum names are accepted whatever their type, strings
that are no enum give 0; a negative int in a long field reads back positive
(`gnome/types.c:1411`), a negative int given to a callback may (`:941` reads a long); pointers to
unsigned numbers given to a callback are dropped (`:1309-1325`); copies made for `char*` fields
are never freed (`:1635`); when `l_g_object_set` raises, a reference to the class is lost
(`glib/override.c:214`).

Smaller ones, without a property: a proxy of a structure is made plain whenever `objects` has
an entry for its address, even the stale one of an earlier structure, and the new structure is
then owned by nobody; an object Lua holds a proxy for may get a second proxy of the same type
in the window of *glist*, so data attached to the first is missing from the second
(`doc/en/objects.html` promises otherwise); after a Lua error `ci_current` stays at the lost
call until the outer call returns, or for good; only code 100 counts as an interim reply
(`../lib/http_co.lua:264`); `connect` of a socket that would block answers with the previous,
nil result (`../lib/socket_co.lua:168`); `source_pos` is kept, so a table used for a second
upload sends nothing, and a file source is not closed when connecting fails; a closure that
returns something else than a structure where one is due has its message made from a NULL
(`gnome/types.c:398`); `lg_find_module` never finds the last module (`gnome/data.c:813`), but
nobody calls it; a name read by its complete form is kept as a closure that `_check_override`
later takes for an override; a collision of types is reported after the map was overwritten;
lines without a comma, or a last line without an end, make the hash generator write behind its
array.

## 4. Proofs

`ProxyProofs` proves, for any finite set of proxies and any addresses, types, features and
bounds:

* `TypeCorrect`: `Spec => []TypeOK`
* `RingsClosed`: `Spec => []RingOK`
* `TableSound`: `Spec => []ObjectsSound`
* `NothingFreedIsUsed` and `ReferencesCovered`: `Spec => []NoFault` and `Spec => []RefsCovered`,
  if there are no GIOChannels (`NoChannels`) and no freeing overrides
* `ReferencesExact` and `ProxyImplementsShared`: `Spec => []RefsExact` and
  `Spec => ImplementsShared`, the refinement of `SharedObject`, if every object is a GObject that
  is neither destroyed from Lua nor handed out as const (`Mild`)

Assumption: `ProxyAssumption` of `Proxy` (finite set of proxies, NULL and the detection
mark are no addresses or types, heap and stack are disjoint).

The inductive invariant `IInv` is `TypeOK /\ HeapOK /\ AddressOK /\ RingOK /\
ObjectsSound`. `RingOK` is not inductive alone: `HeapOK` says a free address has no
references and an object has at least its library references, so that counters stay
natural; `AddressOK` says a proxy lacks an address exactly if it was invalidated or does
not exist. The difficult step is `lg_invalidate_object`. Its walk ends at the first proxy
whose successor has no address, so it must be shown to reach the whole ring: the successor
function is injective on a ring, the set of visited proxies is closed under it, and on a
finite set an injection is a bijection (lemma `InvalidatedRing`, by `FS_Injection`); this
is why the set of proxies is assumed finite. `_alias_unlink` needs the predecessor to be
unique (`UnlinkedRing`). Each action has a lemma that it preserves the parts it can
disturb; `Invariance` puts them together.

`NoFault` and `RefsCovered` need `Backed`: at each address the counter is at least `cref` plus the
number of proxies that will give a reference back; and either these are the only ones that give
anything back, or there is one proxy at most that frees the whole block and the library holds
nothing of it. So a finalizer that finds the counter at 1 is the only owner, and whoever frees a
block is the last to do so. `BirthsAre` says what `lg_get_object` may do to one address, for
every type, flag and handler `lg_guess_object_type` can find, and
`SeenStay` shows that the branch of `_make_object` that reports "should point to" is never
reached. The two hypotheses are not for convenience: with GIOChannels a proxy may have no
reference (the note at `ChannelCovered`), and an override that frees a list
leaves its other proxies behind, which is what run `glist` shows. The types, constants and
destroyed widgets of run `widgets` satisfy them.

For exactness and the refinement, `Changes` says what a step does to the objects in the terms of
`SharedObject`: one object appears, gains or loses one holder in Lua or one reference of the library, or
nothing changes. `StepIs` shows that of each action, `CountsStay` follows the cardinality of
`Owners`, and `ChangesShared` maps each case to an action of `SharedObject`, with `AliveIf`: an
object is there if and only if somebody holds it. `:destroy()` gives back one reference for a whole ring
and a constant leaves proxies without references, so neither can be exact; run `live`
checks both properties with plain blocks and lists beside GObjects, which the theorems leave out.

`VoidWrapperProofs` proves, for a program that is `Careful` and any number of wrappers,
userdata and registry slots:

* `WrappersNeverDangle`: `Spec => []NoDangling`
* `RegistryBalanced`: `Spec => []RegistryExact`
* `CounterExact`: `Spec => []CountExact`
* `WrapperImplementsShared`: `Spec => ImplementsShared`, the refinement of `SharedObject`

The properties are inductive together with `Kept`: a pointer that the library keeps is
owed a `:destroy()` or has a live userdata. That is the duty the documentation gives the
program, and what makes the last finalizer safe: with a counter of 1 the finalized userdata
is the only holder (`CountFacts`, by the cardinality of `Holders`), it is not live, so
nobody in the library can have the pointer. `HoldersAdded` and `HoldersRemoved` say how the
cardinality follows each step. For the refinement, `HeldIf` says when a step of the
wrappers is a step of the abstract object, `StepShared` goes through the actions.

`CallInfoProofs` proves, for any pool, argument count and depth:

* `PoolIsSound`: `Spec => []PoolSound`
* `CurrentIsSafe`: `Spec => []CurrentSafe`
* `FlagsAreExact`: `Spec => []FlagsExact`, unless closures have output arguments
* `BoxesAreFreed`: `Spec => []BoxesFreed`
* `CallsDoNotFault`: `Spec => []NoFault`, unless closures have output arguments or calls have
  GValues as arguments

`CurrentSafe` needs `TmpOlder`: a value of `ci_current` that `lg_call` saved existed before
the structures of the calls inside were taken, so freeing those cannot invalidate it.
`FlagsExact` needs `Clean`: a structure has no flags at or above `arg_count`, unless an
error has lost it, and what is lost is never taken again. `BoxesFreed` needs `BInv`: every box
belongs to a structure that is in use or lost, at an index below `arg_count` that has a method to
free it, so the release loop, which looks at these only, leaves none behind. The two hypotheses
of `CallsDoNotFault` are needed, not convenient: a flag left behind by an output argument of a
closure makes a call dereference a `nil`, and `call_info_free` unsets GValues whose memory it has
freed (see the disagreements above); TLC finds either fault as soon as it is let in. Lemmas about the stack (`Cut`,
`Pushed`) and the pool (`Taken`, `Given`) come first; each way in which a step changes
them has a lemma (`StartedOK`, `ReturnedOK`, `UnwoundOK`, `FailedOK`), which the actions
then use.

`WatchesProofs` proves, for any coroutines, channels and sources, nested to any depth:

* `OneSourceHolds`: `Spec => []OneSource`
* `WrappersHold`: `Spec => []WrappersExact`
* `NoDeadResumeHolds`: `Spec => []NoDeadResume`
* `TypeHolds`: `Spec => []TypeOK`
* `Implements`: `Spec => ImplementsCoroutines`

`OneSource` speaks of coroutines, the code of the call that is ending. `StackOK` joins the
two: the coroutine of every call is active, no two calls have the same one, and the source
of the call, if any, is the only one of the coroutine and looks as it did when it called,
so that comparing with the arguments of `_watch_func` is comparing with the source itself.
`CallingOK` makes a new source one that nobody is in. `Replaced` and `Gone` say what each
answer does to the table of sources; `BeginOK` and `LeaveOK` are the two halves of
`_watch_func`. The refinement adds `WaitsOK` and maps a timeout that is due to an event
that has happened. The bound `MaxDepth` is not used in the argument.

`ValuesProofs` proves, for any structure, widths, properties, objects and tables of constants,
whatever is read, written, converted or assigned by the library:

* `FieldsStay`: `Spec => []FieldsKept`
* `OwnershipStays`: `Spec => []OwnershipExact`
* `ConstantsStay`: `Spec => []ConstantsExact`
* `RoundTrips`: `Spec => []RoundTrip`

Assumptions: `WidthsAssumption` (a word is a whole number of bytes) and `FieldsAssumption` (a
bit field lies within the word that begins at its byte, fields do not overlap; no unions; an
enum field is an int at most and has a type, a `char*` is a word, which can count all copies).
`FieldsKept` is inductive with the types it needs. A bit field is written through a word that
has bits of its neighbours and of what lies behind the structure, so the argument is about bits:
`Begins` (the word begins at or before the field, by less than a byte), `GetsPlace` and
`SetsPlace` (reading and writing concern exactly the field's place), then `KeptEnough`: to keep
all fields it is enough that a step changes no bit outside the place of the field it assigns.

`OwnershipExact` counts strings and references of the properties and columns only, but in the
middle of `l_g_object_set` a GValue has some, too. `Balance(st, v)` says that a state has what its
properties have and what a GValue `v` beside it has; filling, setting a property and unsetting
(`FillBalance`, `SetPropertyBalance`, `UnsetBalance`) lead from one balance to the next, and each
way out of `SetCast`, the refusals included, ends with nothing beside the state
(`SetCastBalance`). A list of pairs of any length is set pair by pair (`AfterAll`), by induction
over a set of numbers (`AllNumbers`: a set with 0 and every successor has all of `Nat`, since
subsets of finite sets are well-founded). The invariant `Owning` adds that every string and
object is whole, that is, no value has one as a number. Assumptions: `GValuesAssumption`
(there are finitely many properties and columns; the library sets properties to values of their
types; a known typespec is one of a type) and `ArgumentsAssumption` (arguments have types of the
list in `include/fundamental.lua`; an enum has a type).

`ConstantsExact` rests on `Decoded`: what the build encodes, the run time decodes to the same
kind, value with its sign, as an int, and index of the type, for every integer and every index
of 15 bits; `AsIntIs` says that cutting to an int leaves alone what an int can hold.
The digits of the value are a function defined by recursion: `DigitsExist` shows that there is
one, `SumsExist` that there is one that adds bytes up, and `DigitsAddUp`, by induction over
all smaller numbers, that the digits of a number add up to it. Assumptions:
`ConstantsAssumption` (each constant of the tables is encodable; an int is no wider than a long)
and `PowersAssumption`, which states of `Room` and of the powers of two what the prover cannot
compute: the first is 1, each next one twice as much.

`RoundTrip` has two parts. That signed, unsigned and signed again is what it was, in any order
and for any width, is arithmetic (`SignedAgain`: a number and its signed form differ by a
multiple of the width's power). That a field's bits survive as a number is not: `Number` adds up
powers of two, and `SumBits`, by induction over its summands, shows that bit `i` of the sum is set
if and only if power `i` was added (the powers above do not disturb it, `EvenShift`, and those
below add up to less than it, `TopBit`); `BitsSum` is the converse, for the address of a copied
string. `BitOfSigned` then says that the bits of a number do not depend on its being read as
signed. What the conversions do with each type is gone through case by case
(`PropertiesAgain`, `GivenStays`, `HandedStays`). The invariant `Typed` says what those cases
need: `x` is a proper value, every property holds a value that fits its type (an int its own
signed form, a string or nil), and a `char*` is NULL or leads to one of the copies.

`MetatablesProofs` proves, for any modules, types and objects:

* `Modules_Sound`: `Spec => []ModulesSound`
* `Environments_Private`: `Spec => []EnvironmentsPrivate`
* `Hash_Tables_Right`: `HashTablesRight`
* `Lookup_Right`: `Spec => []LookupRight`, if `Unhidden`

Assumptions: `ModulesAssumption`, `TypesAssumption` (a type has one definition, a foreign
type comes from a dependency or from the module it is named with), the shape of a module's
table, and for lookups `HashAssumption` (names differ in the bits that are compared, links can
hold the number of a bucket), `HashPowersAssumption` (what powers of two are),
`MetatablesAssumption` (classes are no fundamental types, methods no complete names),
`LineageAssumption` (the base classes of a base class are the ones that follow it) and
`EntriesAssumption` (`NULL` is no entry).

The inductive invariant `MInv` is `ModulesType /\ LoadingOK /\ RegisteredOK /\ TypemapOK /\
DependsFirst`: a module that is being loaded has the dependencies it has counted;
a registered one has all of them and is not being loaded; each entry of the type map names the
module that defines the type and is registered. The crux is that a module about to be
registered collides with none: entries of the map belong to registered modules, the module is
still being loaded, so it is none of them, and no other defines its types.

That hash tables are right takes three facts. `Places`: every line gets a bucket of its own, for
as many lines overflow as buckets stay empty (`RoomForAll`: the first lines are in different
buckets), and both are counted in order (`Position`). `Links`: the entry of a line leads to the
one of the next line of its chain, or ends it. `FollowAnswers`: the search, begun at a line,
finds the one of the chain that agrees in the bits compared; the lines of a chain get smaller,
and `AllNumbers` is induction for one set at a time. A key that is listed is in the chain
that begins in its bucket, and a bucket that was given to a line of another chain is marked.

`LookupRight` needs `LInv`, which adds to `MInv`: the table of a module has its overrides, and
other functions only as closures that `lg_find_func` would find (`TablesOK`); a metatable is of
a known class, and its `parent` is the base class, which has one (`ReachOK`); what a
metatable keeps of a name leads to a class of its lineage that has this meaning while all nearer
ones, known as well, have not the name (`RememberedOK`, by `Leads`). A lookup keeps this, because
it asks the nearer metatables and classes first and what a base class has kept leads further up
(`LeadsUp`). A module that is loaded makes classes known: the classes asked so far stay as they
were but for their interfaces, and `Unhidden` is what is needed of those (`LeadsLater`):
an interface of another module than the class's own and those it depends on may only add a name
that neither the class nor its bases have.

`ReferencesProofs` proves, for any closures, code, functions, types, boxes and handlers:

* `Pointers_Good`: `Spec => []PointersGood`
* `Calls_Detected`: `Spec => []CallsDetected`
* `Refs_Owned`: `Spec => []RefsOwned`, unless a GObject frees a box with a finalizer
* `Handlers_Served`: `Spec => []HandlersServed`, likewise

Assumptions: `ThingsAssumption` (Lua values are no free cells), `CallbackAssumption`,
`RegistryAssumption`, `ClosureAssumption` (the white and black lists are right: a
function that keeps what it was given is a field, has a type that is not listed, or is listed
itself) and `RecordsAssumption` (`NULL` is no structure). `PointersGood` and `CallsDetected`
say nothing of who owns code, so neither is inductive. The invariant `CInv` adds, to the types:

* `CodeOK`: a closure and the code it has lead to each other; no cif belongs to two codes;
* `UnusedOK`: the code in the keeper's list belongs to no live closure;
* `HeldOK`, `CallOK`: an automatic closure is reachable only during the call it was made for,
  and that call's function does not keep it;
* `LibOK`: while the program is careful, each pointer of the library is backed by a reachable
  closure that is not automatic; with the debug flag, the code it leads to stays allocated, and
  the closure found there, if its cif is the one of the code, is the one it was made for.

Two steps carry the argument. `Gc` without the flag frees code and cif, which a careful program
allows only for closures that back nothing; with the flag both go to the keeper, so nothing else
gets the address. An untyped closure gets its type at the first use and no other after it, so
what the library was told stays true.

The other two rest on `RInv`, which adds what the registry holds: following cell 0 the free
cells form a list without repetition (`ListOK`, as a function that is injective where it is not
0); a cell of an owner is not free and holds the owner's value; two owners, told apart by what
they are and by the role of the reference (`Handler`, `args`, `object`...), never have the same
cell; a cell with a value is somebody's or is leaked (`Good`). `luaL_ref` takes the head of the
list or a new cell, `luaL_unref` puts a cell back in front, and both keep `Good` for one owner
more or less (`TakeGood`, `GiveGood`). When a destroyed object frees its handlers, in any
order, `AllReleased` gives back the references one handler after the other; the result is shown
by the least number for which it could fail (lemma `Least`), which is induction without an
operator as a parameter. `TakesBoxes` is excluded: a GObject that owns the GValue of a boxed userdata
frees it, and its finalizer does so again, which is the hazard listed for `gnome/boxed.c:175`.

`NetworkProofs` proves, for any number of requests, hosts and connections:

* `Connections_Owned`: `Spec /\ [][TakesOnce]_vars => []ConnectionsOwned`
* `Uploads_Exact`: `Spec => []UploadExact`, the half of `TransfersExact` that is about files
* `Transfers_Exact`: `Spec /\ [][TakesOnce]_vars => []TransfersExact`, the bodies of responses
  included
* `Buffers_Drained`: `Spec /\ [][TakesOnce]_vars => []BufferDrained`
* `Replies_In_Step`: `Spec => []RepliesInStep`
* `Nothing_Left`: `Spec /\ [][TakesOnce]_vars => []NothingLeft`, from the two before it

`TakesOnce` is an assumption about the program, written nowhere in `http_co.lua`: in the callback of
a request that is done, its connection is handed to one other request only. Without it the property is false: with a third
request that is given the same connection, TLC shows two requests using it; with the two of run
`network` this cannot happen. `NInv` says: while nothing is uploaded, a request uses the
connection of its arguments from the moment it is connected to when it is closed or handed on
(`Uses`); connections that are open have exactly one such user and others have none; during an
upload all requests are still new. Assumption: `NamesAssumption` (`NULL` is no name), and that
`NULL` is no record with a field `open`, without which "no connection" could be one.

`UploadExact` holds for files, blocks and windows of any size, if `source_buffer` can send the
file (`Sendable`: no block ends one unit before it; `FtpAssumption`: sizes are numbers). The
invariant `FInv` cuts the file into consecutive pieces (`Sent`): what the server has read, what
it has not read yet, what is left of the block that is being written, and the rest, which
begins at the end of a block (`AtBlock`). Each step moves a border between two pieces, which is
what `PieceJoin` and `PieceSub` say of sequences: `SourceBuffer` the last border, `WriteChars`
the one before by as much as the kernel takes, the server its own. `Stage` says what an upload has in
which state, and `Apart` that its connections are nobody else's, so that no step of another
upload, no reply and no shutdown of the other connection changes what was sent. Over a
connection that breaks the server still has a beginning of the file, if not the whole.

The bodies of requests need an invariant that follows the grammar of responses, `RInv`. It looks
forward: for a request under way it says what is *still to come* on its connection (what the
channel has buffered, what has arrived, what is on its way), instead of what has come. `Asking` is
a request whose lines and body are on their way to the server, cut into consecutive pieces as those
of an upload, with nothing coming back. Once the server has answered (`Answered`), some reply of
`Replies` exists whose response has exactly the rest that the state of the decoder expects
(`InHead`, `InPlainBody`, `InChunks`: one disjunct per state of `request_2` and its decoders), and the
sink holds exactly the units of the body before it. `Ahead` says that this rest is in the channel,
or a beginning of it when the connection broke. Each step of a decoder moves the border between
sink and rest: a line is taken off (`TakeLine`), characters are, at most as many as the length or
the chunk still asks for. `Silent` is a connection with nothing on it; a request reaches "ok" only
there, unless a response without length was cut, which is what `BufferDrained` says, and is what makes
the step from one request to the next on the same connection preserve the invariant. `Leaving`
and `Quiet` carry this over cleanup and `done`. `AnswersShaped` says that answers are made from
`Replies`. Assumptions on constants: `RepliesAssumption` (replies have one of the framings and numbers as
lengths; those without a body have length 0), `SizesAssumption` (`http_co.lua` gets the length of
the source as a number), `ChannelsAssumption`; `NULL` is no number, not the word "chunked" and no
record with a field `body`.

`RepliesInStep` is about the dialogue of an upload with its server. It depends on servers: one
that sends a line too many, or a line of text with the code and a space in the middle of a reply, puts the
client out of step, and `get_reply` has no means to notice. `RepliesWhole` (in `Ftp`) says what
`get_reply` relies on, the format of replies of RFC 959: a reply is one line, or begins with a
line with "-" and ends with the first one after it that has the same code and a space; a command
gets one reply, a greeting is one, or two when the first has a code 1xx. Lines in between are arbitrary,
among them such as have another code and a space, or the same code and another separator.
The invariant `StepsOK` (with `FInv`: `DInv`) gives each upload one of two situations. `Calm`:
nothing comes, and what the server has read, what is under way to it and what is left to write are
together exactly the command of the state, or nothing where there is none; or the connection is
broken. `Pending`: no command is left, and what comes is, by `Ahead`, the rest of one reply after the
`i` lines already read (`From`), where `Reading` ties `i` and the code that `get_reply` keeps to
the place in the reply: no code before its first line, the first line's code and "-" after it. A
line is taken off by `LineSteps`; `ReadingOn` shows that `LastLine` (by its code in the locals)
ends exactly the reply, and `ReadingNext` that something follows it only after a first greeting,
where the state "ready" awaits it. `FromNext` and `FlattenLined` say what the flattened lines of
a reply are; the latter, by `AllNumbers`, is induction over a set of numbers, by its least element
(`LeastIs`), which avoids the theorems with an operator as a parameter. Assumptions: those of
`Uploads_Exact`, since the invariant includes `FInv`, and `NULL` is no number, hence no code.

Only model-checked: `RefsExact` and the refinement of `SharedObject` with plain
blocks beside GObjects; `LookupRight` where an interface hides a name, as it is false
there; and liveness, which is beyond the prover.

## 5. Plan

1. `ObjectTypes`, `SharedObject`, `Proxy`, `ProxyProofs`: done, the counters and the refinement
   included. Next: exactness with plain blocks beside GObjects.
2. `VoidWrapper`, `CallInfo`, `Watches` with their proofs: done, `BoxesFreed` and `NoFault` included.
3. `Registry`, `Boxed`, `Closure`, `Callback`, `References`, `ReferencesProofs`: done, every
   property of the runs proved.
4. `HashTable`, `Modules`, `Metatables`, `MetatablesProofs`: done. Next: elements of arrays.
5. `Constants`, `Fields`, `GValues`, `Arguments`, `Values`, `ValuesProofs`: done. Next: arrays given
   as tables, `char**`, `struct**` and variable arguments.
6. `Channels`, `Http`, `Ftp`, `Network`: done for memory sources. Next: files and chains as
   sources. `NetworkProofs`: done, every safety property of run `network` is proved.

## 6. Not modelled

Text: names, messages, traces, layout of values. The generated tables of types and the
generator that writes them from gccxml's output; cmph, the external library of hash functions,
and the hash functions themselves. Overrides of the modules for other libraries, which reorder
arguments and keep no state. `glade.lua` and `strict.lua`, the debugging aids, cms-admin.
Unions and fields of type float, arrays, fractions of numbers. Errors that leave a signal handler
beside the references it holds (`CallInfo` has them for calls); a closure whose Lua thread has
ended when it is called (`gnome/closure.c:222`): threads are assumed to be kept. One library
call at a time in `References`, where nothing depends on nesting. Real concurrency: the binding
is single-threaded and says so (`gnome/call.c:36`).
