------------------------------ MODULE Watches ------------------------------
(* Coroutines that wait for channels and timeouts (lib/watches.lua), on top  *)
(* of the sources of the glib main loop.  A coroutine runs when a source     *)
(* calls its closure, or start_watch begins it, until it yields or ends; the *)
(* answer of _watch_func then keeps the source or removes it.  One coroutine *)
(* may start another, or run the main loop itself, while it is active.       *)
EXTENDS Naturals, Sequences

CONSTANTS Thread,     \* coroutines
          Channel,    \* GIOChannels
          Source,     \* sources of the main loop, reused once removed
          MaxDepth,   \* bound: calls of _watch_func inside one another
          NULL        \* nil, no source

IO_IN == "in"
IO_OUT == "out"
IO_ERR == "err"

Event == (Channel \X {IO_IN, IO_OUT, IO_ERR}) \cup (Thread \X {"time"})

\* A source with its data, and a call of _watch_func: the source that called,
\* with the channel and the condition it was called with.
SourceData == [channel : Channel \cup {NULL}, cond : SUBSET Event, thread : Thread]
Frame == [src : Source \cup {NULL}, channel : Channel \cup {NULL},
          cond : SUBSET Event, thread : Thread]

ASSUME NullAssumption == /\ NULL \notin Channel \cup Source
                         /\ NULL \notin SourceData

VARIABLES
  status,   \* status[t]: state of the coroutine
  waits,    \* waits[t]: the events it asked for when it yielded
  source,   \* source[s]: channel, condition and data of an existing source
  wrapper,  \* sources whose data, a void* wrapper, exists
  calling,  \* sources that are being called by the main loop
  stack,    \* calls of _watch_func, the innermost first
  ready,    \* conditions of channels that hold
  due,      \* timeouts that have elapsed
  deadcalled \* coroutine.resume has been called for a dead coroutine

vars == <<status, waits, source, wrapper, calling, stack, ready, due, deadcalled>>

Existing == {s \in Source : source[s] # NULL}
Of(t) == {s \in Existing : source[s].thread = t}
Timeout(s) == source[s].channel = NULL

TypeOK ==
  /\ status \in [Thread -> {"new", "active", "waiting", "dead"}]
  /\ waits \in [Thread -> SUBSET Event]
  /\ source \in [Source -> {NULL} \cup SourceData]
  /\ wrapper \subseteq Source /\ due \subseteq Source /\ calling \subseteq Source
  /\ stack \in Seq(Frame)
  /\ ready \subseteq Event
  /\ deadcalled \in BOOLEAN

Init == /\ status = [t \in Thread |-> "new"]
        /\ waits = [t \in Thread |-> {}]
        /\ source = [s \in Source |-> NULL]
        /\ wrapper = {} /\ due = {} /\ calling = {} /\ ready = {} /\ stack = <<>>
        /\ deadcalled = FALSE
-----------------------------------------------------------------------------
\* What a source looks like after its closure has answered.  Removing the
\* source of a watch calls _watch_destroy; the closure of a timeout destroys
\* its data itself before it answers false.
Kept(s) == /\ calling' = calling \ {s}
           /\ UNCHANGED <<source, wrapper, due>>

\* The data is not destroyed.
Removed_DataKept(s, src, w) ==
  /\ source' = [src EXCEPT ![s] = NULL] /\ wrapper' = w
  /\ due' = due \ {s} /\ calling' = calling \ {s}

Removed(s, src, w) == /\ source' = [src EXCEPT ![s] = NULL]
                      /\ wrapper' = w \ {s}
                      /\ due' = due \ {s}
                      /\ calling' = calling \ {s}

\* The source is kept whatever the answer.
AnswerFalse_Ignored(s, src, w) ==
  source' = src /\ wrapper' = w /\ calling' = calling \ {s} /\ UNCHANGED due

\* _watch_func answers false; start_watch, which is no source, ignores it.
AnswerFalse(s, src, w) ==
  IF s = NULL THEN source' = src /\ wrapper' = w /\ UNCHANGED <<due, calling>>
              ELSE Removed(s, src, w)

\* The beginning of _watch_func: coroutine.resume.
WatchFunc(f) ==
  IF status[f.thread] \in {"new", "waiting"}
  THEN /\ status' = [status EXCEPT ![f.thread] = "active"]
       /\ waits' = [waits EXCEPT ![f.thread] = {}]
       /\ stack' = <<f>> \o stack
       /\ calling' = calling \cup ({f.src} \ {NULL})
       /\ UNCHANGED <<source, wrapper, due, deadcalled>>
  ELSE /\ deadcalled' = (deadcalled \/ status[f.thread] = "dead")
       /\ AnswerFalse(f.src, source, wrapper)
       /\ UNCHANGED <<status, waits, stack>>

\* A program, or a coroutine that is active, starts a new one.
StartWatch(t) ==
  /\ status[t] = "new" /\ Len(stack) < MaxDepth
  /\ WatchFunc([src |-> NULL, channel |-> NULL, cond |-> {}, thread |-> t])
  /\ UNCHANGED ready

\* The main loop does not call a source again while it is being called.
Dispatchable(s) == s \in Existing \ calling /\ Len(stack) < MaxDepth

DispatchTimeout(s) ==
  /\ Dispatchable(s) /\ s \in due
  /\ WatchFunc([src |-> s, channel |-> NULL, cond |-> {},
                thread |-> source[s].thread])
  /\ UNCHANGED ready

\* Watches have a lower priority than timeouts.
DispatchWatch(s) ==
  /\ Dispatchable(s) /\ ~Timeout(s) /\ source[s].cond \cap ready # {}
  /\ due \subseteq calling
  /\ WatchFunc([src |-> s, channel |-> source[s].channel,
                cond |-> source[s].cond, thread |-> source[s].thread])
  /\ UNCHANGED ready

\* The coroutine leaves _watch_func, in one way or another.
Leave(st, ev) == /\ stack # <<>>
                 /\ status' = [status EXCEPT ![Head(stack).thread] = st]
                 /\ waits' = [waits EXCEPT ![Head(stack).thread] = ev]
                 /\ stack' = Tail(stack)
                 /\ UNCHANGED deadcalled

\* Errors are not waited for.
NewCond_NoErr(c, k) == {<<c, k>>}

\* The new condition: what was asked for and IO_ERR.
NewCond(c, k) == {<<c, k>>, <<c, IO_ERR>>}
\* The condition is not compared.
SameWatch_ChannelOnly(f, c, new) == f.channel = c

SameWatch(f, c, new) == f.channel = c /\ f.cond = new

\* The previous watch is not discarded.
NewSource_OldKept(c, new, t) ==
  \E s \in Source \ Existing :
    /\ source' = [source EXCEPT ![s] = [channel |-> c, cond |-> new, thread |-> t]]
    /\ wrapper' = wrapper \cup {s}
    /\ calling' = calling \ {Head(stack).src}
    /\ UNCHANGED due

NewSource(c, new, t) ==
  \E s \in Source \ Existing :
    AnswerFalse(Head(stack).src,
      [source EXCEPT ![s] = [channel |-> c, cond |-> new, thread |-> t]],
      wrapper \cup {s})

\* An operation on c has returned "timeout"; one on a channel in error would
\* have failed instead.
YieldIowait(c, k) ==
  /\ Leave("waiting", {<<c, k>>, <<c, IO_ERR>>})
  /\ <<c, IO_ERR>> \notin ready
  /\ ready' = ready \ {<<c, k>>}
  /\ IF SameWatch(Head(stack), c, NewCond(c, k)) THEN Kept(Head(stack).src)
     ELSE NewSource(c, NewCond(c, k), Head(stack).thread)

YieldSleep ==
  /\ stack # <<>>
  /\ Leave("waiting", {<<Head(stack).thread, "time">>})
  /\ NewSource(NULL, {}, Head(stack).thread)
  /\ UNCHANGED ready

\* The coroutine returns, or an error in it makes coroutine.resume fail.
Exit ==
  /\ stack # <<>>
  /\ Leave("dead", {})
  /\ AnswerFalse(Head(stack).src, source, wrapper)
  /\ UNCHANGED ready

Elapse(s) == /\ s \in Existing \ due /\ Timeout(s)
             /\ due' = due \cup {s}
             /\ UNCHANGED <<status, waits, source, wrapper, calling, stack, ready, deadcalled>>

Arrive(c, k) == /\ <<c, k>> \notin ready
                /\ ready' = ready \cup {<<c, k>>}
                /\ UNCHANGED <<status, waits, source, wrapper, calling, stack, due, deadcalled>>

Run == YieldSleep \/ Exit \/ \E c \in Channel, k \in {IO_IN, IO_OUT} : YieldIowait(c, k)

Next == \/ \E t \in Thread : StartWatch(t)
        \/ \E s \in Source : DispatchTimeout(s) \/ DispatchWatch(s) \/ Elapse(s)
        \/ Run
        \/ \E c \in Channel, k \in {IO_IN, IO_OUT, IO_ERR} : Arrive(c, k)

Spec == Init /\ [][Next]_vars

\* Time passes, an active coroutine yields or ends, sources are called when
\* due.  Timeouts go before watches, so a watch is served only if the program
\* does not sleep so briefly that some timeout is due at every moment.
AtRest == stack = <<>> /\ due = {}

FairSpec == /\ Spec
            /\ WF_vars(Run)
            /\ \A s \in Source : /\ WF_vars(Elapse(s))
                                 /\ WF_vars(DispatchTimeout(s))
                                 /\ SF_vars(DispatchWatch(s))
            /\ []<>AtRest
-----------------------------------------------------------------------------
(* A coroutine that waits is waited for by exactly one source, with the      *)
(* events it asked for; one that runs has at most the source that called it, *)
(* and no source is left of one that ended.  What _watch_func answers, and   *)
(* the new watch it makes before, decide this (lib/watches.lua:53-77).       *)
OneSource ==
  \A t \in Thread :
    /\ status[t] = "waiting" =>
         \E s \in Of(t) : /\ Of(t) = {s} /\ s \notin calling
                          /\ Timeout(s) => waits[t] = {<<t, "time">>}
                          /\ ~Timeout(s) => waits[t] = source[s].cond
    /\ status[t] = "active" => \A s \in Of(t) : s \in calling /\ Of(t) = {s}
    /\ status[t] \in {"new", "dead"} => Of(t) = {}

(* The wrapper with a coroutine in it exists exactly as long as its source,  *)
(* so the coroutine is not collected while it waits, and tests/005.lua finds *)
(* no wrapper left when the program ends (tests/005.lua:101).                *)
WrappersExact == wrapper = Existing

(* A dead coroutine is not resumed: "this must not happen.  An endless loop  *)
(* could ensue" (lib/watches.lua:46).                                        *)
NoDeadResume == ~deadcalled

(* The promise of Coroutines: resumed for the awaited events only.           *)
Promise == INSTANCE Coroutines WITH
  ready <- ready \cup {<<source[s].thread, "time">> : s \in due}
ImplementsCoroutines == Promise!Spec

(* A coroutine whose event has happened runs again, a sleeping one in any    *)
(* case: none is forgotten, whatever the others do (lib/watches.lua:12-17).  *)
Served ==
  \A t \in Thread :
    status[t] = "waiting" /\ (waits[t] \cap ready # {} \/ waits[t] = {<<t, "time">>})
      ~> (status[t] # "waiting" \/ (waits[t] \cap ready = {} /\ waits[t] # {<<t, "time">>}))
=============================================================================
