--------------------------- MODULE WatchesProofs ---------------------------
(* Every waiting coroutine has exactly the source it needs, none is resumed  *)
(* when dead, no wrapper is lost, and Watches implements Coroutines: for any *)
(* number of coroutines, channels and sources, and calls nested to any depth.*)
EXTENDS Watches, TLAPS

(* What the innermost call, and every other one, knows about its coroutine:  *)
(* it is active, and the source that called, if any, is its only one.        *)
FrameOK(f) ==
  /\ status[f.thread] = "active"
  /\ f.src = NULL => Of(f.thread) = {} /\ f.channel = NULL
  /\ f.src # NULL => /\ Of(f.thread) = {f.src}
                     /\ f.src \in calling
                     /\ f.channel # NULL => /\ source[f.src].channel = f.channel
                                            /\ source[f.src].cond = f.cond

StackOK ==
  /\ \A i \in 1..Len(stack) : FrameOK(stack[i])
  /\ \A i, j \in 1..Len(stack) : stack[i].thread = stack[j].thread => i = j

\* What is due is a timeout, and no source is removed while it is called
\* except by its own call: a new one is neither due nor being called.
DueOK == \A s \in due : s \in Existing /\ Timeout(s)
CallingOK == calling \subseteq Existing

IInv == /\ TypeOK /\ OneSource /\ WrappersExact /\ NoDeadResume
        /\ StackOK /\ DueOK /\ CallingOK
-----------------------------------------------------------------------------
LEMMA InitOK == Init => IInv
<1> SUFFICES ASSUME Init PROVE IInv
  OBVIOUS
<1>1. Existing = {}
  BY DEF Init, Existing
<1>2. TypeOK
  <2>1. stack \in Seq(Frame)
    BY DEF Init
  <2>2. source \in [Source -> {NULL} \cup SourceData]
    BY DEF Init
  <2> QED
    BY <2>1, <2>2 DEF Init, TypeOK
<1>3. OneSource
  BY <1>1 DEF Init, OneSource, Of
<1>4. WrappersExact /\ NoDeadResume
  BY <1>1 DEF Init, WrappersExact, NoDeadResume
<1>5. StackOK /\ DueOK /\ CallingOK
  BY DEF Init, StackOK, DueOK, CallingOK
<1> QED
  BY <1>2, <1>3, <1>4, <1>5 DEF IInv

(* A new source n for t takes the place of s, the only one t had, if any.    *)
LEMMA Replaced ==
  ASSUME TypeOK, NEW t \in Thread, NEW s \in Source \cup {NULL},
         NEW n \in Source \ Existing, NEW d \in SourceData, d.thread = t,
         s = NULL => Of(t) = {}, s # NULL => Of(t) = {s},
         source' = [r \in Source |-> IF r = s THEN NULL
                                     ELSE IF r = n THEN d ELSE source[r]]
  PROVE  /\ Existing' = (Existing \cup {n}) \ {s}
         /\ Of(t)' = {n}
         /\ \A u \in Thread \ {t} : Of(u)' = Of(u)
         /\ \A r \in Existing \ {s} : source'[r] = source[r]
         /\ source'[n] = d
         /\ source' \in [Source -> {NULL} \cup SourceData]
<1>1. s # NULL => s \in Existing /\ s # n /\ source[s].thread = t
  BY DEF Of
<1>2. source'[n] = d
  BY <1>1, NullAssumption DEF TypeOK
<1>3. \A r \in Source \ {n, s} : source'[r] = source[r]
  BY <1>1 DEF TypeOK
<1>4. s # NULL => s \in Source /\ source'[s] = NULL
  BY <1>1 DEF TypeOK, Existing
<1>5. source' \in [Source -> {NULL} \cup SourceData]
  BY DEF TypeOK
<1>6. NULL \notin Source /\ d # NULL /\ source[n] = NULL
  BY NullAssumption DEF Existing
<1>7. Existing' = (Existing \cup {n}) \ {s}
  BY <1>2, <1>3, <1>4, <1>6 DEF Existing
<1>8. \A r \in Existing \ {s} : r # n /\ source'[r] = source[r]
  BY <1>3 DEF Existing
<1>9. \A r \in Existing' : r = n \/ (r \in Existing \ {s} /\ source'[r] = source[r])
  BY <1>7, <1>8
<1>10. \A r \in Existing \ {s} : source[r].thread # t
  BY Zenon DEF Of
<1>11. n \in Existing' /\ source'[n].thread = t
  BY <1>1, <1>2, <1>6, <1>7
<1>12. Of(t)' = {n}
  BY <1>9, <1>10, <1>11 DEF Of
<1>13. \A u \in Thread \ {t} : Of(u)' = Of(u)
  <2> SUFFICES ASSUME NEW u \in Thread \ {t} PROVE Of(u)' = Of(u)
    OBVIOUS
  <2>1. s \notin Of(u)
    BY <1>1, <1>6 DEF Of, Existing
  <2>2. \A r \in Of(u) : r \in Existing \ {s} /\ source[r].thread = u
    BY <2>1 DEF Of
  <2>3. \A r \in Of(u)' : r \in Existing' /\ source'[r].thread = u
    BY DEF Of
  <2>4. \A r \in Of(u)' : r \in Of(u)
    BY <2>3, <1>9, <1>11 DEF Of
  <2>5. \A r \in Of(u) : r \in Of(u)'
    BY <2>2, <1>7, <1>8 DEF Of
  <2> QED
    BY <2>4, <2>5
<1> QED
  BY <1>2, <1>5, <1>7, <1>8, <1>12, <1>13

(* The only source of t is removed, if it has one.                           *)
LEMMA Gone ==
  ASSUME TypeOK, NEW t \in Thread, NEW s \in Source \cup {NULL},
         s = NULL => Of(t) = {}, s # NULL => Of(t) = {s},
         source' = IF s = NULL THEN source ELSE [source EXCEPT ![s] = NULL]
  PROVE  /\ Existing' = Existing \ {s}
         /\ Of(t)' = {}
         /\ \A u \in Thread \ {t} : Of(u)' = Of(u)
         /\ \A r \in Existing \ {s} : source'[r] = source[r]
         /\ source' \in [Source -> {NULL} \cup SourceData]
<1>1. s # NULL => s \in Existing /\ source[s].thread = t
  BY DEF Of
<1>2. \A r \in Source \ {s} : source'[r] = source[r]
  BY DEF TypeOK
<1>3. s # NULL => s \in Source /\ source'[s] = NULL
  BY <1>1 DEF TypeOK, Existing
<1>4. source' \in [Source -> {NULL} \cup SourceData]
  BY DEF TypeOK
<1>5. Existing' = Existing \ {s}
  BY <1>2, <1>3, NullAssumption DEF Existing
<1>6. Of(t)' = {}
  BY <1>1, <1>2, <1>5 DEF Of, Existing
<1>7. \A u \in Thread \ {t} : Of(u)' = Of(u)
  BY <1>1, <1>2, <1>5 DEF Of, Existing
<1>8. \A r \in Existing \ {s} : source'[r] = source[r]
  BY <1>2 DEF Existing
<1> QED
  BY <1>4, <1>5, <1>6, <1>7, <1>8
-----------------------------------------------------------------------------
(* A call whose coroutine the step does not touch is as good after it.       *)
LEMMA FrameKept ==
  ASSUME NEW f \in Frame, FrameOK(f),
         status'[f.thread] = status[f.thread],
         Of(f.thread)' = Of(f.thread),
         \A s \in Of(f.thread) : source'[s] = source[s],
         \A s \in Of(f.thread) : s \in calling => s \in calling'
  PROVE  FrameOK(f)'
BY DEF FrameOK

(* _watch_func begins: the coroutine is new, or waits for the source that    *)
(* calls.                                                                    *)
Callable(f) ==
  /\ f \in Frame
  /\ f.src = NULL => status[f.thread] = "new" /\ f.channel = NULL
  /\ f.src # NULL => /\ f.src \in Existing \ calling
                     /\ source[f.src].thread = f.thread
                     /\ f.channel # NULL => /\ source[f.src].channel = f.channel
                                            /\ source[f.src].cond = f.cond

LEMMA CalledState ==
  ASSUME IInv, NEW f, Callable(f)
  PROVE  /\ status[f.thread] \in {"new", "waiting"}
         /\ f.src = NULL => Of(f.thread) = {}
         /\ f.src # NULL => status[f.thread] = "waiting" /\ Of(f.thread) = {f.src}
<1>1. f.thread \in Thread
  BY DEF Callable, Frame
<1>2. CASE f.src = NULL
  BY <1>1, <1>2 DEF Callable, IInv, OneSource
<1>3. CASE f.src # NULL
  <2>1. f.src \in Of(f.thread) /\ f.src \notin calling
    BY <1>3 DEF Callable, Of
  <2>2. status[f.thread] = "waiting"
    BY <1>1, <2>1 DEF IInv, TypeOK, OneSource
  <2>3. Of(f.thread) = {f.src}
    BY <1>1, <2>1, <2>2 DEF IInv, OneSource
  <2> QED
    BY <2>2, <2>3, <1>3
<1> QED
  BY <1>2, <1>3

LEMMA BeginOK ==
  ASSUME IInv, NEW f, Callable(f), WatchFunc(f), UNCHANGED ready
  PROVE  IInv'
<1> USE DEF IInv
<1>1. f \in Frame /\ f.thread \in Thread
  BY DEF Callable, Frame
<1>2. /\ status[f.thread] \in {"new", "waiting"}
      /\ f.src = NULL => Of(f.thread) = {}
      /\ f.src # NULL => status[f.thread] = "waiting" /\ Of(f.thread) = {f.src}
  BY CalledState
<1>3. /\ status' = [status EXCEPT ![f.thread] = "active"]
      /\ waits' = [waits EXCEPT ![f.thread] = {}]
      /\ stack' = <<f>> \o stack
      /\ calling' = calling \cup ({f.src} \ {NULL})
      /\ UNCHANGED <<source, wrapper, due, deadcalled>>
  BY <1>2 DEF WatchFunc
<1>4. Existing' = Existing /\ \A u \in Thread : Of(u)' = Of(u)
  BY <1>3 DEF Existing, Of
<1>5. TypeOK'
  <2>1. stack' \in Seq(Frame)
    BY <1>1, <1>3 DEF TypeOK
  <2>2. calling' \subseteq Source
    BY <1>1, <1>3 DEF TypeOK, Frame
  <2> QED
    BY <1>1, <1>3, <2>1, <2>2 DEF TypeOK
<1>6. OneSource'
  <2> SUFFICES ASSUME NEW u \in Thread
               PROVE  /\ status'[u] = "waiting" =>
                           \E s \in Of(u)' : /\ Of(u)' = {s} /\ s \notin calling'
                                             /\ Timeout(s)' => waits'[u] = {<<u, "time">>}
                                             /\ ~Timeout(s)' => waits'[u] = source'[s].cond
                      /\ status'[u] = "active" => \A s \in Of(u)' : s \in calling' /\ Of(u)' = {s}
                      /\ status'[u] \in {"new", "dead"} => Of(u)' = {}
    BY DEF OneSource
  <2>1. CASE u = f.thread
    BY <2>1, <1>1, <1>2, <1>3, <1>4 DEF TypeOK
  <2>2. CASE u # f.thread
    <3>1. status'[u] = status[u] /\ waits'[u] = waits[u] /\ Of(u)' = Of(u)
      BY <2>2, <1>3, <1>4 DEF TypeOK
    <3>2. f.src \notin Of(u)
      BY <2>2, <1>2, NullAssumption DEF Of, Callable, Existing
    <3>3. \A s \in Of(u) : s \in calling' <=> s \in calling
      BY <3>2, <1>3
    <3>4. \A s \in Of(u) : Timeout(s)' = Timeout(s) /\ source'[s] = source[s]
      BY <1>3 DEF Timeout
    <3>5. /\ status[u] = "waiting" =>
               \E s \in Of(u) : /\ Of(u) = {s} /\ s \notin calling
                                /\ Timeout(s) => waits[u] = {<<u, "time">>}
                                /\ ~Timeout(s) => waits[u] = source[s].cond
          /\ status[u] = "active" => \A s \in Of(u) : s \in calling /\ Of(u) = {s}
          /\ status[u] \in {"new", "dead"} => Of(u) = {}
      BY DEF OneSource
    <3> QED
      BY <3>1, <3>3, <3>4, <3>5
  <2> QED
    BY <2>1, <2>2
<1>7. WrappersExact' /\ NoDeadResume'
  BY <1>3, <1>4 DEF WrappersExact, NoDeadResume
<1>8. DueOK' /\ CallingOK'
  BY <1>3, <1>4 DEF DueOK, Timeout, CallingOK, Callable
<1>9. StackOK'
  <2>1. /\ Len(stack') = Len(stack) + 1 /\ stack'[1] = f
        /\ \A i \in 2..Len(stack') : i - 1 \in 1..Len(stack) /\ stack'[i] = stack[i - 1]
    BY <1>1, <1>3 DEF TypeOK
  <2>2. \A i \in 1..Len(stack) : stack[i] \in Frame /\ stack[i].thread # f.thread
    BY <1>2 DEF TypeOK, StackOK, FrameOK
  <2>3. FrameOK(f)'
    BY <1>1, <1>2, <1>3, <1>4 DEF FrameOK, Callable, TypeOK
  <2>4. ASSUME NEW g \in Frame, FrameOK(g), g.thread # f.thread
        PROVE  FrameOK(g)'
    <3>1. status'[g.thread] = status[g.thread] /\ Of(g.thread)' = Of(g.thread)
      BY <2>4, <1>3, <1>4 DEF TypeOK, Frame
    <3>2. \A s : source'[s] = source[s] /\ (s \in calling => s \in calling')
      BY <1>3
    <3> QED
      BY <3>1, <3>2, <2>4, FrameKept
  <2>5. ASSUME NEW i \in 1..Len(stack'), NEW g, g = stack'[i]
        PROVE  FrameOK(g)'
    BY <2>1, <2>2, <2>3, <2>4, <2>5 DEF StackOK
  <2>6. \A i \in 1..Len(stack)' : FrameOK(stack[i])'
    BY <2>5 DEF FrameOK
  <2>10. \A i \in 2..Len(stack') : stack'[i].thread # stack'[1].thread
    BY <2>1, <2>2
  <2>7. ASSUME NEW i \in 1..Len(stack'), NEW j \in 1..Len(stack'),
               stack'[i].thread = stack'[j].thread
        PROVE  i = j
    <3>1. CASE i = 1 \/ j = 1
      BY <3>1, <2>7, <2>10
    <3>2. CASE i # 1 /\ j # 1
      <4>1. i - 1 \in 1..Len(stack) /\ j - 1 \in 1..Len(stack)
        BY <3>2, <2>1
      <4>2. stack[i - 1].thread = stack[j - 1].thread
        BY <3>2, <2>1, <2>7
      <4> QED
        BY <4>1, <4>2 DEF StackOK
    <3> QED
      BY <3>1, <3>2
  <2> QED
    BY <2>6, <2>7 DEF StackOK
<1> QED
  BY <1>5, <1>6, <1>7, <1>8, <1>9
-----------------------------------------------------------------------------
(* The innermost call ends.  Its coroutine waits for one source that is not  *)
(* being called, or has none and is dead; nobody else's source has changed.  *)
LEMMA LeaveOK ==
  ASSUME IInv, stack # <<>>, NEW f \in Frame, f = Head(stack),
         NEW st \in {"waiting", "dead"}, NEW ev \in SUBSET Event, Leave(st, ev),
         ready' \subseteq Event,
         source' \in [Source -> {NULL} \cup SourceData],
         wrapper' = Existing',
         calling' = calling \ {f.src}, due' = due \ {f.src},
         Existing \ {f.src} \subseteq Existing',
         \A r \in Existing \ {f.src} : source'[r] = source[r],
         \A u \in Thread \ {f.thread} : Of(u)' = Of(u),
         st = "dead" => Of(f.thread)' = {},
         st = "waiting" =>
           \E s \in Of(f.thread)' : /\ Of(f.thread)' = {s} /\ s \notin calling'
                                    /\ Timeout(s)' => ev = {<<f.thread, "time">>}
                                    /\ ~Timeout(s)' => ev = source'[s].cond
  PROVE  IInv'
<1> USE DEF IInv
<1>1. f.thread \in Thread /\ f = stack[1] /\ Len(stack) \in Nat \ {0}
  BY DEF Frame, TypeOK
<1>2. /\ status' = [status EXCEPT ![f.thread] = st]
      /\ waits' = [waits EXCEPT ![f.thread] = ev]
      /\ stack' = Tail(stack)
      /\ UNCHANGED deadcalled
  BY DEF Leave
<1>3. FrameOK(f)
  BY <1>1 DEF StackOK
<1>4. \A u \in Thread \ {f.thread} : f.src \notin Of(u)
  BY <1>1, <1>3, NullAssumption DEF FrameOK, Of, Existing
<1>5. TypeOK'
  <2>1. stack' \in Seq(Frame)
    BY <1>2 DEF TypeOK
  <2>2. wrapper' \subseteq Source /\ calling' \subseteq Source /\ due' \subseteq Source
    BY DEF TypeOK, Existing
  <2>3. status' \in [Thread -> {"new", "active", "waiting", "dead"}]
    BY <1>1, <1>2 DEF TypeOK
  <2>4. waits' \in [Thread -> SUBSET Event]
    BY <1>1, <1>2 DEF TypeOK
  <2>5. deadcalled' \in BOOLEAN
    BY <1>2 DEF TypeOK
  <2> QED
    BY <2>1, <2>2, <2>3, <2>4, <2>5 DEF TypeOK
<1>6. OneSource'
  <2> SUFFICES ASSUME NEW u \in Thread
               PROVE  /\ status'[u] = "waiting" =>
                           \E s \in Of(u)' : /\ Of(u)' = {s} /\ s \notin calling'
                                             /\ Timeout(s)' => waits'[u] = {<<u, "time">>}
                                             /\ ~Timeout(s)' => waits'[u] = source'[s].cond
                      /\ status'[u] = "active" => \A s \in Of(u)' : s \in calling' /\ Of(u)' = {s}
                      /\ status'[u] \in {"new", "dead"} => Of(u)' = {}
    BY DEF OneSource
  <2>1. CASE u = f.thread
    BY <2>1, <1>1, <1>2 DEF TypeOK
  <2>2. CASE u # f.thread
    <3>1. status'[u] = status[u] /\ waits'[u] = waits[u] /\ Of(u)' = Of(u)
      BY <2>2, <1>2 DEF TypeOK
    <3>2. \A s \in Of(u) : s \in Existing \ {f.src}
      BY <2>2, <1>4 DEF Of
    <3>3. \A s \in Of(u) : /\ s \in calling' <=> s \in calling
                           /\ source'[s] = source[s]
      BY <3>2
    <3>4. \A s \in Of(u) : Timeout(s)' = Timeout(s)
      BY <3>3 DEF Timeout
    <3>5. /\ status[u] = "waiting" =>
               \E s \in Of(u) : /\ Of(u) = {s} /\ s \notin calling
                                /\ Timeout(s) => waits[u] = {<<u, "time">>}
                                /\ ~Timeout(s) => waits[u] = source[s].cond
          /\ status[u] = "active" => \A s \in Of(u) : s \in calling /\ Of(u) = {s}
          /\ status[u] \in {"new", "dead"} => Of(u) = {}
      BY DEF OneSource
    <3> QED
      BY <3>1, <3>3, <3>4, <3>5
  <2> QED
    BY <2>1, <2>2
<1>7. WrappersExact' /\ NoDeadResume'
  BY <1>2 DEF WrappersExact, NoDeadResume
<1>8. DueOK' /\ CallingOK'
  BY DEF DueOK, Timeout, CallingOK
<1>9. StackOK'
  <2>1. /\ Len(stack') = Len(stack) - 1
        /\ \A i \in 1..Len(stack') : i + 1 \in 1..Len(stack) /\ stack'[i] = stack[i + 1]
    BY <1>1, <1>2 DEF TypeOK
  <2>2. ASSUME NEW i \in 1..Len(stack')
        PROVE  stack'[i] \in Frame /\ FrameOK(stack[i + 1]) /\ stack[i + 1].thread # f.thread
    <3>1. i + 1 \in 1..Len(stack) /\ i + 1 # 1 /\ 1 \in 1..Len(stack)
      BY <2>1, <1>1
    <3>2. stack[i + 1] \in Frame /\ FrameOK(stack[i + 1])
      BY <3>1 DEF TypeOK, StackOK
    <3>3. stack[i + 1].thread # stack[1].thread
      BY <3>1 DEF StackOK
    <3> QED
      BY <3>2, <3>3, <2>1, <1>1
  <2>4. ASSUME NEW g \in Frame, FrameOK(g), g.thread # f.thread
        PROVE  FrameOK(g)'
    <3>1. status'[g.thread] = status[g.thread] /\ Of(g.thread)' = Of(g.thread)
      BY <2>4, <1>2 DEF TypeOK, Frame
    <3>2. \A s \in Of(g.thread) : s \in Existing \ {f.src}
      BY <2>4, <1>4 DEF Of, Frame
    <3>3. \A s \in Of(g.thread) : source'[s] = source[s] /\ (s \in calling => s \in calling')
      BY <3>2
    <3> QED
      BY <3>1, <3>3, <2>4, FrameKept
  <2>5. ASSUME NEW i \in 1..Len(stack'), NEW g, g = stack'[i]
        PROVE  FrameOK(g)'
    <3>1. g \in Frame /\ g = stack[i + 1] /\ g.thread # f.thread
      BY <2>1, <2>2, <2>5
    <3>2. FrameOK(g)
      BY <3>1, <2>2 DEF FrameOK
    <3> QED
      BY <3>1, <3>2, <2>4
  <2>6. \A i \in 1..Len(stack)' : FrameOK(stack[i])'
    BY <2>5 DEF FrameOK
  <2>7. ASSUME NEW i \in 1..Len(stack'), NEW j \in 1..Len(stack'),
               stack'[i].thread = stack'[j].thread
        PROVE  i = j
    <3>1. i + 1 \in 1..Len(stack) /\ j + 1 \in 1..Len(stack)
      BY <2>1
    <3>2. stack[i + 1].thread = stack[j + 1].thread
      BY <2>1, <2>7
    <3>3. i + 1 = j + 1
      BY <3>1, <3>2 DEF StackOK
    <3> QED
      BY <3>3
  <2> QED
    BY <2>6, <2>7 DEF StackOK
<1> QED
  BY <1>5, <1>6, <1>7, <1>8, <1>9

(* The innermost call's coroutine, its source, and what AnswerFalse does.    *)
LEMMA TopOK ==
  ASSUME IInv, stack # <<>>, NEW f, f = Head(stack)
  PROVE  /\ f \in Frame /\ f.thread \in Thread /\ f.src \in Source \cup {NULL}
         /\ FrameOK(f)
         /\ f.src = NULL => Of(f.thread) = {}
         /\ f.src # NULL => Of(f.thread) = {f.src} /\ f.src \in Existing
<1>1. f = stack[1] /\ 1 \in 1..Len(stack) /\ f \in Frame
  BY DEF IInv, TypeOK
<1>2. FrameOK(f)
  BY <1>1 DEF IInv, StackOK
<1> QED
  BY <1>1, <1>2 DEF FrameOK, Frame, Of

LEMMA ExitOK == ASSUME IInv, Exit PROVE IInv'
<1>1. PICK f : f = Head(stack)
  OBVIOUS
<1>2. /\ stack # <<>> /\ Leave("dead", {})
      /\ AnswerFalse(f.src, source, wrapper) /\ UNCHANGED ready
  BY <1>1 DEF Exit
<1>3. /\ f \in Frame /\ f.thread \in Thread /\ f.src \in Source \cup {NULL}
      /\ f.src = NULL => Of(f.thread) = {}
      /\ f.src # NULL => Of(f.thread) = {f.src} /\ f.src \in Existing
  BY <1>1, <1>2, TopOK
<1>4. /\ source' = IF f.src = NULL THEN source ELSE [source EXCEPT ![f.src] = NULL]
      /\ wrapper' = wrapper \ {f.src}
      /\ calling' = calling \ {f.src} /\ due' = due \ {f.src}
  BY <1>2, NullAssumption DEF AnswerFalse, Removed, IInv, TypeOK
<1>5. /\ Existing' = Existing \ {f.src}
      /\ Of(f.thread)' = {}
      /\ \A u \in Thread \ {f.thread} : Of(u)' = Of(u)
      /\ \A r \in Existing \ {f.src} : source'[r] = source[r]
      /\ source' \in [Source -> {NULL} \cup SourceData]
  BY <1>3, <1>4, Gone DEF IInv
<1>6. wrapper' = Existing'
  BY <1>4, <1>5 DEF IInv, WrappersExact
<1>7. ready' \subseteq Event
  BY <1>2 DEF IInv, TypeOK
<1> QED
  BY <1>1, <1>2, <1>3, <1>4, <1>5, <1>6, <1>7, LeaveOK

(* The coroutine gets a new source; the one that called, if any, goes.       *)
LEMMA NewSourceOK ==
  ASSUME IInv, stack # <<>>, NEW f, f = Head(stack),
         NEW c \in Channel \cup {NULL}, NEW new \in SUBSET Event,
         NEW ev \in SUBSET Event, Leave("waiting", ev),
         c = NULL => ev = {<<f.thread, "time">>}, c # NULL => ev = new,
         NewSource(c, new, f.thread), ready' \subseteq Event
  PROVE  IInv'
<1>1. /\ f \in Frame /\ f.thread \in Thread /\ f.src \in Source \cup {NULL}
      /\ f.src = NULL => Of(f.thread) = {}
      /\ f.src # NULL => Of(f.thread) = {f.src} /\ f.src \in Existing
  BY TopOK
<1>2. PICK d : d = [channel |-> c, cond |-> new, thread |-> f.thread]
  OBVIOUS
<1>3. PICK n \in Source \ Existing :
        AnswerFalse(f.src, [source EXCEPT ![n] = d], wrapper \cup {n})
  BY <1>2 DEF NewSource
<1>4. d \in SourceData /\ d.thread = f.thread /\ d.channel = c /\ d.cond = new
  BY <1>1, <1>2 DEF SourceData
<1>10. source' = [r \in Source |-> IF r = f.src THEN NULL
                                   ELSE IF r = n THEN d ELSE source[r]]
  <2>1. source = [r \in Source |-> source[r]]
    BY DEF IInv, TypeOK
  <2>2. f.src = NULL => source' = [source EXCEPT ![n] = d]
    BY <1>3 DEF AnswerFalse
  <2>3. f.src # NULL => source' = [[source EXCEPT ![n] = d] EXCEPT ![f.src] = NULL]
    BY <1>3 DEF AnswerFalse, Removed
  <2> QED
    BY <1>1, <2>1, <2>2, <2>3, NullAssumption
<1>5. /\ wrapper' = (wrapper \cup {n}) \ {f.src}
      /\ calling' = calling \ {f.src} /\ due' = due \ {f.src}
  BY <1>3, NullAssumption DEF AnswerFalse, Removed, IInv, TypeOK
<1>6. /\ Existing' = (Existing \cup {n}) \ {f.src}
      /\ Of(f.thread)' = {n}
      /\ \A u \in Thread \ {f.thread} : Of(u)' = Of(u)
      /\ \A r \in Existing \ {f.src} : source'[r] = source[r]
      /\ source'[n] = d
      /\ source' \in [Source -> {NULL} \cup SourceData]
  <2>1. PICK t \in Thread, s \in Source \cup {NULL} : t = f.thread /\ s = f.src
    BY <1>1
  <2>2. /\ TypeOK /\ d \in SourceData /\ d.thread = t
        /\ s = NULL => Of(t) = {}
        /\ s # NULL => Of(t) = {s}
    BY <1>1, <1>4, <2>1 DEF IInv
  <2>3. source' = [r \in Source |-> IF r = s THEN NULL
                                   ELSE IF r = n THEN d ELSE source[r]]
    BY <1>10, <2>1
  <2>4. /\ Existing' = (Existing \cup {n}) \ {s}
        /\ Of(t)' = {n}
        /\ \A u \in Thread \ {t} : Of(u)' = Of(u)
        /\ \A r \in Existing \ {s} : source'[r] = source[r]
        /\ source'[n] = d
        /\ source' \in [Source -> {NULL} \cup SourceData]
    BY <1>3, <2>2, <2>3, Replaced
  <2> QED
    BY <2>1, <2>4
<1>7. wrapper' = Existing'
  BY <1>5, <1>6 DEF IInv, WrappersExact
<1>8. n \notin calling'
  BY <1>3, <1>5 DEF IInv, CallingOK
<1>9. \E s \in Of(f.thread)' : /\ Of(f.thread)' = {s} /\ s \notin calling'
                               /\ Timeout(s)' => ev = {<<f.thread, "time">>}
                               /\ ~Timeout(s)' => ev = source'[s].cond
  BY <1>4, <1>6, <1>8 DEF Timeout
<1> QED
  BY <1>1, <1>5, <1>6, <1>7, <1>9, LeaveOK

LEMMA SleepOK == ASSUME IInv, YieldSleep PROVE IInv'
<1>1. PICK f : f = Head(stack)
  OBVIOUS
<1>2. PICK ev : ev = {<<f.thread, "time">>}
  OBVIOUS
<1>3. f.thread \in Thread
  BY <1>1, TopOK DEF YieldSleep
<1>4. ev \in SUBSET Event /\ {} \in SUBSET Event
  BY <1>2, <1>3 DEF Event
<1>5. Leave("waiting", ev) /\ NewSource(NULL, {}, f.thread) /\ stack # <<>>
  BY <1>1, <1>2 DEF YieldSleep
<1>6. ready' \subseteq Event
  BY DEF YieldSleep, IInv, TypeOK
<1> QED
  BY <1>1, <1>2, <1>4, <1>5, <1>6, NewSourceOK

LEMMA IowaitOK ==
  ASSUME IInv, NEW c \in Channel, NEW k \in {IO_IN, IO_OUT}, YieldIowait(c, k)
  PROVE  IInv'
<1>1. PICK f : f = Head(stack)
  OBVIOUS
<1>2. PICK ev : ev = NewCond(c, k)
  OBVIOUS
<1>3. ev \in SUBSET Event
  BY <1>2 DEF NewCond, Event
<1>4. Leave("waiting", ev) /\ stack # <<>>
  BY <1>2 DEF YieldIowait, NewCond, Leave
<1>5. ready' \subseteq Event
  BY DEF YieldIowait, IInv, TypeOK
<1>6. c # NULL
  BY NullAssumption
<1>7. CASE SameWatch(f, c, ev)
  <2>1. /\ f \in Frame /\ f.thread \in Thread /\ f.src \in Source \cup {NULL}
        /\ FrameOK(f)
    BY <1>1, <1>4, TopOK
  <2>2. /\ f.src # NULL /\ Of(f.thread) = {f.src} /\ f.src \in Existing
        /\ source[f.src].channel = c /\ source[f.src].cond = ev
    BY <1>6, <1>7, <2>1 DEF SameWatch, FrameOK, Of
  <2>3. calling' = calling \ {f.src} /\ UNCHANGED <<source, wrapper, due>>
    BY <1>1, <1>2, <1>7 DEF YieldIowait, Kept
  <2>4. due' = due \ {f.src}
    BY <1>6, <2>2, <2>3 DEF IInv, DueOK, Timeout
  <2>5. Existing' = Existing /\ \A u \in Thread : Of(u)' = Of(u)
    BY <2>3 DEF Existing, Of
  <2>6. wrapper' = Existing'
    BY <2>3, <2>5 DEF IInv, WrappersExact
  <2>7. \E s \in Of(f.thread)' : /\ Of(f.thread)' = {s} /\ s \notin calling'
                                 /\ Timeout(s)' => ev = {<<f.thread, "time">>}
                                 /\ ~Timeout(s)' => ev = source'[s].cond
    BY <1>6, <2>1, <2>2, <2>3, <2>5 DEF Timeout
  <2>8. source' \in [Source -> {NULL} \cup SourceData]
    BY <2>3 DEF IInv, TypeOK
  <2> QED
    BY <1>1, <1>3, <1>4, <1>5, <2>1, <2>3, <2>4, <2>5, <2>6, <2>7, <2>8, LeaveOK
<1>8. CASE ~SameWatch(f, c, ev)
  <2>1. NewSource(c, ev, f.thread)
    BY <1>1, <1>2, <1>8 DEF YieldIowait
  <2> QED
    BY <1>1, <1>3, <1>4, <1>5, <1>6, <2>1, NewSourceOK
<1> QED
  BY <1>7, <1>8
-----------------------------------------------------------------------------
LEMMA StepOK == IInv /\ [Next]_vars => IInv'
<1> SUFFICES ASSUME IInv, [Next]_vars PROVE IInv'
  OBVIOUS
<1>1. ASSUME NEW t \in Thread, StartWatch(t) PROVE IInv'
  <2>1. PICK f : f = [src |-> NULL, channel |-> NULL, cond |-> {}, thread |-> t]
    OBVIOUS
  <2>2. Callable(f)
    BY <1>1, <2>1 DEF StartWatch, Callable, Frame
  <2>3. WatchFunc(f) /\ UNCHANGED ready
    BY <1>1, <2>1 DEF StartWatch
  <2> QED
    BY <2>2, <2>3, BeginOK
<1>2. ASSUME NEW s \in Source, DispatchTimeout(s) PROVE IInv'
  <2>1. PICK f : f = [src |-> s, channel |-> NULL, cond |-> {}, thread |-> source[s].thread]
    OBVIOUS
  <2>2. s \in Existing \ calling /\ source[s] \in SourceData
    BY <1>2 DEF DispatchTimeout, Dispatchable, IInv, TypeOK, Existing
  <2>3. f \in Frame
    BY <2>1, <2>2 DEF Frame, SourceData
  <2>4. Callable(f)
    BY <2>1, <2>2, <2>3, NullAssumption DEF Callable
  <2>5. WatchFunc(f) /\ UNCHANGED ready
    BY <1>2, <2>1 DEF DispatchTimeout
  <2> QED
    BY <2>4, <2>5, BeginOK
<1>3. ASSUME NEW s \in Source, DispatchWatch(s) PROVE IInv'
  <2>1. PICK f : f = [src |-> s, channel |-> source[s].channel,
                      cond |-> source[s].cond, thread |-> source[s].thread]
    OBVIOUS
  <2>2. s \in Existing \ calling /\ source[s] \in SourceData
    BY <1>3 DEF DispatchWatch, Dispatchable, IInv, TypeOK, Existing
  <2>3. f \in Frame
    BY <2>1, <2>2 DEF Frame, SourceData
  <2>4. Callable(f)
    BY <2>1, <2>2, <2>3, NullAssumption DEF Callable
  <2>5. WatchFunc(f) /\ UNCHANGED ready
    BY <1>3, <2>1 DEF DispatchWatch
  <2> QED
    BY <2>4, <2>5, BeginOK
<1>4. ASSUME NEW s \in Source, Elapse(s) PROVE IInv'
  <2>1. Existing' = Existing /\ \A u \in Thread : Of(u)' = Of(u)
    BY <1>4 DEF Elapse, Existing, Of
  <2>2. TypeOK' /\ WrappersExact' /\ NoDeadResume' /\ CallingOK'
    BY <1>4, <2>1 DEF Elapse, IInv, TypeOK, WrappersExact, NoDeadResume, CallingOK
  <2>3. OneSource'
    BY <1>4, <2>1 DEF Elapse, IInv, OneSource, Timeout
  <2>4. StackOK' /\ DueOK'
    BY <1>4, <2>1 DEF Elapse, IInv, StackOK, FrameOK, DueOK, Timeout, Existing, Of
  <2> QED
    BY <2>2, <2>3, <2>4 DEF IInv
<1>5. ASSUME NEW c \in Channel, NEW k \in {IO_IN, IO_OUT, IO_ERR}, Arrive(c, k) PROVE IInv'
  <2>1. Existing' = Existing /\ \A u \in Thread : Of(u)' = Of(u)
    BY <1>5 DEF Arrive, Existing, Of
  <2>2. TypeOK' /\ WrappersExact' /\ NoDeadResume' /\ CallingOK'
    BY <1>5, <2>1 DEF Arrive, IInv, TypeOK, WrappersExact, NoDeadResume, CallingOK, Event
  <2>3. OneSource'
    BY <1>5, <2>1 DEF Arrive, IInv, OneSource, Timeout
  <2>4. StackOK' /\ DueOK'
    BY <1>5, <2>1 DEF Arrive, IInv, StackOK, FrameOK, DueOK, Timeout, Existing, Of
  <2> QED
    BY <2>2, <2>3, <2>4 DEF IInv
<1>6. CASE UNCHANGED vars
  BY <1>6 DEF vars, IInv, TypeOK, OneSource, WrappersExact, NoDeadResume, StackOK, FrameOK,
      DueOK, CallingOK, Existing, Of, Timeout
<1> QED
  BY <1>1, <1>2, <1>3, <1>4, <1>5, <1>6, SleepOK, ExitOK, IowaitOK DEF Next, Run

(* Spec => []IInv, from which the invariants of the runs follow.             *)
THEOREM Invariant == Spec => []IInv
BY InitOK, StepOK, PTL DEF Spec

(* What a coroutine waits for, and what is waited with for it, agree: it is  *)
(* neither forgotten nor resumed twice (lib/watches.lua:53-77).              *)
THEOREM OneSourceHolds == Spec => []OneSource
<1>1. IInv => OneSource
  BY DEF IInv
<1> QED
  BY <1>1, Invariant, PTL

(* No wrapper of a coroutine outlives its source or is missing from one.     *)
THEOREM WrappersHold == Spec => []WrappersExact
<1>1. IInv => WrappersExact
  BY DEF IInv
<1> QED
  BY <1>1, Invariant, PTL

(* The message of lib/watches.lua:46 is never printed.                       *)
THEOREM NoDeadResumeHolds == Spec => []NoDeadResume
<1>1. IInv => NoDeadResume
  BY DEF IInv
<1> QED
  BY <1>1, Invariant, PTL

THEOREM TypeHolds == Spec => []TypeOK
<1>1. IInv => TypeOK
  BY DEF IInv
<1> QED
  BY <1>1, Invariant, PTL
-----------------------------------------------------------------------------
(* Watches implements Coroutines.  A coroutine waits for something only when *)
(* its status says so.                                                       *)
WaitsOK == \A t \in Thread : status[t] # "waiting" => waits[t] = {}

RInv == IInv /\ WaitsOK

Pready == ready \cup {<<source[s].thread, "time">> : s \in due}

\* Events are only used up when a call begins or ends.
LEMMA PreadyShrinks ==
  ASSUME due' \subseteq due, \A r \in due' : source'[r] = source[r],
         ready' \subseteq ready
  PROVE  Pready' \in SUBSET Pready
BY DEF Pready

LEMMA BeginStep ==
  ASSUME RInv, NEW f, Callable(f), WatchFunc(f), UNCHANGED ready
  PROVE  /\ f.thread \in Thread /\ status[f.thread] \in {"new", "waiting"}
         /\ status' = [status EXCEPT ![f.thread] = "active"]
         /\ waits' = [waits EXCEPT ![f.thread] = {}]
         /\ Pready' = Pready
         /\ WaitsOK'
<1>1. f.thread \in Thread /\ status[f.thread] \in {"new", "waiting"}
  BY CalledState DEF RInv, Callable, Frame
<1>2. /\ status' = [status EXCEPT ![f.thread] = "active"]
      /\ waits' = [waits EXCEPT ![f.thread] = {}]
      /\ UNCHANGED <<source, due>>
  BY <1>1 DEF WatchFunc
<1>3. Pready' = Pready
  BY <1>2 DEF Pready
<1>4. WaitsOK'
  BY <1>1, <1>2 DEF WaitsOK, RInv, IInv, TypeOK
<1> QED
  BY <1>1, <1>2, <1>3, <1>4

LEMMA LeaveStep ==
  ASSUME RInv, stack # <<>>, NEW f, f = Head(stack),
         NEW st \in {"waiting", "dead"}, NEW ev \in SUBSET Event, Leave(st, ev),
         st = "dead" => ev = {},
         ready' \subseteq ready, due' \subseteq due,
         \A r \in due' : source'[r] = source[r]
  PROVE  /\ f.thread \in Thread /\ status[f.thread] = "active"
         /\ waits[f.thread] = {}
         /\ status' = [status EXCEPT ![f.thread] = st]
         /\ waits' = [waits EXCEPT ![f.thread] = ev]
         /\ Pready' \in SUBSET Pready
         /\ WaitsOK'
<1>1. f.thread \in Thread /\ status[f.thread] = "active"
  BY TopOK DEF RInv, FrameOK
<1>2. waits[f.thread] = {}
  BY <1>1 DEF RInv, WaitsOK
<1>3. /\ status' = [status EXCEPT ![f.thread] = st]
      /\ waits' = [waits EXCEPT ![f.thread] = ev]
  BY DEF Leave
<1>4. WaitsOK'
  BY <1>1, <1>3 DEF WaitsOK, RInv, IInv, TypeOK
<1> QED
  BY <1>1, <1>2, <1>3, <1>4, PreadyShrinks

LEMMA NewSourceStep ==
  ASSUME RInv, NEW c, NEW new, NEW t, NewSource(c, new, t)
  PROVE  due' \subseteq due /\ \A r \in due' : source'[r] = source[r]
<1>1. PICK f : f = Head(stack)
  OBVIOUS
<1>2. PICK d : d = [channel |-> c, cond |-> new, thread |-> t]
  OBVIOUS
<1>3. PICK n \in Source \ Existing :
        AnswerFalse(f.src, [source EXCEPT ![n] = d], wrapper \cup {n})
  BY <1>1, <1>2 DEF NewSource
<1>4. due \subseteq Existing
  BY DEF RInv, IInv, DueOK
<1>5. CASE f.src = NULL
  BY <1>3, <1>4, <1>5 DEF AnswerFalse, RInv, IInv, TypeOK
<1>6. CASE f.src # NULL
  <2>1. /\ source' = [[source EXCEPT ![n] = d] EXCEPT ![f.src] = NULL]
        /\ due' = due \ {f.src}
    BY <1>3, <1>6 DEF AnswerFalse, Removed
  <2> QED
    BY <2>1, <1>3, <1>4 DEF RInv, IInv, TypeOK
<1> QED
  BY <1>5, <1>6
-----------------------------------------------------------------------------
LEMMA StepImplements == RInv /\ [Next]_vars => WaitsOK' /\ [Promise!Next]_Promise!vars
<1> SUFFICES ASSUME RInv, [Next]_vars PROVE WaitsOK' /\ [Promise!Next]_Promise!vars
  OBVIOUS
<1>1. ASSUME NEW t \in Thread, StartWatch(t) PROVE WaitsOK' /\ Promise!Start(t)
  <2>1. PICK f : f = [src |-> NULL, channel |-> NULL, cond |-> {}, thread |-> t]
    OBVIOUS
  <2>2. Callable(f) /\ f.thread = t
    BY <1>1, <2>1 DEF StartWatch, Callable, Frame
  <2>3. WatchFunc(f) /\ UNCHANGED ready /\ status[t] = "new"
    BY <1>1, <2>1 DEF StartWatch
  <2>4. /\ status' = [status EXCEPT ![t] = "active"]
        /\ waits' = [waits EXCEPT ![t] = {}]
        /\ Pready' = Pready /\ WaitsOK'
    BY <2>2, <2>3, BeginStep
  <2>5. waits' = waits
    BY <2>3, <2>4 DEF RInv, WaitsOK, IInv, TypeOK
  <2> QED
    BY <2>3, <2>4, <2>5 DEF Promise!Start, Pready
<1>2. ASSUME NEW s \in Source, DispatchTimeout(s)
      PROVE  WaitsOK' /\ \E t \in Thread : Promise!Resume(t)
  <2>1. PICK f : f = [src |-> s, channel |-> NULL, cond |-> {}, thread |-> source[s].thread]
    OBVIOUS
  <2>2. s \in Existing \ calling /\ source[s] \in SourceData /\ s \in due /\ Timeout(s)
    BY <1>2 DEF DispatchTimeout, Dispatchable, RInv, IInv, TypeOK, Existing, DueOK
  <2>3. f \in Frame
    BY <2>1, <2>2 DEF Frame, SourceData
  <2>4. Callable(f) /\ WatchFunc(f) /\ UNCHANGED ready
    BY <1>2, <2>1, <2>2, <2>3, NullAssumption DEF Callable, DispatchTimeout
  <2>5. PICK t \in Thread : t = f.thread
    BY <2>3 DEF Frame
  <2>6. status[t] = "waiting" /\ Of(t) = {s}
    BY <2>1, <2>2, <2>4, <2>5, CalledState, NullAssumption DEF RInv
  <2>7. waits[t] = {<<t, "time">>}
    BY <2>2, <2>6 DEF RInv, IInv, OneSource
  <2>8. <<t, "time">> \in Pready
    BY <2>1, <2>2, <2>5 DEF Pready
  <2>9. /\ status' = [status EXCEPT ![t] = "active"]
        /\ waits' = [waits EXCEPT ![t] = {}]
        /\ Pready' = Pready /\ WaitsOK'
    BY <2>4, <2>5, BeginStep
  <2>10. Promise!Resume(t)
    BY <2>6, <2>7, <2>8, <2>9 DEF Promise!Resume, Pready
  <2> QED
    BY <2>9, <2>10
<1>3. ASSUME NEW s \in Source, DispatchWatch(s)
      PROVE  WaitsOK' /\ \E t \in Thread : Promise!Resume(t)
  <2>1. PICK f : f = [src |-> s, channel |-> source[s].channel,
                      cond |-> source[s].cond, thread |-> source[s].thread]
    OBVIOUS
  <2>2. s \in Existing \ calling /\ source[s] \in SourceData /\ ~Timeout(s)
    BY <1>3 DEF DispatchWatch, Dispatchable, RInv, IInv, TypeOK, Existing
  <2>3. f \in Frame
    BY <2>1, <2>2 DEF Frame, SourceData
  <2>4. Callable(f) /\ WatchFunc(f) /\ UNCHANGED ready
    BY <1>3, <2>1, <2>2, <2>3, NullAssumption DEF Callable, DispatchWatch
  <2>5. PICK t \in Thread : t = f.thread
    BY <2>3 DEF Frame
  <2>6. status[t] = "waiting" /\ Of(t) = {s}
    BY <2>1, <2>2, <2>4, <2>5, CalledState, NullAssumption DEF RInv
  <2>7. waits[t] = source[s].cond
    BY <2>2, <2>6 DEF RInv, IInv, OneSource
  <2>8. waits[t] \cap Pready # {}
    BY <1>3, <2>7 DEF Pready, DispatchWatch
  <2>9. /\ status' = [status EXCEPT ![t] = "active"]
        /\ waits' = [waits EXCEPT ![t] = {}]
        /\ Pready' = Pready /\ WaitsOK'
    BY <2>4, <2>5, BeginStep
  <2>10. Promise!Resume(t)
    BY <2>6, <2>8, <2>9 DEF Promise!Resume, Pready
  <2> QED
    BY <2>9, <2>10
<1>4. ASSUME NEW c \in Channel, NEW k \in {IO_IN, IO_OUT}, YieldIowait(c, k)
      PROVE  WaitsOK' /\ \E t \in Thread : Promise!Block(t)
  <2>1. PICK f : f = Head(stack)
    OBVIOUS
  <2>2. PICK ev : ev = NewCond(c, k)
    OBVIOUS
  <2>3. ev \in SUBSET Event /\ ev # {}
    BY <2>2 DEF NewCond, Event
  <2>4. Leave("waiting", ev) /\ stack # <<>> /\ ready' \subseteq ready
    BY <1>4, <2>2 DEF YieldIowait, NewCond, Leave
  <2>5. due' \subseteq due /\ \A r \in due' : source'[r] = source[r]
    <3>1. CASE Kept(f.src)
      BY <3>1 DEF Kept
    <3>2. CASE NewSource(c, NewCond(c, k), f.thread)
      BY <3>2, NewSourceStep
    <3> QED
      BY <1>4, <2>1, <3>1, <3>2 DEF YieldIowait
  <2>6. /\ f.thread \in Thread /\ status[f.thread] = "active"
        /\ status' = [status EXCEPT ![f.thread] = "waiting"]
        /\ waits' = [waits EXCEPT ![f.thread] = ev]
        /\ Pready' \in SUBSET Pready /\ WaitsOK'
    BY <2>1, <2>3, <2>4, <2>5, LeaveStep
  <2>7. \E E \in (SUBSET Event) \ {{}} : waits' = [waits EXCEPT ![f.thread] = E]
    BY <2>3, <2>6
  <2>8. Promise!Block(f.thread)
    BY <2>6, <2>7 DEF Promise!Block, Pready
  <2> QED
    BY <2>6, <2>8
<1>5. ASSUME YieldSleep
      PROVE  WaitsOK' /\ \E t \in Thread : Promise!Block(t)
  <2>1. PICK f : f = Head(stack)
    OBVIOUS
  <2>2. PICK ev : ev = {<<f.thread, "time">>}
    OBVIOUS
  <2>3. ev \in SUBSET Event /\ ev # {}
    BY <1>5, <2>1, <2>2, TopOK DEF Event, YieldSleep, RInv
  <2>4. Leave("waiting", ev) /\ stack # <<>> /\ ready' \subseteq ready
    BY <1>5, <2>1, <2>2 DEF YieldSleep
  <2>5. due' \subseteq due /\ \A r \in due' : source'[r] = source[r]
    BY <1>5, NewSourceStep DEF YieldSleep
  <2>6. /\ f.thread \in Thread /\ status[f.thread] = "active"
        /\ status' = [status EXCEPT ![f.thread] = "waiting"]
        /\ waits' = [waits EXCEPT ![f.thread] = ev]
        /\ Pready' \in SUBSET Pready /\ WaitsOK'
    BY <2>1, <2>3, <2>4, <2>5, LeaveStep
  <2>7. \E E \in (SUBSET Event) \ {{}} : waits' = [waits EXCEPT ![f.thread] = E]
    BY <2>3, <2>6
  <2>8. Promise!Block(f.thread)
    BY <2>6, <2>7 DEF Promise!Block, Pready
  <2> QED
    BY <2>6, <2>8
<1>6. ASSUME Exit
      PROVE  WaitsOK' /\ \E t \in Thread : Promise!End(t)
  <2>1. PICK f : f = Head(stack)
    OBVIOUS
  <2>2. Leave("dead", {}) /\ stack # <<>> /\ ready' \subseteq ready
    BY <1>6 DEF Exit
  <2>3. due' \subseteq due /\ \A r \in due' : source'[r] = source[r]
    <3>1. AnswerFalse(f.src, source, wrapper)
      BY <1>6, <2>1 DEF Exit
    <3> QED
      BY <3>1 DEF AnswerFalse, Removed, RInv, IInv, TypeOK
  <2>4. /\ f.thread \in Thread /\ status[f.thread] = "active"
        /\ waits[f.thread] = {}
        /\ status' = [status EXCEPT ![f.thread] = "dead"]
        /\ waits' = [waits EXCEPT ![f.thread] = {}]
        /\ Pready' \in SUBSET Pready /\ WaitsOK'
    BY <2>1, <2>2, <2>3, LeaveStep
  <2>5. waits' = waits
    BY <2>4 DEF RInv, IInv, TypeOK
  <2>6. Promise!End(f.thread)
    BY <2>4, <2>5 DEF Promise!End, Pready
  <2> QED
    BY <2>4, <2>6
<1>7. ASSUME NEW s \in Source, Elapse(s) PROVE WaitsOK' /\ Promise!Happen
  <2>1. WaitsOK' /\ UNCHANGED <<status, waits>>
    BY <1>7 DEF Elapse, RInv, WaitsOK
  <2>2. \A r \in due' : r \in Source /\ source'[r] \in SourceData
    BY <1>7 DEF Elapse, RInv, IInv, TypeOK, DueOK, Existing
  <2>3. Pready' \in SUBSET Event
    BY <1>7, <2>2 DEF Pready, Elapse, RInv, IInv, TypeOK, Event, SourceData
  <2>4. Pready \subseteq Pready'
    BY <1>7 DEF Pready, Elapse
  <2> QED
    BY <2>1, <2>3, <2>4 DEF Promise!Happen, Pready
<1>8. ASSUME NEW c \in Channel, NEW k \in {IO_IN, IO_OUT, IO_ERR}, Arrive(c, k)
      PROVE  WaitsOK' /\ Promise!Happen
  <2>1. WaitsOK' /\ UNCHANGED <<status, waits>>
    BY <1>8 DEF Arrive, RInv, WaitsOK
  <2>2. \A r \in due' : r \in Source /\ source'[r] \in SourceData
    BY <1>8 DEF Arrive, RInv, IInv, TypeOK, DueOK, Existing
  <2>3. ready' \subseteq Event
    BY <1>8 DEF Arrive, RInv, IInv, TypeOK, Event
  <2>4. Pready' \in SUBSET Event
    BY <2>2, <2>3 DEF Pready, Event, SourceData
  <2>5. Pready \subseteq Pready'
    BY <1>8 DEF Pready, Arrive
  <2> QED
    BY <2>1, <2>4, <2>5 DEF Promise!Happen, Pready
<1>9. CASE UNCHANGED vars
  BY <1>9 DEF vars, RInv, WaitsOK, Promise!vars
<1> QED
  BY <1>1, <1>2, <1>3, <1>4, <1>5, <1>6, <1>7, <1>8, <1>9 DEF Next, Run, Promise!Next

(* Watches implements Coroutines: a coroutine that waits is resumed only for *)
(* an event it waits for, whatever the others do (lib/watches.lua:13-17).    *)
THEOREM Implements == Spec => ImplementsCoroutines
<1>1. Init => RInv /\ Promise!Init
  <2>1. Init => IInv
    BY InitOK
  <2>2. Init => WaitsOK /\ Promise!Init
    BY DEF Init, WaitsOK, Promise!Init
  <2> QED
    BY <2>1, <2>2 DEF RInv
<1>2. RInv /\ [Next]_vars => RInv'
  BY StepOK, StepImplements DEF RInv
<1>3. RInv /\ [Next]_vars => [Promise!Next]_Promise!vars
  BY StepImplements
<1> QED
  BY <1>1, <1>2, <1>3, PTL DEF Spec, ImplementsCoroutines, Promise!Spec
=============================================================================
