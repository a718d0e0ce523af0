----------------------------- MODULE ProxyProofs -----------------------------
(* Theorems about Proxy, for any number of proxies, addresses and types. *)
EXTENDS Proxy, FiniteSetTheorems, TLAPS

-----------------------------------------------------------------------------
(***************************************************************************)
(* lg_guess_object_type always finds a handler.                            *)
(***************************************************************************)
BestUpTo(f, i, k) ==
  \A j \in 1..k : f[i] > f[j] \/ (f[i] = f[j] /\ i <= j)

LEMMA BestExists ==
  ASSUME NEW f \in [1..7 -> Int]
  PROVE  \E i \in 1..7 : Best(f, i)
<1>1. \E i \in 1..1 : BestUpTo(f, i, 1)
  BY DEF BestUpTo
<1>2. \E i \in 1..2 : BestUpTo(f, i, 2)
  BY <1>1 DEF BestUpTo
<1>3. \E i \in 1..3 : BestUpTo(f, i, 3)
  BY <1>2 DEF BestUpTo
<1>4. \E i \in 1..4 : BestUpTo(f, i, 4)
  BY <1>3 DEF BestUpTo
<1>5. \E i \in 1..5 : BestUpTo(f, i, 5)
  BY <1>4 DEF BestUpTo
<1>6. \E i \in 1..6 : BestUpTo(f, i, 6)
  BY <1>5 DEF BestUpTo
<1>7. \E i \in 1..7 : BestUpTo(f, i, 7)
  BY <1>6 DEF BestUpTo
<1> QED
  BY <1>7 DEF BestUpTo, Best

LEMMA ScoresType ==
  ASSUME NEW kind, NEW flags, NEW onStack \in BOOLEAN
  PROVE  Scores(kind, flags, onStack) \in [1..7 -> Int]
<1>1. /\ PlainScore(kind, flags, onStack) \in Int
      /\ MallocScore(flags) \in Int
      /\ ArrayScore(flags) \in Int
      /\ ChannelScore(kind) \in Int
      /\ GObjectScore(kind, flags) \in Int
      /\ UnownedScore(kind, flags) \in Int
      /\ LoopScore(kind) \in Int
  BY DEF PlainScore, MallocScore, ArrayScore, ChannelScore, GObjectScore,
         UnownedScore, LoopScore
<1> QED
  BY <1>1 DEF Scores

LEMMA GuessTypeType ==
  ASSUME NEW kind, NEW flags, NEW onStack \in BOOLEAN
  PROVE  GuessType(kind, flags, onStack) \in MMType
<1> DEFINE c == CHOOSE i \in 1..7 : Best(Scores(kind, flags, onStack), i)
<1>1. \E i \in 1..7 : Best(Scores(kind, flags, onStack), i)
  BY ScoresType, BestExists
<1>2. c \in 1..7
  BY <1>1
<1>3. \A i \in 1..7 : MMTypes[i] \in MMType
  BY DEF MMTypes, MMType
<1> QED
  BY <1>2, <1>3 DEF GuessType

-----------------------------------------------------------------------------
(***************************************************************************)
(* The inductive invariant.  RingOK and ObjectsSound need to know which    *)
(* proxies have an address, TypeOK that a counter that reaches zero takes   *)
(* its object with it.                                                     *)
(***************************************************************************)
GoodObject(h) ==
  /\ h \in [class : Type \cup {NULL}, rc : Nat, cref : Nat, floating : BOOLEAN]
  /\ h.class = NULL <=> h.rc = 0
  /\ h.class = NULL => h.cref = 0

HeapOK ==
  \A p \in Location : /\ class[p] = NULL <=> rc[p] = 0
                      /\ class[p] = NULL => cref[p] = 0

AddressOK ==
  \A w \in Proxy :
    /\ Exists(w) /\ ~deleted[w] => ptr[w] \in Location
    /\ deleted[w] => Exists(w) /\ ptr[w] = NULL
    /\ ~Exists(w) => ptr[w] = NULL /\ next[w] = NULL

IInv == TypeOK /\ HeapOK /\ AddressOK /\ RingOK /\ ObjectsSound

(* The part of TypeOK about the heap. *)
HeapType ==
  /\ class \in [Location -> Type \cup {NULL}]
  /\ rc \in [Location -> Nat]
  /\ cref \in [Location -> Nat]

LEMMA SetObjectOK ==
  ASSUME HeapType, HeapOK, NEW p, NEW h, GoodObject(h), SetObject(p, h)
  PROVE  HeapType' /\ HeapOK'
BY DEF HeapType, HeapOK, GoodObject, SetObject

LEMMA ObjectGood ==
  ASSUME NEW c \in Type \cup {NULL}, NEW n \in Nat, NEW k \in Nat,
         c = NULL <=> n = 0, c = NULL => k = 0
  PROVE  GoodObject(Object(c, n, k))
BY DEF GoodObject, Object

LEMMA ObjectAtGood ==
  ASSUME HeapType, HeapOK, NEW p \in Location
  PROVE  GoodObject(ObjectAt(p))
BY ObjectGood DEF HeapType, HeapOK, ObjectAt

LEMMA NoObjectGood == GoodObject(NoObject)
BY ObjectGood DEF NoObject

LEMMA ReleasedGood ==
  ASSUME HeapType, HeapOK, NEW p \in Location, NEW m \in MMType
  PROVE  GoodObject(Released(m, p))
<1>1. CASE m \in Counted /\ rc[p] > 1
  <2>1. Released(m, p) = Object(class[p], rc[p] - 1, cref[p])
    BY <1>1 DEF Released, Counted
  <2> QED
    BY <1>1, <2>1, ObjectGood DEF HeapType, HeapOK
<1>2. CASE m = "plain"
  <2>1. Released(m, p) = ObjectAt(p)
    BY <1>2 DEF Released, Counted
  <2> QED
    BY <2>1, ObjectAtGood
<1>3. CASE ~(m \in Counted /\ rc[p] > 1) /\ m # "plain"
  BY <1>3, NoObjectGood DEF Released
<1> QED
  BY <1>1, <1>2, <1>3

-----------------------------------------------------------------------------
(***************************************************************************)
(* lg_get_object.                                                          *)
(***************************************************************************)
LEMMA RefsAddedType ==
  ASSUME NEW m, NEW flags, NEW floating \in BOOLEAN
  PROVE  RefsAdded(m, flags, floating) \in Nat
BY DEF RefsAdded, RefSink

(* An object that lg_get_object may be called for. *)
Existing(h) == GoodObject(h) /\ h.class # NULL

LEMMA MoreReferences ==
  ASSUME NEW h, Existing(h), NEW n \in Nat
  PROVE  GoodObject(WithRefs(h, n))
<1>1. h \in [class : Type \cup {NULL}, rc : Nat, cref : Nat, floating : BOOLEAN]
  BY DEF Existing, GoodObject
<1>2. h.rc + n \in Nat /\ h.rc + n # 0 /\ h.class # NULL
  BY <1>1 DEF Existing, GoodObject
<1> QED
  BY <1>1, <1>2 DEF GoodObject, WithRefs

LEMMA NullFact == NULL \notin Proxy /\ NULL \notin Location /\ NULL \notin Type
BY ProxyAssumption

(* What RingOK says of one proxy. *)
RingAt(u) ==
  /\ Exists(u) /\ Exists(next[u]) /\ next[u] # u /\ next[next[u]] # NULL
  /\ ptr[u] = ptr[next[u]] /\ (deleted[u] <=> deleted[next[u]])
  /\ \A v \in Proxy : next[v] = next[u] => v = u
  /\ \E v \in Proxy : next[v] = u

LEMMA RingParts == RingOK <=> \A u \in Proxy : next[u] # NULL => RingAt(u)
BY DEF RingOK, RingAt

(* The rings are not disturbed by what happens outside them. *)
LEMMA RingFrame ==
  ASSUME RingOK, next' = next, next \in [Proxy -> Proxy \cup {NULL}],
         \A u \in Proxy : next[u] # NULL =>
           (Exists(u) => Exists(u)') /\ ptr'[u] = ptr[u] /\ deleted'[u] = deleted[u]
  PROVE  RingOK'
BY NullFact DEF RingOK

LEMMA MakeObjectOK ==
  ASSUME IInv, NEW w \in Proxy, NEW p \in Location,
         NEW want \in Type \cup {Detect}, NEW flags, NEW h, Existing(h),
         MakeObject(w, p, want, flags, h)
  PROVE  /\ st[w] = "free"
         /\ st' = [st EXCEPT ![w] = "live"]
         /\ ptr' = [ptr EXCEPT ![w] = p]
         /\ deleted' = [deleted EXCEPT ![w] = FALSE]
         /\ ts' \in [Proxy -> Type \cup {NULL}]
         /\ mm' \in [Proxy -> MMType]
         /\ HeapType' /\ HeapOK'
<1> DEFINE t == IF want = Detect THEN h.class ELSE want
           m == GuessType(KindOf[t], flags, p \in Stack)
           n == RefsAdded(m, flags, h.floating)
<1>1. t \in Type
  BY DEF Existing, GoodObject
<1>2. m \in MMType
  <2>1. (p \in Stack) \in BOOLEAN
    OBVIOUS
  <2> QED
    BY <2>1, GuessTypeType
<1>3. n \in Nat
  BY RefsAddedType DEF Existing, GoodObject
<1>4. GoodObject(WithRefs(h, n))
  BY <1>3, MoreReferences
<1>5. /\ SetObject(p, WithRefs(h, n))
      /\ ts' = [ts EXCEPT ![w] = t]
      /\ mm' = [mm EXCEPT ![w] = m]
  BY DEF MakeObject
<1> HIDE DEF t, m, n
<1>6. HeapType' /\ HeapOK'
  BY <1>4, <1>5, SetObjectOK DEF IInv, TypeOK, HeapType
<1>7. ts' \in [Proxy -> Type \cup {NULL}] /\ mm' \in [Proxy -> MMType]
  BY <1>1, <1>2, <1>5 DEF IInv, TypeOK
<1> QED
  BY <1>6, <1>7 DEF MakeObject

LEMMA MakeFirstOK ==
  ASSUME IInv, NEW p \in Location, NEW want \in Type \cup {Detect}, NEW flags,
         NEW h, Existing(h), MakeFirst(p, want, flags, h)
  PROVE  IInv'
<1>1. PICK w \in Proxy :
        /\ MakeObject(w, p, want, flags, h)
        /\ objects' = IF p \in Stack THEN objects ELSE [objects EXCEPT ![p] = w]
        /\ UNCHANGED <<next, fault>>
  BY DEF MakeFirst
<1>2. /\ st[w] = "free"
      /\ st' = [st EXCEPT ![w] = "live"]
      /\ ptr' = [ptr EXCEPT ![w] = p]
      /\ deleted' = [deleted EXCEPT ![w] = FALSE]
      /\ ts' \in [Proxy -> Type \cup {NULL}]
      /\ mm' \in [Proxy -> MMType]
      /\ HeapType' /\ HeapOK'
  BY <1>1, MakeObjectOK
<1>3. TypeOK'
  BY <1>1, <1>2 DEF IInv, TypeOK, HeapType, Status
<1>4. AddressOK'
  BY <1>1, <1>2 DEF IInv, TypeOK, AddressOK, Exists
<1>5. RingOK'
  BY <1>1, <1>2, RingFrame, NullFact DEF IInv, TypeOK, AddressOK, Exists
<1>6. ObjectsSound'
  BY <1>1, <1>2, NullFact DEF IInv, TypeOK, AddressOK, ObjectsSound, Exists
<1> QED
  BY <1>2, <1>3, <1>4, <1>5, <1>6 DEF IInv

LEMMA MakeAliasOK ==
  ASSUME IInv, NEW p \in Location, NEW want \in Type \cup {Detect}, NEW flags,
         NEW h, Existing(h), NEW o \in Proxy, objects[p] = o,
         MakeAlias(o, p, want, flags, h)
  PROVE  IInv'
<1>1. PICK w \in Proxy :
        /\ MakeObject(w, p, want, flags \ {"NEW"}, h)
        /\ next' = Linked(o, w)
        /\ UNCHANGED <<objects, fault>>
  BY DEF MakeAlias
<1>2. /\ st[w] = "free"
      /\ st' = [st EXCEPT ![w] = "live"]
      /\ ptr' = [ptr EXCEPT ![w] = p]
      /\ deleted' = [deleted EXCEPT ![w] = FALSE]
      /\ ts' \in [Proxy -> Type \cup {NULL}]
      /\ mm' \in [Proxy -> MMType]
      /\ HeapType' /\ HeapOK'
  BY <1>1, MakeObjectOK
<1>3. Exists(o) /\ ptr[o] = p /\ ~deleted[o] /\ o # w
  BY <1>2, NullFact DEF IInv, ObjectsSound, Exists
<1>4. next[w] = NULL /\ \A u \in Proxy : next[u] # w
  BY <1>2, NullFact DEF IInv, AddressOK, RingOK, Exists
<1> DEFINE n == IF next[o] = NULL THEN o ELSE next[o]
<1>5. n \in Proxy /\ n # w /\ Exists(n) /\ ptr[n] = p /\ ~deleted[n]
  BY <1>2, <1>3, <1>4, NullFact DEF IInv, TypeOK, RingOK
<1>6. next' = [next EXCEPT ![w] = n, ![o] = w]
  BY <1>1 DEF Linked
<1>7. next'[w] = n /\ next'[o] = w
      /\ \A u \in Proxy : u # w /\ u # o => next'[u] = next[u]
  BY <1>3, <1>6 DEF IInv, TypeOK
<1>8. TypeOK'
  BY <1>1, <1>2, <1>5, <1>6 DEF IInv, TypeOK, HeapType, Status
<1>9. AddressOK'
  <2> SUFFICES ASSUME NEW u \in Proxy
      PROVE  /\ Exists(u)' /\ ~deleted'[u] => ptr'[u] \in Location
             /\ deleted'[u] => Exists(u)' /\ ptr'[u] = NULL
             /\ ~Exists(u)' => ptr'[u] = NULL /\ next'[u] = NULL
    BY DEF AddressOK, Exists
  <2>1. CASE u = w
    BY <1>2, <2>1 DEF IInv, TypeOK, Exists
  <2>2. CASE u = o
    BY <1>2, <1>3, <2>2 DEF IInv, TypeOK, Exists
  <2>3. CASE u # w /\ u # o
    BY <1>2, <1>7, <2>3 DEF IInv, TypeOK, AddressOK, Exists
  <2> QED
    BY <2>1, <2>2, <2>3
<1>10. RingOK'
  <2> SUFFICES ASSUME NEW u \in Proxy, next'[u] # NULL
      PROVE  RingAt(u)'
    BY DEF RingOK, RingAt, Exists
  <2>0. \A v \in Proxy : next[v] # NULL => RingAt(v)
    BY RingParts DEF IInv
  <2>00. /\ ptr'[w] = p /\ ~deleted'[w] /\ st'[w] = "live"
         /\ \A v \in Proxy : v # w => ptr'[v] = ptr[v] /\ st'[v] = st[v]
                                     /\ (deleted'[v] <=> deleted[v])
    BY <1>2 DEF IInv, TypeOK
  <2>000. next[o] # NULL =>
            /\ next[n] # NULL /\ n # o /\ \A v \in Proxy : next[v] = n => v = o
            /\ \E v \in Proxy : next[v] = o
    BY <2>0, <1>5 DEF RingAt
  <2>1. CASE u = w
    <3>1. next'[n] # NULL
      BY <1>4, <1>5, <1>7, <2>000, NullFact
    <3>2. \A v \in Proxy : next'[v] = n => v = w
      <4> SUFFICES ASSUME NEW v \in Proxy, next'[v] = n, v # w
          PROVE  FALSE
        OBVIOUS
      <4>1. v # o /\ next[v] = n
        BY <1>5, <1>7
      <4>2. next[o] = NULL
        BY <4>1, <2>000
      <4>3. next[o] # NULL
        BY <4>1, <4>2, <1>5, <2>0, NullFact DEF RingAt
      <4> QED
        BY <4>2, <4>3
    <3>3. st'[w] # "free" /\ st'[n] # "free" /\ ptr'[n] = p /\ ~deleted'[n]
      <4>1. st'[n] = st[n] /\ ptr'[n] = ptr[n] /\ (deleted'[n] <=> deleted[n])
        BY <1>5, <2>00
      <4> QED
        BY <4>1, <1>5, <2>00 DEF Exists
    <3> QED
      BY <1>5, <1>7, <2>00, <2>1, <3>1, <3>2, <3>3 DEF RingAt, IInv, TypeOK, Exists
  <2>2. CASE u = o
    <3>1. \E v \in Proxy : next'[v] = o
      <4>1. CASE next[o] = NULL
        BY <4>1, <1>7
      <4>2. CASE next[o] # NULL
        <5>1. PICK v \in Proxy : next[v] = o
          BY <4>2, <2>000
        <5>2. v # o /\ v # w
          BY <5>1, <4>2, <2>000, <1>3, <1>4, NullFact
        <5> QED
          BY <5>1, <5>2, <1>7
      <4> QED
        BY <4>1, <4>2
    <3>2. \A v \in Proxy : next'[v] = w => v = o
      BY <1>4, <1>5, <1>7
    <3>3. Exists(o)' /\ Exists(w)' /\ ptr'[o] = p /\ ~deleted'[o]
      BY <1>3, <2>00 DEF Exists, IInv, TypeOK
    <3> QED
      BY <1>3, <1>5, <1>7, <2>00, <2>2, <3>1, <3>2, <3>3, NullFact
         DEF RingAt, IInv, TypeOK, Exists
  <2>3. CASE u # w /\ u # o
    <3>1. next[u] # NULL /\ next'[u] = next[u]
      BY <1>7, <2>3
    <3>2. /\ Exists(u) /\ Exists(next[u]) /\ next[u] # u /\ next[next[u]] # NULL
          /\ ptr[u] = ptr[next[u]] /\ (deleted[u] <=> deleted[next[u]])
          /\ \A v \in Proxy : next[v] = next[u] => v = u
          /\ \E v \in Proxy : next[v] = u
      BY <3>1, <2>0 DEF RingAt
    <3>3. next[u] \in Proxy /\ next[u] # w
      BY <3>1, <1>4 DEF IInv, TypeOK
    <3>4. next'[next[u]] # NULL
      BY <3>2, <3>3, <1>7, NullFact
    <3>5. \A v \in Proxy : next'[v] = next[u] => v = u
      BY <3>1, <3>2, <3>3, <1>7, <2>3, NullFact
    <3>6. \E v \in Proxy : next'[v] = u
      <4>1. PICK v \in Proxy : next[v] = u
        BY <3>2
      <4>2. CASE v = o
        BY <4>1, <4>2, <1>7, NullFact
      <4>3. CASE v # o
        BY <4>1, <4>3, <1>4, <1>7, NullFact
      <4> QED
        BY <4>2, <4>3
    <3> QED
      BY <3>1, <3>2, <3>3, <3>4, <3>5, <3>6, <2>00, <2>3 DEF RingAt, Exists
  <2> QED
    BY <2>1, <2>2, <2>3
<1>11. ObjectsSound'
  BY <1>1, <1>2, NullFact DEF IInv, TypeOK, AddressOK, ObjectsSound, Exists
<1> QED
  BY <1>2, <1>8, <1>9, <1>10, <1>11 DEF IInv

(* A step that changes nothing but the heap, and st between states in which *)
(* a proxy exists.                                                         *)
LEMMA StatusStep ==
  ASSUME IInv, st' \in [Proxy -> Status],
         \A u \in Proxy : Exists(u)' <=> Exists(u),
         UNCHANGED <<ptr, ts, mm, deleted, next, objects>>, fault' \in BOOLEAN,
         HeapType', HeapOK'
  PROVE  IInv'
<1>1. TypeOK'
  BY DEF IInv, TypeOK, HeapType
<1>2. AddressOK'
  BY DEF IInv, AddressOK
<1>3. RingOK'
  BY RingFrame DEF IInv, TypeOK
<1>4. ObjectsSound'
  BY NullFact DEF IInv, TypeOK, ObjectsSound
<1> QED
  BY <1>1, <1>2, <1>3, <1>4 DEF IInv

LEMMA ReuseOK ==
  ASSUME IInv, NEW p \in Location, NEW want \in Type \cup {Detect}, NEW flags,
         NEW h, Existing(h), NEW o \in Proxy, objects[p] = o, InAliases(o),
         Reuse(o, p, want, flags, h)
  PROVE  IInv'
<1> DEFINE seen  == Visited(o, p, want)
           wrong == {u \in seen : ptr[u] # p}
           found == {u \in seen : ptr[u] = p /\ Fits(u, want)
                                  /\ (u = o \/ InAliases(u))}
<1>1. seen \subseteq Proxy
  BY DEF Visited, Walk
<1>2. SetObject(p, h) => HeapType' /\ HeapOK'
  BY SetObjectOK DEF IInv, TypeOK, HeapType, Existing
<1>3. CASE wrong # {}
  <2>1. /\ fault' = \E u \in wrong : ptr[u] = NULL /\ deleted[u]
        /\ SetObject(p, h)
        /\ UNCHANGED <<proxyVars, objects>>
    BY <1>3 DEF Reuse
  <2>2. fault' \in BOOLEAN
    BY <2>1
  <2>3. UNCHANGED <<st, ptr, ts, mm, deleted, next, objects>>
    BY <2>1 DEF proxyVars
  <2>4. st' \in [Proxy -> Status] /\ \A u \in Proxy : Exists(u)' <=> Exists(u)
    BY <2>3 DEF IInv, TypeOK, Exists
  <2> QED
    BY <1>2, <2>1, <2>2, <2>3, <2>4, StatusStep
<1>4. CASE wrong = {} /\ found # {}
  <2>1. PICK u \in found :
          /\ st' = [st EXCEPT ![u] = "live"]
          /\ SetObject(p, h)
          /\ UNCHANGED <<ptr, ts, mm, deleted, next, objects, fault>>
    BY <1>4 DEF Reuse
  <2>2. u \in Proxy /\ Exists(u)
    BY <1>1 DEF InAliases, Exists
  <2>3. st' \in [Proxy -> Status] /\ \A v \in Proxy : Exists(v)' <=> Exists(v)
    BY <2>1, <2>2 DEF IInv, TypeOK, Exists, Status
  <2>4. fault' \in BOOLEAN
    BY <2>1 DEF IInv, TypeOK
  <2> QED
    BY <1>2, <2>1, <2>3, <2>4, StatusStep
<1>5. CASE wrong = {} /\ found = {}
  <2>1. MakeAlias(o, p, want, flags, h)
    BY <1>5 DEF Reuse
  <2> QED
    BY <2>1, MakeAliasOK
<1> QED
  BY <1>3, <1>4, <1>5

LEMMA GetObjectOK ==
  ASSUME IInv, NEW p \in Location, NEW want \in Type \cup {Detect}, NEW flags,
         NEW h, Existing(h), GetObject(p, want, flags, h)
  PROVE  IInv'
<1>1. CASE objects[p] # NULL /\ InAliases(objects[p])
  <2>1. objects[p] \in Proxy
    BY <1>1 DEF IInv, TypeOK
  <2>2. Reuse(objects[p], p, want, flags, h)
    BY <1>1 DEF GetObject
  <2> QED
    BY <1>1, <2>1, <2>2, ReuseOK
<1>2. CASE ~(objects[p] # NULL /\ InAliases(objects[p]))
  <2>1. MakeFirst(p, want, flags, h)
    BY <1>2 DEF GetObject
  <2> QED
    BY <2>1, MakeFirstOK
<1> QED
  BY <1>1, <1>2

-----------------------------------------------------------------------------
(***************************************************************************)
(* lg_invalidate_object reaches the whole ring of w and nothing else.      *)
(* That it gets back to each predecessor is where the set of proxies must  *)
(* be finite: next is an injection of the proxies reached into themselves, *)
(* and so a surjection.                                                    *)
(***************************************************************************)
LEMMA InvalidatedRing ==
  ASSUME IInv, NEW w \in Proxy, Exists(w), ~deleted[w]
  PROVE  /\ w \in Invalidated(w)
         /\ \A u \in Invalidated(w) : u \in Proxy /\ ptr[u] = ptr[w] /\ Exists(u)
         /\ \A u \in Proxy : next[u] # NULL =>
              (u \in Invalidated(w) <=> next[u] \in Invalidated(w))
<1> DEFINE M == Invalidated(w)
           C(S) == /\ w \in S
                   /\ \A v \in S : next[v] # NULL /\ ptr[next[v]] # NULL => next[v] \in S
<1>1. M = {u \in Proxy : \A S \in SUBSET Proxy : C(S) => u \in S}
  BY DEF Invalidated, Walk
<1>2. ptr[w] # NULL
  BY NullFact DEF IInv, AddressOK
<1>3. \A u \in Proxy : next[u] # NULL => next[u] \in Proxy
  BY DEF IInv, TypeOK
<1>4. \A u \in Proxy : next[u] # NULL => RingAt(u)
  BY RingParts DEF IInv
<1> HIDE DEF M
<1>5. \A S \in SUBSET Proxy : C(S) => M \subseteq S
  BY <1>1
<1>6. M \subseteq Proxy /\ C(M)
  <2>1. w \in M
    BY <1>1
  <2>2. ASSUME NEW v \in M, next[v] # NULL, ptr[next[v]] # NULL
        PROVE  next[v] \in M
    <3>1. next[v] \in Proxy
      BY <1>1, <1>3, <2>2
    <3>2. ASSUME NEW S \in SUBSET Proxy, C(S)
          PROVE  next[v] \in S
      BY <2>2, <3>2, <1>5
    <3> QED
      BY <1>1, <3>1, <3>2
  <2> QED
    BY <1>1, <2>1, <2>2
<1>7. \A u \in M : ptr[u] = ptr[w]
  <2> DEFINE S == {v \in Proxy : ptr[v] = ptr[w]}
  <2>1. C(S)
    BY <1>3, <1>4 DEF RingAt
  <2> QED
    BY <2>1, <1>5
<1>8. \A u \in M : Exists(u)
  BY <1>2, <1>6, <1>7 DEF IInv, AddressOK
<1>9. \A u \in M : next[u] # NULL => next[u] \in M
  BY <1>2, <1>4, <1>6, <1>7 DEF RingAt
<1>10. \A u \in Proxy : next[u] # NULL /\ next[u] \in M => u \in M
  <2>1. CASE next[w] = NULL
    <3>1. C({w})
      BY <2>1
    <3>2. M \subseteq {w}
      BY <3>1, <1>5
    <3> QED
      BY <3>2, <2>1, <1>4 DEF RingAt
  <2>2. CASE next[w] # NULL
    <3> DEFINE S == {v \in Proxy : next[v] # NULL}
               f == [v \in M |-> next[v]]
    <3>1. C(S)
      BY <2>2, <1>3, <1>4 DEF RingAt
    <3>2. \A u \in M : next[u] # NULL
      BY <3>1, <1>5
    <3>3. f \in Injection(M, M)
      BY <1>4, <1>6, <1>9, <3>2 DEF RingAt, Injection, IsInjective
    <3>4. IsFiniteSet(M)
      BY <1>6, FS_Subset, ProxyAssumption
    <3>5. f \in Surjection(M, M)
      BY <3>3, <3>4, FS_Injection
    <3>6. \A u \in M : \E v \in M : next[v] = u
      BY <3>5 DEF Surjection
    <3> QED
      BY <3>6, <1>4, <1>6 DEF RingAt
  <2> QED
    BY <2>1, <2>2
<1> QED
  BY <1>6, <1>7, <1>8, <1>9, <1>10 DEF M

LEMMA InvalidateOK ==
  ASSUME IInv, NEW w \in Proxy, Exists(w), ~deleted[w], Invalidate(w, ptr[w]),
         HeapType', HeapOK', fault' \in BOOLEAN
  PROVE  IInv'
<1> DEFINE M == Invalidated(w)
<1>1. /\ w \in M
      /\ \A u \in M : u \in Proxy /\ ptr[u] = ptr[w] /\ Exists(u)
      /\ \A u \in Proxy : next[u] # NULL => (u \in M <=> next[u] \in M)
  BY InvalidatedRing
<1>2. ptr[w] \in Location
  BY DEF IInv, AddressOK
<1>3. /\ ptr' = [u \in Proxy |-> IF u \in M THEN NULL ELSE ptr[u]]
      /\ deleted' = [u \in Proxy |-> u \in M \/ deleted[u]]
      /\ objects' = [objects EXCEPT ![ptr[w]] = NULL]
      /\ UNCHANGED <<st, ts, mm, next>>
  BY <1>2, NullFact DEF Invalidate
<1> HIDE DEF M
<1>4. TypeOK'
  <2>1. deleted' \in [Proxy -> BOOLEAN]
    BY <1>3
  <2> QED
    BY <2>1, <1>3 DEF IInv, TypeOK, HeapType
<1>5. AddressOK'
  BY <1>1, <1>3 DEF IInv, AddressOK, Exists
<1>6. RingOK'
  <2> SUFFICES ASSUME NEW u \in Proxy, next[u] # NULL
      PROVE  RingAt(u)'
    BY <1>3 DEF RingOK, RingAt, Exists
  <2>1. RingAt(u) /\ next[u] \in Proxy
    BY RingParts DEF IInv, TypeOK
  <2>2. /\ ptr'[u] = ptr'[next[u]]
        /\ deleted'[u] <=> deleted'[next[u]]
    BY <1>1, <1>3, <2>1 DEF RingAt
  <2> QED
    BY <1>3, <2>1, <2>2 DEF RingAt, Exists
<1>7. ObjectsSound'
  <2> SUFFICES ASSUME NEW p \in Location, objects'[p] # NULL
      PROVE  /\ st'[objects'[p]] # "free" /\ ptr'[objects'[p]] = p
             /\ ~deleted'[objects'[p]]
    BY Zenon DEF ObjectsSound, Exists
  <2>1. p # ptr[w] /\ objects'[p] = objects[p] /\ objects[p] \in Proxy
    BY <1>2, <1>3 DEF IInv, TypeOK
  <2>2. Exists(objects[p]) /\ ptr[objects[p]] = p /\ ~deleted[objects[p]]
    BY <2>1 DEF IInv, ObjectsSound
  <2>3. objects[p] \notin M
    BY <1>1, <2>1, <2>2
  <2>4. ptr'[objects[p]] = p /\ ~deleted'[objects[p]]
    BY <1>3, <2>1, <2>2, <2>3
  <2> QED
    BY <1>3, <2>1, <2>2, <2>4 DEF Exists
<1> QED
  BY <1>4, <1>5, <1>6, <1>7 DEF IInv

-----------------------------------------------------------------------------
(***************************************************************************)
(* lg_object_gc.                                                           *)
(***************************************************************************)
LEMMA UnrefOK ==
  ASSUME IInv, NEW w \in Proxy, Exists(w), Unref(w)
  PROVE  HeapType' /\ HeapOK' /\ fault' \in BOOLEAN
<1>1. CASE deleted[w]
  BY <1>1 DEF Unref, heapVars, IInv, TypeOK, HeapType, HeapOK
<1>2. CASE ~deleted[w]
  <2>1. ptr[w] \in Location /\ mm[w] \in MMType
    BY <1>2 DEF IInv, AddressOK, TypeOK
  <2>2. /\ SetObject(ptr[w], Released(mm[w], ptr[w]))
        /\ fault' = (mm[w] # "plain" /\ class[ptr[w]] = NULL)
    BY <1>2 DEF Unref
  <2>3. HeapType' /\ HeapOK'
    BY <2>1, <2>2, ReleasedGood, SetObjectOK DEF IInv, TypeOK, HeapType
  <2> QED
    BY <2>2, <2>3
<1> QED
  BY <1>1, <1>2

(* _alias_unlink: w leaves its ring, which stays a ring. *)
LEMMA UnlinkedRing ==
  ASSUME IInv, NEW w \in Proxy, next[w] # NULL
  PROVE  LET b == Before(w)
         IN  /\ b \in Proxy /\ b # w /\ next[b] = w /\ RingAt(b)
             /\ Unlinked(w) \in [Proxy -> Proxy \cup {NULL}]
             /\ Unlinked(w)[w] = NULL
             /\ Unlinked(w)[b] = IF next[w] = b THEN NULL ELSE next[w]
             /\ \A u \in Proxy : u # w /\ u # b => Unlinked(w)[u] = next[u]
<1> DEFINE b == Before(w)
<1>1. RingAt(w) /\ next[w] \in Proxy
  BY RingParts DEF IInv, TypeOK
<1>2. b \in Proxy /\ next[b] = w
  BY <1>1 DEF Before, RingAt
<1>3. RingAt(b) /\ b # w
  BY <1>2, NullFact, RingParts DEF IInv, RingAt
<1> HIDE DEF b
<1>4. Unlinked(w) = [next EXCEPT ![b] = IF next[w] = b THEN NULL ELSE next[w],
                                 ![w] = NULL]
  BY DEF Unlinked, b
<1>5. next \in [Proxy -> Proxy \cup {NULL}]
  BY DEF IInv, TypeOK
<1> QED
  BY <1>1, <1>2, <1>3, <1>4, <1>5 DEF b

LEMMA FinalizeOK ==
  ASSUME IInv, NEW w \in Proxy, Finalize(w)
  PROVE  IInv'
<1> DEFINE b == Before(w)
<1>1. /\ st[w] = "doomed"
      /\ next'    = Unlinked(w)
      /\ objects' = Removed(w, PassedOn(w))
      /\ Unref(w)
      /\ st'      = [st      EXCEPT ![w] = "free"]
      /\ ptr'     = [ptr     EXCEPT ![w] = NULL]
      /\ ts'      = [ts      EXCEPT ![w] = NULL]
      /\ mm'      = [mm      EXCEPT ![w] = "plain"]
      /\ deleted' = [deleted EXCEPT ![w] = FALSE]
  BY DEF Finalize
<1>2. HeapType' /\ HeapOK' /\ fault' \in BOOLEAN
  BY <1>1, UnrefOK DEF Exists
<1>3. /\ st'[w] = "free" /\ ptr'[w] = NULL /\ ~deleted'[w]
      /\ \A u \in Proxy : u # w => st'[u] = st[u] /\ ptr'[u] = ptr[u]
                                  /\ (deleted'[u] <=> deleted[u])
  BY <1>1 DEF IInv, TypeOK
<1>4. \A u \in Proxy : next[u] # NULL => RingAt(u) /\ next[u] \in Proxy
  BY RingParts DEF IInv, TypeOK
<1>5. \A p \in Location : objects[p] # NULL =>
        /\ objects[p] \in Proxy /\ st[objects[p]] # "free"
        /\ ptr[objects[p]] = p /\ ~deleted[objects[p]]
  BY DEF IInv, TypeOK, ObjectsSound, Exists
<1>6. ptr[w] # NULL => ptr[w] \in Location
  BY DEF IInv, TypeOK
(* What becomes of the ring and of objects. *)
<1>7. /\ next' \in [Proxy -> Proxy \cup {NULL}]
      /\ next'[w] = NULL
      /\ \A u \in Proxy : next'[u] # NULL => RingAt(u)'
      /\ \A u \in Proxy : next[u] = NULL => next'[u] = NULL
  <2>1. CASE next[w] = NULL
    <3>1. next' = next
      BY <1>1, <2>1 DEF Unlinked
    <3> SUFFICES ASSUME NEW u \in Proxy, next[u] # NULL
        PROVE  RingAt(u)'
      BY <3>1, <2>1 DEF IInv, TypeOK
    <3>2. RingAt(u) /\ u # w /\ next[u] # w /\ next[u] \in Proxy
      BY <1>4, <2>1 DEF RingAt
    <3> QED
      BY <1>3, <3>1, <3>2 DEF RingAt, Exists
  <2>2. CASE next[w] # NULL
    <3>1. /\ b \in Proxy /\ b # w /\ next[b] = w /\ RingAt(b)
          /\ next' \in [Proxy -> Proxy \cup {NULL}]
          /\ next'[w] = NULL
          /\ next'[b] = IF next[w] = b THEN NULL ELSE next[w]
          /\ \A u \in Proxy : u # w /\ u # b => next'[u] = next[u]
      BY <1>1, <2>2, UnlinkedRing
    <3>2. RingAt(w) /\ next[w] \in Proxy
      BY <1>4, <2>2
    <3> HIDE DEF b
    <3> SUFFICES ASSUME NEW u \in Proxy, next'[u] # NULL
        PROVE  RingAt(u)'
      BY <3>1, NullFact
    <3>3. CASE u = b
      <4>1. next[w] # b /\ next'[b] = next[w] /\ next[w] # w
        BY <3>1, <3>2, <3>3 DEF RingAt
      <4>2. next'[next[w]] # NULL
        BY <3>1, <3>2, <4>1 DEF RingAt
      <4>3. \A v \in Proxy : next'[v] = next[w] => v = b
        BY <3>1, <3>2, NullFact DEF RingAt
      <4>4. PICK v \in Proxy : next[v] = b
        BY <3>1 DEF RingAt
      <4>5. next'[v] = b
        BY <3>1, <4>1, <4>4
      <4>6. /\ st'[b] # "free" /\ st'[next[w]] # "free"
            /\ ptr'[b] = ptr'[next[w]] /\ (deleted'[b] <=> deleted'[next[w]])
        BY <1>3, <3>1, <3>2, <4>1 DEF RingAt, Exists
      <4> QED
        BY <3>1, <3>3, <4>1, <4>2, <4>3, <4>5, <4>6 DEF RingAt, Exists
    <3>4. CASE u # b
      <4>1. u # w /\ next'[u] = next[u] /\ RingAt(u) /\ next[u] \in Proxy
        BY <1>4, <3>1, <3>4
      <4>2. next[u] # w
        BY <3>1, <3>2, <3>4, <4>1 DEF RingAt
      <4>3. next'[next[u]] # NULL
        BY <3>1, <3>2, <4>1, <4>2, NullFact DEF RingAt
      <4>4. \A v \in Proxy : next'[v] = next[u] => v = u
        <5> SUFFICES ASSUME NEW v \in Proxy, next'[v] = next[u]
            PROVE  v = u
          OBVIOUS
        <5>1. CASE v = b
          BY <3>1, <3>2, <4>1, <5>1, NullFact DEF RingAt
        <5>2. CASE v # b
          BY <3>1, <4>1, <5>2, NullFact DEF RingAt
        <5> QED
          BY <5>1, <5>2
      <4>5. \E v \in Proxy : next'[v] = u
        <5>1. PICK v \in Proxy : next[v] = u
          BY <4>1 DEF RingAt
        <5>2. CASE v = w
          BY <3>1, <3>4, <5>1, <5>2
        <5>3. CASE v # w
          BY <3>1, <4>1, <5>1, <5>3
        <5> QED
          BY <5>2, <5>3
      <4>6. /\ st'[u] # "free" /\ st'[next[u]] # "free"
            /\ ptr'[u] = ptr'[next[u]] /\ (deleted'[u] <=> deleted'[next[u]])
        BY <1>3, <4>1, <4>2 DEF RingAt, Exists
      <4> QED
        BY <4>1, <4>2, <4>3, <4>4, <4>5, <4>6 DEF RingAt, Exists
    <3> QED
      BY <3>3, <3>4
  <2> QED
    BY <2>1, <2>2
<1>8. /\ objects' \in [Location -> Proxy \cup {NULL}]
      /\ \A p \in Location : objects'[p] # NULL =>
           /\ objects'[p] # w /\ st[objects'[p]] # "free"
           /\ ptr[objects'[p]] = p /\ ~deleted[objects'[p]]
  <2>1. CASE next[w] = NULL
    <3>1. PassedOn(w) = objects
      BY <2>1 DEF PassedOn
    <3> QED
      BY <1>1, <1>5, <1>6, <3>1, NullFact DEF Removed, IInv, TypeOK
  <2>2. CASE next[w] # NULL
    <3>1. /\ b \in Proxy /\ b # w /\ RingAt(b)
          /\ ptr[b] = ptr[w] /\ (deleted[b] <=> deleted[w]) /\ Exists(b)
      BY <2>2, UnlinkedRing DEF RingAt
    <3>2. CASE ptr[w] # NULL /\ objects[ptr[w]] = w
      <4>1. PassedOn(w) = [objects EXCEPT ![ptr[w]] = b]
        BY <2>2, <3>1, <3>2 DEF PassedOn
      <4>2. objects' = [objects EXCEPT ![ptr[w]] = b]
        BY <1>1, <1>6, <3>1, <3>2, <4>1 DEF Removed, IInv, TypeOK
      <4>3. ~deleted[b] /\ ptr[b] = ptr[w] /\ st[b] # "free"
        <5>1. ~deleted[w]
          BY <1>5, <1>6, <3>2, NullFact
        <5> QED
          BY <3>1, <5>1 DEF Exists
      <4> HIDE DEF b
      <4> QED
        BY <1>5, <1>6, <3>1, <3>2, <4>2, <4>3 DEF IInv, TypeOK
    <3>3. CASE ~(ptr[w] # NULL /\ objects[ptr[w]] = w)
      <4>1. PassedOn(w) = objects
        BY <2>2, <3>1, <3>3 DEF PassedOn
      <4>2. objects' = objects
        BY <1>1, <3>3, <4>1 DEF Removed
      <4> QED
        BY <1>5, <1>6, <3>3, <4>2, NullFact DEF IInv, TypeOK
    <3> QED
      BY <3>2, <3>3
  <2> QED
    BY <2>1, <2>2
<1>9. TypeOK'
  BY <1>1, <1>2, <1>7, <1>8 DEF IInv, TypeOK, HeapType, Status, MMType
<1>10. AddressOK'
  <2> SUFFICES ASSUME NEW u \in Proxy
      PROVE  /\ st'[u] # "free" /\ ~deleted'[u] => ptr'[u] \in Location
             /\ deleted'[u] => st'[u] # "free" /\ ptr'[u] = NULL
             /\ ~(st'[u] # "free") => ptr'[u] = NULL /\ next'[u] = NULL
    BY DEF AddressOK, Exists
  <2> QED
    BY <1>3, <1>7 DEF IInv, AddressOK, Exists
<1>11. RingOK'
  BY <1>7 DEF RingOK, RingAt, Exists
<1>12. ObjectsSound'
  <2> SUFFICES ASSUME NEW p \in Location, objects'[p] # NULL
      PROVE  /\ st'[objects'[p]] # "free" /\ ptr'[objects'[p]] = p
             /\ ~deleted'[objects'[p]]
    BY Zenon DEF ObjectsSound, Exists
  <2>1. objects'[p] \in Proxy
    BY <1>8
  <2> QED
    BY <1>3, <1>8, <2>1
<1> QED
  BY <1>2, <1>9, <1>10, <1>11, <1>12 DEF IInv

-----------------------------------------------------------------------------
(***************************************************************************)
(* The other steps.                                                        *)
(***************************************************************************)
(* A step of the library alone. *)
LEMMA HeapStep ==
  ASSUME IInv, NEW p, NEW h, GoodObject(h), SetObject(p, h),
         UNCHANGED <<proxyVars, objects, fault>>
  PROVE  IInv'
<1>1. HeapType' /\ HeapOK'
  BY SetObjectOK DEF IInv, TypeOK, HeapType
<1>2. UNCHANGED <<st, ptr, ts, mm, deleted, next, objects, fault>>
  BY DEF proxyVars
<1>3. st' \in [Proxy -> Status] /\ fault' \in BOOLEAN
      /\ \A u \in Proxy : Exists(u)' <=> Exists(u)
  BY <1>2 DEF IInv, TypeOK, Exists
<1> QED
  BY <1>1, <1>2, <1>3, StatusStep

LEMMA NewObjectGood ==
  ASSUME NEW t \in Type, NEW n \in Nat, NEW f \in BOOLEAN
  PROVE  Existing([class |-> t, rc |-> 1, cref |-> n, floating |-> f])
BY NullFact DEF Existing, GoodObject

LEMMA ObjectAtExisting ==
  ASSUME IInv, NEW p \in Location, class[p] # NULL
  PROVE  Existing(ObjectAt(p))
<1>1. GoodObject(ObjectAt(p))
  BY ObjectAtGood DEF IInv, TypeOK, HeapType
<1> QED
  BY <1>1 DEF Existing, ObjectAt, Object

LEMMA BirthType ==
  ASSUME NEW kind, NEW b \in Births(kind)
  PROVE  b.cref \in Nat /\ b.floating \in BOOLEAN
<1> DEFINE B == {Birth({"NEW"}, 0, FALSE), Birth({"NOINCREF"}, 0, FALSE),
                 Birth({"NEW"}, 0, TRUE), Birth({"NEW"}, 1, FALSE),
                 Birth({"NEW", "ALLOCATED"}, 0, FALSE),
                 Birth({"NEW", "ARRAY"}, 0, FALSE)}
<1>1. Births(kind) \subseteq B
  <2>1. CASE kind = "gobject"
    BY <2>1 DEF Births
  <2>2. CASE kind = "unowned"
    BY <2>2 DEF Births
  <2>3. CASE kind = "struct"
    BY <2>3 DEF Births
  <2>4. CASE kind \notin {"gobject", "unowned", "struct"}
    BY <2>4 DEF Births
  <2> QED
    BY <2>1, <2>2, <2>3, <2>4
<1>2. \A f, n, x : Birth(f, n, x).cref = n /\ Birth(f, n, x).floating = x
  BY DEF Birth
<1>3. b \in B
  BY <1>1
<1>4. \E f : \E n \in {0, 1} : \E x \in BOOLEAN : b = Birth(f, n, x)
  BY <1>3, Zenon
<1> QED
  BY <1>2, <1>4

LEMMA LuaNewOK ==
  ASSUME IInv, NEW p \in Addr, NEW t \in Type, NEW b \in Births(KindOf[t]),
         LuaNew(p, t, b)
  PROVE  IInv'
<1>1. b.cref \in Nat /\ b.floating \in BOOLEAN
  BY BirthType
<1>2. Existing([class |-> t, rc |-> 1, cref |-> b.cref, floating |-> b.floating])
  BY <1>1, NewObjectGood
<1> QED
  BY <1>2, GetObjectOK DEF LuaNew, Location

LEMMA GetOK ==
  ASSUME IInv, NEW p \in Location, NEW want \in Type \cup {Detect}, NEW flags,
         Get(p, want, flags)
  PROVE  IInv'
BY ObjectAtExisting, GetObjectOK DEF Get

LEMMA DropOK ==
  ASSUME IInv, NEW w \in Proxy, Drop(w)
  PROVE  IInv'
<1>1. st' \in [Proxy -> Status] /\ \A u \in Proxy : Exists(u)' <=> Exists(u)
  BY DEF Drop, IInv, TypeOK, Status, Exists
<1>2. HeapType' /\ HeapOK' /\ fault' \in BOOLEAN
  BY DEF Drop, IInv, TypeOK, HeapType, HeapOK, heapVars
<1> QED
  BY <1>1, <1>2, StatusStep DEF Drop

LEMMA CollectOK ==
  ASSUME IInv, NEW D \in SUBSET Proxy, Collect(D)
  PROVE  IInv'
<1>1. st' \in [Proxy -> Status] /\ \A u \in Proxy : Exists(u)' <=> Exists(u)
  BY DEF Collect, IInv, TypeOK, Status, Exists
<1>2. HeapType' /\ HeapOK' /\ fault' \in BOOLEAN
  BY DEF Collect, IInv, TypeOK, HeapType, HeapOK, heapVars
<1> QED
  BY <1>1, <1>2, StatusStep DEF Collect

LEMMA DestroyOK ==
  ASSUME IInv, NEW w \in Proxy, Destroy(w)
  PROVE  IInv'
<1>1. Exists(w) /\ ~deleted[w]
  BY DEF Destroy, Exists, IInv, AddressOK
<1>2. HeapType' /\ HeapOK' /\ fault' \in BOOLEAN
  BY <1>1, UnrefOK DEF Destroy
<1> QED
  BY <1>1, <1>2, InvalidateOK DEF Destroy

LEMMA FreeOverrideOK ==
  ASSUME IInv, NEW w \in Proxy, FreeOverride(w)
  PROVE  IInv'
<1>1. Exists(w) /\ ~deleted[w]
  BY NullFact DEF FreeOverride, Exists, IInv, AddressOK, Location
<1>2. HeapType' /\ HeapOK'
  BY NoObjectGood, SetObjectOK DEF FreeOverride, IInv, TypeOK, HeapType
<1>3. fault' \in BOOLEAN
  BY DEF FreeOverride
<1> QED
  BY <1>1, <1>2, <1>3, InvalidateOK DEF FreeOverride

LEMMA LibOK ==
  ASSUME IInv, NEW p \in Location,
         (\E t \in Type : LibNew(p, t)) \/ LibRef(p) \/ LibUnref(p)
  PROVE  IInv'
<1>1. /\ class[p] \in Type \cup {NULL} /\ rc[p] \in Nat /\ cref[p] \in Nat
      /\ (class[p] = NULL <=> rc[p] = 0) /\ (class[p] = NULL => cref[p] = 0)
  BY DEF IInv, TypeOK, HeapOK
<1>2. CASE \E t \in Type : LibNew(p, t)
  <2>1. PICK t \in Type : LibNew(p, t)
    BY <1>2
  <2>2. GoodObject(Object(t, 1, 1))
    BY NullFact, ObjectGood
  <2> QED
    BY <2>1, <2>2, HeapStep DEF LibNew
<1>3. CASE LibRef(p)
  <2>1. GoodObject(Object(class[p], rc[p] + 1, cref[p] + 1))
    BY <1>1, <1>3, ObjectGood DEF LibRef
  <2> QED
    BY <1>3, <2>1, HeapStep DEF LibRef
<1>4. CASE LibUnref(p)
  <2> DEFINE h == IF rc[p] = 1 THEN NoObject
                  ELSE Object(class[p], rc[p] - 1, cref[p] - 1)
  <2>1. GoodObject(h)
    <3>1. CASE rc[p] = 1
      BY <3>1, NoObjectGood
    <3>2. CASE rc[p] # 1
      <4>1. rc[p] - 1 \in Nat \ {0} /\ cref[p] - 1 \in Nat /\ class[p] # NULL
        BY <1>1, <1>4, <3>2 DEF LibUnref
      <4> QED
        BY <1>1, <3>2, <4>1, ObjectGood
    <3> QED
      BY <3>1, <3>2
  <2> QED
    BY <1>4, <2>1, HeapStep DEF LibUnref
<1> QED
  BY <1>2, <1>3, <1>4

LEMMA InitOK == Init => IInv
<1> SUFFICES ASSUME Init PROVE IInv
  OBVIOUS
<1>1. TypeOK
  BY DEF Init, TypeOK, Status, MMType
<1>2. HeapOK /\ AddressOK /\ RingOK /\ ObjectsSound
  BY DEF Init, HeapOK, AddressOK, RingOK, ObjectsSound, Exists
<1> QED
  BY <1>1, <1>2 DEF IInv

LEMMA NextOK == IInv /\ [Next]_vars => IInv'
<1> SUFFICES ASSUME IInv, [Next]_vars PROVE IInv'
  OBVIOUS
<1>1. CASE UNCHANGED vars
  BY <1>1 DEF vars, proxyVars, heapVars, IInv, TypeOK, HeapOK, AddressOK, RingOK,
     ObjectsSound, Exists
<1>2. ASSUME NEW p \in Addr, NEW t \in Type, NEW b \in Births(KindOf[t]),
             LuaNew(p, t, b)
      PROVE  IInv'
  BY <1>2, LuaNewOK
<1>3. ASSUME NEW p \in Location, NEW want \in Type \cup {Detect},
             Get(p, want, {"NOT_NEW"}) \/ Get(p, want, {"CONST"})
      PROVE  IInv'
  BY <1>3, GetOK
<1>4. ASSUME NEW w \in Proxy, Drop(w) \/ Finalize(w) \/ Destroy(w) \/ FreeOverride(w)
      PROVE  IInv'
  BY <1>4, DropOK, FinalizeOK, DestroyOK, FreeOverrideOK
<1>5. ASSUME NEW D \in SUBSET Proxy, Collect(D)
      PROVE  IInv'
  BY <1>5, CollectOK
<1>6. ASSUME NEW p \in Location,
             (\E t \in Type : LibNew(p, t)) \/ LibRef(p) \/ LibUnref(p)
      PROVE  IInv'
  BY <1>6, LibOK
<1> QED
  BY <1>1, <1>2, <1>3, <1>4, <1>5, <1>6 DEF Next, GetConst

LEMMA Invariance == Spec => []IInv
BY InitOK, NextOK, PTL DEF Spec

-----------------------------------------------------------------------------
(* The state consists of the values the code can put there: in particular  *)
(* lg_guess_object_type always finds a handler, _alias_unlink a            *)
(* predecessor, and no counter drops below zero.                           *)
THEOREM TypeCorrect == Spec => []TypeOK
<1>1. IInv => TypeOK
  BY DEF IInv
<1> QED
  BY <1>1, Invariance, PTL

(* The alias rings stay closed and each with one object, whatever the order *)
(* in which proxies are made, collected, finalized and destroyed.          *)
THEOREM RingsClosed == Spec => []RingOK
<1>1. IInv => RingOK
  BY DEF IInv
<1> QED
  BY <1>1, Invariance, PTL

(* gnome.objects leads to proxies that exist and stand for that address.   *)
THEOREM TableSound == Spec => []ObjectsSound
<1>1. IInv => ObjectsSound
  BY DEF IInv
<1> QED
  BY <1>1, Invariance, PTL

-----------------------------------------------------------------------------
(***************************************************************************)
(* Who gives what back.  Counted proxies give back a reference, those of   *)
(* blocks of memory the object itself.                                     *)
(***************************************************************************)
LEMMA GuessedIsBest ==
  ASSUME NEW kind, NEW flags, NEW p
  PROVE  \E i \in 1..7 : /\ GuessType(kind, flags, p \in Stack) = MMTypes[i]
                         /\ Best(Scores(kind, flags, p \in Stack), i)
<1> DEFINE onStack == p \in Stack
<1>1. onStack \in BOOLEAN
  OBVIOUS
<1> HIDE DEF onStack
<1>2. \E i \in 1..7 : Best(Scores(kind, flags, onStack), i)
  BY <1>1, ScoresType, BestExists
<1>3. \E i \in 1..7 : /\ GuessType(kind, flags, onStack) = MMTypes[i]
                      /\ Best(Scores(kind, flags, onStack), i)
  BY <1>2 DEF GuessType
<1> QED BY <1>3 DEF onStack

LEMMA GuessedKind ==
  ASSUME NEW kind, NEW flags, NEW p,
         NEW m, m = GuessType(kind, flags, p \in Stack)
  PROVE  /\ m = "gobject" => kind = "gobject"
         /\ m = "unowned" => kind = "unowned"
         /\ m = "loop" => kind = "loop"
         /\ m = "channel" => kind = "channel"
         /\ m = "malloc" => "NEW" \in flags
         /\ m = "array" => "ARRAY" \in flags
         /\ m = "malloc" /\ "ALLOCATED" \notin flags =>
              kind \notin {"gobject", "unowned"}
         /\ m = "malloc" => kind \notin {"loop", "channel", "slist"}
<1>1. PICK i \in 1..7 : m = MMTypes[i] /\ Best(Scores(kind, flags, p \in Stack), i)
  BY GuessedIsBest
<1> DEFINE s == Scores(kind, flags, p \in Stack)
<1>2. \A j \in 1..7 : s[i] > s[j] \/ (s[i] = s[j] /\ i <= j)
  BY <1>1 DEF Best
<1>3. /\ s[1] = PlainScore(kind, flags, p \in Stack)
      /\ s[2] = MallocScore(flags)
      /\ s[3] = ArrayScore(flags)
      /\ s[4] = ChannelScore(kind)
      /\ s[5] = GObjectScore(kind, flags)
      /\ s[6] = UnownedScore(kind, flags)
      /\ s[7] = LoopScore(kind)
  BY DEF Scores
<1>4. s[1] \in Int /\ s[1] > 0
  BY <1>3 DEF PlainScore
<1> HIDE DEF s
<1>5. CASE i = 1
  BY <1>1, <1>5 DEF MMTypes
<1>6. CASE i = 2
  BY <1>1, <1>2, <1>3, <1>4, <1>6
     DEF MMTypes, MallocScore, GObjectScore, UnownedScore, LoopScore, ChannelScore, PlainScore
<1>7. CASE i = 3
  BY <1>1, <1>2, <1>3, <1>4, <1>7 DEF MMTypes, ArrayScore
<1>8. CASE i = 4
  BY <1>1, <1>2, <1>3, <1>4, <1>8 DEF MMTypes, ChannelScore
<1>9. CASE i = 5
  BY <1>1, <1>2, <1>3, <1>4, <1>9 DEF MMTypes, GObjectScore, UnownedScore
<1>10. CASE i = 6
  BY <1>1, <1>2, <1>3, <1>4, <1>10 DEF MMTypes, UnownedScore
<1>11. CASE i = 7
  BY <1>1, <1>2, <1>3, <1>4, <1>11 DEF MMTypes, LoopScore
<1> QED
  BY <1>5, <1>6, <1>7, <1>8, <1>9, <1>10, <1>11

(* A GObject that is neither part of an array nor const gets a handler that *)
(* counts.                                                                 *)
LEMMA GuessedCounts ==
  ASSUME NEW kind \in {"gobject", "unowned"}, NEW flags, NEW p,
         flags \cap {"ALLOCATED", "ARRAY", "ARRAY_ELEMENT", "CONST"} = {}
  PROVE  GuessType(kind, flags, p \in Stack) = kind
<1>1. PICK i \in 1..7 : /\ GuessType(kind, flags, p \in Stack) = MMTypes[i]
                        /\ Best(Scores(kind, flags, p \in Stack), i)
  BY GuessedIsBest
<1> DEFINE s == Scores(kind, flags, p \in Stack)
<1>2. \A j \in 1..7 : s[i] > s[j] \/ (s[i] = s[j] /\ i <= j)
  BY <1>1 DEF Best
<1>3. /\ s[1] \in {2, 5} /\ s[2] \in {0, 3} /\ s[3] = 0 /\ s[4] = 0 /\ s[5] = 100
      /\ s[6] = IF kind = "unowned" THEN 103 ELSE 0
      /\ s[7] = 0
  BY DEF Scores, PlainScore, MallocScore, ArrayScore, ChannelScore, GObjectScore,
         UnownedScore, LoopScore
<1> HIDE DEF s
<1>4. i = IF kind = "unowned" THEN 6 ELSE 5
  BY <1>2, <1>3
<1> QED
  BY <1>1, <1>4 DEF MMTypes

(* The proxies that will free the block of memory at p. *)
Freers(p) ==
  {w \in Proxy : Exists(w) /\ ~deleted[w] /\ ptr[w] = p /\ mm[w] \in Freeing}

(* An object of class c with n references, k of them the library's, whose   *)
(* proxies O give back a reference each and F the memory.                  *)
BackedBy(c, n, k, O, F) ==
  /\ n >= k + Cardinality(O)
  /\ O # {} => KindOf[c] \in Counted
  /\ F # {} => c # NULL /\ k = 0 /\ KindOf[c] \notin Counted
  /\ \A v, w \in F : v = w

Backed ==
  \A p \in Location : BackedBy(class[p], rc[p], cref[p], Owners(p), Freers(p))

NoChannels == \A t \in Type : KindOf[t] # "channel"

LEMMA OwnersFinite ==
  ASSUME NEW p
  PROVE  IsFiniteSet(Owners(p)) /\ Cardinality(Owners(p)) \in Nat
<1>1. Owners(p) \in SUBSET Proxy
  BY DEF Owners
<1>2. IsFiniteSet(Owners(p))
  BY <1>1, ProxyAssumption, FS_Subset
<1> QED
  BY <1>2, FS_CardinalityType

(* Less to give back does no harm. *)
LEMMA FewerBacked ==
  ASSUME NEW c, NEW n \in Nat, NEW k \in Nat, NEW O, NEW F, IsFiniteSet(O),
         BackedBy(c, n, k, O, F),
         NEW P \in SUBSET O, NEW G \in SUBSET F
  PROVE  BackedBy(c, n, k, P, G)
<1>1. Cardinality(P) <= Cardinality(O) /\ IsFiniteSet(P)
  BY FS_Subset
<1>2. Cardinality(P) \in Nat /\ Cardinality(O) \in Nat
  BY <1>1, FS_CardinalityType
<1> QED
  BY <1>1, <1>2 DEF BackedBy

(* No object, nothing to give back. *)
LEMMA NothingBacked == BackedBy(NULL, 0, 0, {}, {})
BY FS_EmptySet DEF BackedBy

LEMMA GoneIsUnused ==
  ASSUME IInv, Backed, NEW p \in Location, class[p] = NULL
  PROVE  Owners(p) = {} /\ Freers(p) = {} /\ rc[p] = 0 /\ cref[p] = 0
<1>1. rc[p] = 0 /\ cref[p] = 0
  BY DEF IInv, HeapOK
<1>2. BackedBy(class[p], rc[p], cref[p], Owners(p), Freers(p))
  BY DEF Backed
<1>3. Cardinality(Owners(p)) \in Nat /\ IsFiniteSet(Owners(p))
  BY OwnersFinite
<1>4. Cardinality(Owners(p)) = 0
  BY <1>1, <1>2, <1>3 DEF BackedBy
<1> QED
  BY <1>1, <1>2, <1>3, <1>4, FS_EmptySet DEF BackedBy

(* The object of a proxy that has something to give back is there. *)
LEMMA UsedIsThere ==
  ASSUME IInv, Backed, NEW w \in Proxy, Exists(w), ~deleted[w], mm[w] # "plain"
  PROVE  class[ptr[w]] # NULL
<1>1. ptr[w] \in Location /\ mm[w] \in MMType
  BY DEF IInv, AddressOK, TypeOK
<1>2. w \in Owners(ptr[w]) \/ w \in Freers(ptr[w])
  BY <1>1 DEF Owners, Freers, MMType, Counted, Freeing
<1> QED
  BY <1>1, <1>2, GoneIsUnused

(* The heap is as it was, and no proxy has more to give back. *)
LEMMA HeapKeeps ==
  ASSUME IInv, Backed, UNCHANGED heapVars,
         \A q \in Location : /\ Owners(q)' \subseteq Owners(q)
                             /\ Freers(q)' \subseteq Freers(q)
  PROVE  Backed'
<1> SUFFICES ASSUME NEW q \in Location
    PROVE  BackedBy(class'[q], rc'[q], cref'[q], Owners(q)', Freers(q)')
  BY DEF Backed
<1>1. /\ BackedBy(class[q], rc[q], cref[q], Owners(q), Freers(q))
      /\ rc[q] \in Nat /\ cref[q] \in Nat /\ IsFiniteSet(Owners(q))
      /\ class' = class /\ rc' = rc /\ cref' = cref
  BY OwnersFinite DEF Backed, IInv, TypeOK, heapVars
<1>2. BackedBy(class[q], rc[q], cref[q], Owners(q)', Freers(q)')
  BY <1>1, FewerBacked
<1> QED BY <1>1, <1>2

(* One object changes. *)
LEMMA ObjectKeeps ==
  ASSUME IInv, Backed, NEW p \in Location, NEW h, SetObject(p, h),
         \A q \in Location \ {p} : /\ Owners(q)' \subseteq Owners(q)
                                   /\ Freers(q)' \subseteq Freers(q),
         BackedBy(h.class, h.rc, h.cref, Owners(p)', Freers(p)')
  PROVE  Backed'
<1> SUFFICES ASSUME NEW q \in Location
    PROVE  BackedBy(class'[q], rc'[q], cref'[q], Owners(q)', Freers(q)')
  BY DEF Backed
<1>1. CASE q = p
  <2>1. class'[q] = h.class /\ rc'[q] = h.rc /\ cref'[q] = h.cref
    BY <1>1 DEF SetObject, IInv, TypeOK
  <2> QED BY <1>1, <2>1
<1>2. CASE q # p
  <2>1. /\ BackedBy(class[q], rc[q], cref[q], Owners(q), Freers(q))
        /\ rc[q] \in Nat /\ cref[q] \in Nat /\ IsFiniteSet(Owners(q))
    BY OwnersFinite DEF Backed, IInv, TypeOK
  <2>2. class'[q] = class[q] /\ rc'[q] = rc[q] /\ cref'[q] = cref[q]
    BY <1>2 DEF SetObject, IInv, TypeOK
  <2>3. BackedBy(class[q], rc[q], cref[q], Owners(q)', Freers(q)')
    BY <1>2, <2>1, FewerBacked
  <2> QED BY <2>2, <2>3
<1> QED BY <1>1, <1>2

(* The proxies have as much to give back as before. *)
LEMMA OwnersSame ==
  ASSUME \A u \in Proxy : Exists(u)' <=> Exists(u),
         UNCHANGED <<ptr, mm, deleted>>
  PROVE  \A q : Owners(q)' = Owners(q) /\ Freers(q)' = Freers(q)
BY DEF Owners, Freers

-----------------------------------------------------------------------------
(***************************************************************************)
(* lg_get_object adds a reference for each proxy that will give one back,  *)
(* or is handed one with a new object.                                     *)
(***************************************************************************)
HandedOver(p, want, flags, h) ==
  /\ KindOf[IF want = Detect THEN h.class ELSE want] = KindOf[h.class]
  /\ BackedBy(h.class, h.rc, h.cref, Owners(p), Freers(p))
  /\ \A m \in MMType : m = GuessType(KindOf[h.class], flags, p \in Stack) =>
       /\ m \in Counted =>
            /\ KindOf[h.class] \in Counted
            /\ h.rc + RefsAdded(m, flags, h.floating)
                 >= h.cref + Cardinality(Owners(p)) + 1
       /\ m \in Freeing =>
            Freers(p) = {} /\ KindOf[h.class] \notin Counted /\ h.cref = 0

(* The proxies of an address with a new one of memory type m. *)
LEMMA MadeOwners ==
  ASSUME IInv, NEW w \in Proxy, NEW p \in Location, NEW m,
         st[w] = "free",
         st' = [st EXCEPT ![w] = "live"],
         ptr' = [ptr EXCEPT ![w] = p],
         deleted' = [deleted EXCEPT ![w] = FALSE],
         mm' = [mm EXCEPT ![w] = m]
  PROVE  /\ w \notin Owners(p)
         /\ Owners(p)' = IF m \in Counted THEN Owners(p) \cup {w} ELSE Owners(p)
         /\ Freers(p)' = IF m \in Freeing THEN Freers(p) \cup {w} ELSE Freers(p)
         /\ \A q \in Location \ {p} :
              Owners(q)' = Owners(q) /\ Freers(q)' = Freers(q)
<1>1. /\ st'[w] = "live" /\ ptr'[w] = p /\ ~deleted'[w] /\ mm'[w] = m
      /\ \A u \in Proxy : u # w =>
           /\ st'[u] = st[u] /\ ptr'[u] = ptr[u] /\ mm'[u] = mm[u]
           /\ (deleted'[u] <=> deleted[u])
  BY DEF IInv, TypeOK
<1> QED BY <1>1 DEF Owners, Freers, Exists

LEMMA MakeObjectBacked ==
  ASSUME IInv, Backed, NEW w \in Proxy, NEW p \in Location,
         NEW want \in Type \cup {Detect}, NEW flags, NEW h, Existing(h),
         MakeObject(w, p, want, flags, h), HandedOver(p, want, flags, h)
  PROVE  Backed'
<1> DEFINE kind == KindOf[IF want = Detect THEN h.class ELSE want]
           m == GuessType(kind, flags, p \in Stack)
           n == RefsAdded(m, flags, h.floating)
<1>1. /\ m \in MMType /\ m = GuessType(KindOf[h.class], flags, p \in Stack)
  <2>1. (p \in Stack) \in BOOLEAN
    OBVIOUS
  <2>2. m \in MMType
    BY <2>1, GuessTypeType
  <2>3. kind = KindOf[h.class]
    BY DEF HandedOver
  <2> QED BY <2>2, <2>3
<1>2. n \in Nat
  BY RefsAddedType DEF Existing, GoodObject
<1>3. /\ st[w] = "free"
      /\ st' = [st EXCEPT ![w] = "live"]
      /\ ptr' = [ptr EXCEPT ![w] = p]
      /\ deleted' = [deleted EXCEPT ![w] = FALSE]
      /\ mm' = [mm EXCEPT ![w] = m]
      /\ SetObject(p, WithRefs(h, n))
  BY DEF MakeObject
<1>4. /\ BackedBy(h.class, h.rc, h.cref, Owners(p), Freers(p))
      /\ m \in Counted =>
           KindOf[h.class] \in Counted /\ h.rc + n >= h.cref + Cardinality(Owners(p)) + 1
      /\ m \in Freeing =>
           Freers(p) = {} /\ KindOf[h.class] \notin Counted /\ h.cref = 0
  BY <1>1 DEF HandedOver
<1> HIDE DEF m, n, kind
<1>5. h.rc \in Nat /\ h.cref \in Nat /\ h.class # NULL
  BY DEF Existing, GoodObject
<1>6. /\ w \notin Owners(p)
      /\ Owners(p)' = IF m \in Counted THEN Owners(p) \cup {w} ELSE Owners(p)
      /\ Freers(p)' = IF m \in Freeing THEN Freers(p) \cup {w} ELSE Freers(p)
      /\ \A q \in Location \ {p} : Owners(q)' = Owners(q) /\ Freers(q)' = Freers(q)
  BY <1>3, MadeOwners
<1>70. PICK O, F : O = Owners(p) /\ F = Freers(p)
  OBVIOUS
<1>7. PICK k \in Nat : /\ O = Owners(p) /\ F = Freers(p)
                       /\ IsFiniteSet(O) /\ k = Cardinality(O)
  BY <1>70, OwnersFinite
<1>8. BackedBy(h.class, h.rc + n, h.cref, Owners(p)', Freers(p)')
  <2>1. CASE m \in Counted
    <3>1. Owners(p)' = O \cup {w} /\ Freers(p)' = F
      BY <1>6, <1>7, <2>1 DEF Counted, Freeing
    <3>2. Cardinality(O \cup {w}) = k + 1
      BY <1>6, <1>7, FS_AddElement
    <3> QED BY <1>2, <1>4, <1>5, <1>7, <2>1, <3>1, <3>2 DEF BackedBy
  <2>2. CASE m \in Freeing
    <3>1. Owners(p)' = O /\ Freers(p)' = {w}
      BY <1>4, <1>6, <1>7, <2>2 DEF Counted, Freeing
    <3> QED BY <1>2, <1>4, <1>5, <1>7, <2>2, <3>1 DEF BackedBy
  <2>3. CASE m \notin Counted /\ m \notin Freeing
    <3>1. Owners(p)' = O /\ Freers(p)' = F
      BY <1>6, <1>7, <2>3
    <3> QED BY <1>2, <1>4, <1>5, <1>7, <3>1 DEF BackedBy
  <2> QED BY <2>1, <2>2, <2>3
<1>9. PICK g : g = WithRefs(h, n)
  OBVIOUS
<1>10. g.class = h.class /\ g.rc = h.rc + n /\ g.cref = h.cref
  BY <1>9 DEF WithRefs, Existing, GoodObject
<1> QED BY <1>3, <1>6, <1>8, <1>9, <1>10, ObjectKeeps

(* The walk of _find_alias stays with the object: the proxies it meets all  *)
(* have its address, and "should point to" is never reached.               *)
LEMMA SeenStay ==
  ASSUME IInv, NEW p \in Location, NEW o \in Proxy, objects[p] = o, NEW want
  PROVE  \A u \in Visited(o, p, want) : u \in Proxy /\ ptr[u] = p
<1> DEFINE S == {v \in Proxy : ptr[v] = p}
<1>1. o \in S
  BY NullFact DEF IInv, ObjectsSound
<1>2. \A v \in S : next[v] # NULL => next[v] \in S
  BY DEF IInv, TypeOK, RingOK
<1>3. S \in SUBSET Proxy
  OBVIOUS
<1> HIDE DEF S
<1>4. Visited(o, p, want) \subseteq S
  BY <1>1, <1>2, <1>3 DEF Visited, Walk
<1> QED BY <1>4 DEF S

LEMMA ReuseBacked ==
  ASSUME IInv, Backed, ~fault, NEW p \in Location, NEW want \in Type \cup {Detect},
         NEW flags, NEW h, Existing(h), NEW o \in Proxy, objects[p] = o, InAliases(o),
         Reuse(o, p, want, flags, h), HandedOver(p, want, flags \ {"NEW"}, h)
  PROVE  Backed' /\ ~fault'
<1> DEFINE seen  == Visited(o, p, want)
           wrong == {u \in seen : ptr[u] # p}
           found == {u \in seen : ptr[u] = p /\ Fits(u, want)
                                  /\ (u = o \/ InAliases(u))}
<1>1. \A u \in seen : u \in Proxy /\ ptr[u] = p
  BY SeenStay
<1>2. wrong = {}
  BY <1>1
<1>3. CASE found # {}
  <2>1. PICK u \in found :
          /\ st' = [st EXCEPT ![u] = "live"]
          /\ SetObject(p, h)
          /\ UNCHANGED <<ptr, ts, mm, deleted, next, objects, fault>>
    BY <1>2, <1>3 DEF Reuse
  <2>2. u \in Proxy /\ Exists(u)
    BY <1>1 DEF InAliases, Exists
  <2>3. \A v \in Proxy : Exists(v)' <=> Exists(v)
    BY <2>1, <2>2 DEF IInv, TypeOK, Exists
  <2>4. \A q : Owners(q)' = Owners(q) /\ Freers(q)' = Freers(q)
    BY <2>1, <2>3, OwnersSame
  <2>5. BackedBy(h.class, h.rc, h.cref, Owners(p), Freers(p))
    BY DEF HandedOver
  <2>6. Backed'
    BY <2>1, <2>4, <2>5, ObjectKeeps
  <2> QED BY <2>1, <2>6
<1>4. CASE found = {}
  <2>1. MakeAlias(o, p, want, flags, h)
    BY <1>2, <1>4 DEF Reuse
  <2>2. PICK w \in Proxy : MakeObject(w, p, want, flags \ {"NEW"}, h)
    BY <2>1 DEF MakeAlias
  <2>3. fault' = fault
    BY <2>1 DEF MakeAlias
  <2> QED BY <2>2, <2>3, MakeObjectBacked
<1> QED BY <1>3, <1>4

LEMMA GetObjectBacked ==
  ASSUME IInv, Backed, ~fault, NEW p \in Location, NEW want \in Type \cup {Detect},
         NEW flags, NEW h, Existing(h), GetObject(p, want, flags, h),
         HandedOver(p, want, flags, h), HandedOver(p, want, flags \ {"NEW"}, h)
  PROVE  Backed' /\ ~fault'
<1>1. CASE objects[p] # NULL /\ InAliases(objects[p])
  BY <1>1, ReuseBacked DEF GetObject, IInv, TypeOK
<1>2. CASE ~(objects[p] # NULL /\ InAliases(objects[p]))
  <2>1. PICK w \in Proxy : MakeObject(w, p, want, flags, h) /\ UNCHANGED fault
    BY <1>2 DEF GetObject, MakeFirst
  <2> QED BY <2>1, MakeObjectBacked
<1> QED BY <1>1, <1>2

LEMMA GetHanded ==
  ASSUME IInv, Backed, NoChannels, NEW p \in Location, NEW want, class[p] # NULL,
         want \in Wanted(class[p]), NEW flags \in {{"NOT_NEW"}, {"CONST"}}
  PROVE  HandedOver(p, want, flags, ObjectAt(p))
<1> DEFINE h == ObjectAt(p)
           kind == KindOf[class[p]]
<1>1. /\ h.class = class[p] /\ h.rc = rc[p] /\ h.cref = cref[p] /\ ~h.floating
      /\ class[p] \in Type /\ rc[p] \in Nat /\ cref[p] \in Nat
  BY DEF ObjectAt, Object, IInv, TypeOK
<1>2. kind # "channel"
  BY <1>1 DEF NoChannels
<1>3. BackedBy(class[p], rc[p], cref[p], Owners(p), Freers(p))
  BY DEF Backed
<1>4. KindOf[IF want = Detect THEN class[p] ELSE want] = kind
  BY <1>1, ProxyAssumption DEF Wanted
<1>5. PICK k \in Nat : k = Cardinality(Owners(p)) /\ rc[p] >= cref[p] + k
  BY <1>3, OwnersFinite DEF BackedBy
<1>6. "NEW" \notin flags /\ "ARRAY" \notin flags /\ "NOINCREF" \notin flags
  OBVIOUS
<1>7. ASSUME NEW m \in MMType, m = GuessType(kind, flags, p \in Stack)
      PROVE  /\ m \notin Freeing
             /\ m \in Counted => kind \in Counted /\ RefsAdded(m, flags, h.floating) = 1
  <2>1. /\ m = "gobject" => kind = "gobject"
        /\ m = "unowned" => kind = "unowned"
        /\ m = "loop" => kind = "loop"
        /\ m = "channel" => kind = "channel"
        /\ m = "malloc" => "NEW" \in flags
        /\ m = "array" => "ARRAY" \in flags
    BY <1>7, GuessedKind
  <2>2. m \in Counted => m \in {"gobject", "unowned", "loop"}
    BY <1>2, <2>1 DEF Counted
  <2>3. m \in {"gobject", "unowned", "loop"} => RefsAdded(m, flags, h.floating) = 1
    BY <1>1, <1>6 DEF RefsAdded, RefSink
  <2> QED BY <1>6, <2>1, <2>2, <2>3 DEF Counted, Freeing
<1> HIDE DEF h, kind
<1>8. ASSUME NEW m \in MMType, m = GuessType(KindOf[h.class], flags, p \in Stack)
      PROVE  /\ m \in Counted =>
                  /\ KindOf[h.class] \in Counted
                  /\ h.rc + RefsAdded(m, flags, h.floating)
                       >= h.cref + Cardinality(Owners(p)) + 1
             /\ m \in Freeing =>
                  Freers(p) = {} /\ KindOf[h.class] \notin Counted /\ h.cref = 0
  BY <1>1, <1>5, <1>7, <1>8 DEF kind
<1>9. /\ KindOf[IF want = Detect THEN h.class ELSE want] = KindOf[h.class]
      /\ BackedBy(h.class, h.rc, h.cref, Owners(p), Freers(p))
  BY <1>1, <1>3, <1>4 DEF kind
<1>10. HandedOver(p, want, flags, h)
  BY <1>8, <1>9 DEF HandedOver
<1> QED BY <1>10 DEF h

LEMMA BirthsAre ==
  ASSUME NEW kind \in Kinds, NEW b \in Births(kind)
  PROVE  /\ b.cref = 0 \/ (b.cref = 1 /\ kind = "unowned" /\ b.flags = {"NEW"}
                                      /\ b.floating = FALSE)
         /\ "ALLOCATED" \in b.flags \/ "ARRAY" \in b.flags => kind = "struct"
<1>0. \A f, n, x : b = Birth(f, n, x) =>
                     b.flags = f /\ b.cref = n /\ b.floating = x
  BY DEF Birth
<1>1. CASE kind = "gobject"
  <2>1. \/ b = Birth({"NEW"}, 0, FALSE)
        \/ b = Birth({"NOINCREF"}, 0, FALSE)
    BY <1>1 DEF Births
  <2>2. b.cref = 0 /\ b.flags \in {{"NEW"}, {"NOINCREF"}}
    BY <1>0, <2>1, Zenon
  <2> QED BY <2>2
<1>2. CASE kind = "unowned"
  <2>1. \/ b = Birth({"NEW"}, 0, TRUE)
        \/ b = Birth({"NEW"}, 1, FALSE)
        \/ b = Birth({"NOINCREF"}, 0, FALSE)
    BY <1>2 DEF Births
  <2>2. /\ b.cref = 0 \/ (b.cref = 1 /\ b.flags = {"NEW"} /\ b.floating = FALSE)
        /\ b.flags \in {{"NEW"}, {"NOINCREF"}}
    BY <1>0, <2>1, Zenon
  <2> QED BY <1>2, <2>2
<1>3. CASE kind = "struct"
  <2>1. \/ b = Birth({"NEW"}, 0, FALSE)
        \/ b = Birth({"NEW", "ALLOCATED"}, 0, FALSE)
        \/ b = Birth({"NEW", "ARRAY"}, 0, FALSE)
    BY <1>3 DEF Births
  <2>2. b.cref = 0
    BY <1>0, <2>1, Zenon
  <2> QED BY <1>3, <2>2
<1>4. CASE kind \notin {"gobject", "unowned", "struct"}
  <2>1. \/ b = Birth({"NEW"}, 0, FALSE)
    BY <1>4 DEF Births
  <2>2. b.cref = 0 /\ b.flags = {"NEW"}
    BY <1>0, <2>1, Zenon
  <2> QED BY <2>2
<1> QED BY <1>1, <1>2, <1>3, <1>4

LEMMA NewHanded ==
  ASSUME IInv, Backed, NEW p \in Location, NEW t \in Type, class[p] = NULL,
         NEW b \in Births(KindOf[t]), NEW flags \in {b.flags, b.flags \ {"NEW"}}
  PROVE  HandedOver(p, t, flags, [class |-> t, rc |-> 1, cref |-> b.cref,
                                  floating |-> b.floating])
<1> DEFINE h == [class |-> t, rc |-> 1, cref |-> b.cref, floating |-> b.floating]
           kind == KindOf[t]
<1>1. kind \in Kinds /\ t # NULL
  BY ProxyAssumption
<1>2. /\ b.cref = 0 \/ (b.cref = 1 /\ kind = "unowned" /\ b.flags = {"NEW"}
                                   /\ b.floating = FALSE)
      /\ "ALLOCATED" \in b.flags \/ "ARRAY" \in b.flags => kind = "struct"
      /\ b.floating \in BOOLEAN
  BY <1>1, BirthsAre, BirthType
<1>3. Owners(p) = {} /\ Freers(p) = {} /\ Cardinality(Owners(p)) = 0
  BY GoneIsUnused, FS_EmptySet
<1>4. h.class = t /\ h.rc = 1 /\ h.cref = b.cref /\ h.floating = b.floating
  OBVIOUS
<1> HIDE DEF h
<1>5. ASSUME NEW m \in MMType, m = GuessType(kind, flags, p \in Stack)
      PROVE  /\ m \in Counted =>
                  kind \in Counted /\ 1 + RefsAdded(m, flags, b.floating) >= b.cref + 1
             /\ m \in Freeing => kind \notin Counted /\ b.cref = 0
  <2>0. /\ m = "gobject" => kind = "gobject"
        /\ m = "unowned" => kind = "unowned"
        /\ m = "loop" => kind = "loop"
        /\ m = "channel" => kind = "channel"
        /\ m = "array" => "ARRAY" \in flags
        /\ m = "malloc" /\ "ALLOCATED" \notin flags => kind \notin {"gobject", "unowned"}
        /\ m = "malloc" => kind \notin {"loop", "channel", "slist"}
    BY <1>5, GuessedKind
  <2>1. RefsAdded(m, flags, b.floating) \in Nat
    BY <1>2, RefsAddedType
  <2>2. CASE m \in Counted
    <3>1. kind \in Counted /\ m = kind
      BY <2>0, <2>2 DEF Counted
    <3>2. b.cref = 1 => RefsAdded(m, flags, b.floating) = 1
      BY <1>2, <3>1 DEF RefsAdded, RefSink
    <3>3. b.cref = 0 \/ b.cref = 1
      BY <1>2
    <3> QED BY <2>1, <2>2, <3>1, <3>2, <3>3 DEF Counted, Freeing
  <2>3. CASE m \in Freeing
    <3>1. kind \notin {"gobject", "unowned", "loop", "channel"}
      BY <1>2, <2>0, <2>3 DEF Freeing
    <3> QED BY <1>2, <2>3, <3>1 DEF Counted, Freeing
  <2> QED BY <2>2, <2>3
<1>6. BackedBy(t, 1, b.cref, Owners(p), Freers(p))
  BY <1>2, <1>3 DEF BackedBy
<1>7. KindOf[IF t = Detect THEN t ELSE t] = kind
  OBVIOUS
<1> HIDE DEF kind
<1>8. b.cref \in Nat
  BY <1>2
<1>9. HandedOver(p, t, flags, h)
  BY <1>1, <1>3, <1>4, <1>5, <1>6, <1>7, <1>8 DEF HandedOver, kind
<1> QED BY <1>9 DEF h

LEMMA LuaNewBacked ==
  ASSUME IInv, Backed, NEW p \in Addr, NEW t \in Type, NEW b \in Births(KindOf[t]),
         LuaNew(p, t, b)
  PROVE  Backed' /\ ~fault'
<1>1. b.cref \in Nat /\ b.floating \in BOOLEAN
  BY BirthType
<1>2. PICK h : h = [class |-> t, rc |-> 1, cref |-> b.cref, floating |-> b.floating]
  OBVIOUS
<1>3. Existing(h)
  BY <1>1, <1>2, NewObjectGood
<1>4. p \in Location /\ ~fault /\ class[p] = NULL /\ GetObject(p, t, b.flags, h)
  BY <1>2 DEF LuaNew, Location
<1>5. HandedOver(p, t, b.flags, h) /\ HandedOver(p, t, b.flags \ {"NEW"}, h)
  BY <1>2, <1>4, NewHanded
<1> QED BY <1>3, <1>4, <1>5, GetObjectBacked

LEMMA GetBacked ==
  ASSUME IInv, Backed, NoChannels, NEW p \in Location, NEW want \in Type \cup {Detect},
         NEW flags \in {{"NOT_NEW"}, {"CONST"}}, Get(p, want, flags)
  PROVE  Backed' /\ ~fault'
<1>1. /\ ~fault /\ class[p] # NULL /\ want \in Wanted(class[p])
      /\ GetObject(p, want, flags, ObjectAt(p))
  BY DEF Get
<1>2. Existing(ObjectAt(p))
  BY <1>1, ObjectAtExisting
<1>3. HandedOver(p, want, flags, ObjectAt(p)) /\ flags \ {"NEW"} = flags
  BY <1>1, GetHanded
<1>4. HandedOver(p, want, flags \ {"NEW"}, ObjectAt(p))
  BY <1>3, Zenon
<1> QED BY <1>1, <1>2, <1>3, <1>4, GetObjectBacked

-----------------------------------------------------------------------------
(***************************************************************************)
(* WIDGET_UNREF takes away what the proxy had to give back, with at least   *)
(* this proxy.                                                             *)
(***************************************************************************)
LEMMA UnrefBacked ==
  ASSUME IInv, Backed, ~fault, NEW w \in Proxy, Exists(w), ~deleted[w], Unref(w),
         \A q \in Location : /\ Owners(q)' \subseteq Owners(q) \ {w}
                             /\ Freers(q)' \subseteq Freers(q) \ {w}
  PROVE  Backed' /\ ~fault'
<1>1. PICK p \in Location : p = ptr[w]
  BY DEF IInv, AddressOK
<1>2. PICK h : h = Released(mm[w], p)
  OBVIOUS
<1>3. /\ SetObject(p, h)
      /\ fault' = (mm[w] # "plain" /\ class[p] = NULL)
  BY <1>1, <1>2 DEF Unref
<1>4. ~fault'
  BY <1>1, <1>3, UsedIsThere
<1>5. /\ BackedBy(class[p], rc[p], cref[p], Owners(p), Freers(p))
      /\ rc[p] \in Nat /\ cref[p] \in Nat
  BY DEF Backed, IInv, TypeOK
<1>60. PICK O, F : O = Owners(p) /\ F = Freers(p)
  OBVIOUS
<1>6. PICK c \in Nat : /\ O = Owners(p) /\ F = Freers(p)
                       /\ IsFiniteSet(O) /\ c = Cardinality(O)
  BY <1>60, OwnersFinite
<1>7. PICK P \in SUBSET O, G \in SUBSET F :
        /\ P = Owners(p)' /\ G = Freers(p)' /\ w \notin P /\ w \notin G
  BY <1>6
<1>8. /\ IsFiniteSet(P) /\ Cardinality(P) \in Nat
      /\ Cardinality(P) <= c /\ (w \in O => Cardinality(P) <= c - 1)
  <2>1. IsFiniteSet(P) /\ Cardinality(P) <= c /\ Cardinality(P) \in Nat
    BY <1>6, <1>7, FS_Subset, FS_CardinalityType
  <2>2. IsFiniteSet(O \ {w}) /\ (w \in O => Cardinality(O \ {w}) = c - 1)
    BY <1>6, FS_RemoveElement
  <2>3. P \in SUBSET (O \ {w})
    BY <1>7
  <2>4. Cardinality(P) <= Cardinality(O \ {w})
    BY <2>2, <2>3, FS_Subset
  <2> QED BY <2>1, <2>2, <2>4
<1>9. BackedBy(h.class, h.rc, h.cref, P, G)
  <2>1. CASE mm[w] = "plain"
    <3>1. h = Object(class[p], rc[p], cref[p])
      BY <1>2, <2>1 DEF Released, ObjectAt, Counted
    <3>2. h.class = class[p] /\ h.rc = rc[p] /\ h.cref = cref[p]
      BY <3>1 DEF Object
    <3> QED BY <1>5, <1>6, <1>7, <3>2, FewerBacked
  <2>2. CASE mm[w] \in Counted
    <3>1. w \in O
      BY <1>1, <1>6, <2>2 DEF Owners
    <3>2. F = {}
      BY <1>5, <1>6, <3>1 DEF BackedBy
    <3>3. CASE rc[p] > 1
      <4>1. h = Object(class[p], rc[p] - 1, cref[p])
        BY <1>2, <2>2, <3>3 DEF Released, Counted
      <4>2. h.class = class[p] /\ h.rc = rc[p] - 1 /\ h.cref = cref[p]
        BY <4>1 DEF Object
      <4> QED BY <1>5, <1>6, <1>7, <1>8, <3>1, <3>2, <4>2 DEF BackedBy
    <3>4. CASE ~(rc[p] > 1)
      <4>1. h = Object(NULL, 0, 0)
        BY <1>2, <2>2, <3>4 DEF Released, NoObject, Counted
      <4>2. h.class = NULL /\ h.rc = 0 /\ h.cref = 0
        BY <4>1 DEF Object
      <4>3. c <= 1
        BY <1>5, <1>6, <3>4 DEF BackedBy
      <4>4. Cardinality(P) = 0
        BY <1>6, <1>8, <3>1, <4>3
      <4>5. P = {} /\ G = {}
        BY <1>7, <1>8, <3>2, <4>4, FS_EmptySet
      <4> QED BY <4>2, <4>5, NothingBacked
    <3> QED BY <3>3, <3>4
  <2>3. CASE mm[w] \in Freeing
    <3>1. h = Object(NULL, 0, 0)
      BY <1>2, <2>3 DEF Released, NoObject, Counted, Freeing
    <3>2. h.class = NULL /\ h.rc = 0 /\ h.cref = 0
      BY <3>1 DEF Object
    <3>3. w \in F
      BY <1>1, <1>6, <2>3 DEF Freers
    <3>4. P = {} /\ G = {}
      BY <1>5, <1>6, <1>7, <3>3 DEF BackedBy
    <3> QED BY <3>2, <3>4, NothingBacked
  <2>4. mm[w] \in MMType
    BY DEF IInv, TypeOK
  <2> QED BY <2>1, <2>2, <2>3, <2>4 DEF MMType, Counted, Freeing
<1>10. Backed'
  BY <1>3, <1>7, <1>9, ObjectKeeps
<1> QED BY <1>4, <1>10

LEMMA FinalizeBacked ==
  ASSUME IInv, Backed, NEW w \in Proxy, Finalize(w)
  PROVE  Backed' /\ ~fault'
<1>1. /\ ~fault /\ Exists(w) /\ Unref(w)
      /\ st'      = [st      EXCEPT ![w] = "free"]
      /\ ptr'     = [ptr     EXCEPT ![w] = NULL]
      /\ mm'      = [mm      EXCEPT ![w] = "plain"]
      /\ deleted' = [deleted EXCEPT ![w] = FALSE]
  BY DEF Finalize, Exists
<1>2. /\ st'[w] = "free"
      /\ \A u \in Proxy : u # w =>
           /\ st'[u] = st[u] /\ ptr'[u] = ptr[u] /\ mm'[u] = mm[u]
           /\ (deleted'[u] <=> deleted[u])
  BY <1>1 DEF IInv, TypeOK
<1>3. \A q \in Location : /\ Owners(q)' \subseteq Owners(q) \ {w}
                          /\ Freers(q)' \subseteq Freers(q) \ {w}
  BY <1>2 DEF Owners, Freers, Exists
<1>4. CASE deleted[w]
  <2>1. UNCHANGED <<heapVars, fault>>
    BY <1>1, <1>4 DEF Unref
  <2> QED BY <1>1, <1>3, <2>1, HeapKeeps
<1>5. CASE ~deleted[w]
  BY <1>1, <1>3, <1>5, UnrefBacked
<1> QED BY <1>4, <1>5

LEMMA DestroyBacked ==
  ASSUME IInv, Backed, NEW w \in Proxy, Destroy(w)
  PROVE  Backed' /\ ~fault'
<1>1. /\ ~fault /\ Exists(w) /\ ~deleted[w] /\ Unref(w) /\ Invalidate(w, ptr[w])
  BY DEF Destroy, Exists, IInv, AddressOK
<1>2. w \in Invalidated(w)
  BY <1>1, InvalidatedRing
<1>3. /\ deleted'[w]
      /\ \A u \in Proxy : /\ ~deleted'[u] => ~deleted[u] /\ ptr'[u] = ptr[u]
                          /\ st'[u] = st[u] /\ mm'[u] = mm[u]
  BY <1>1, <1>2 DEF Invalidate
<1>4. \A q \in Location : /\ Owners(q)' \subseteq Owners(q) \ {w}
                          /\ Freers(q)' \subseteq Freers(q) \ {w}
  BY <1>3 DEF Owners, Freers, Exists
<1> QED BY <1>1, <1>4, UnrefBacked

(* A step of the library alone. *)
LEMMA LibBacked ==
  ASSUME IInv, Backed, NEW p \in Location,
         (\E t \in Type : LibNew(p, t)) \/ LibRef(p) \/ LibUnref(p)
  PROVE  Backed' /\ ~fault'
<1>1. ~fault /\ UNCHANGED <<proxyVars, fault>>
  BY DEF LibNew, LibRef, LibUnref
<1>2. \A q : Owners(q)' = Owners(q) /\ Freers(q)' = Freers(q)
  BY <1>1, OwnersSame DEF proxyVars, Exists
<1>30. PICK O, F : O = Owners(p) /\ F = Freers(p)
  OBVIOUS
<1>3. PICK c \in Nat : /\ O = Owners(p) /\ F = Freers(p)
                       /\ IsFiniteSet(O) /\ c = Cardinality(O)
  BY <1>30, OwnersFinite
<1>4. /\ BackedBy(class[p], rc[p], cref[p], O, F)
      /\ rc[p] \in Nat /\ cref[p] \in Nat /\ class[p] \in Type \cup {NULL}
  BY <1>3 DEF Backed, IInv, TypeOK
<1>5. \A x, n, k : /\ Object(x, n, k).class = x /\ Object(x, n, k).rc = n
                   /\ Object(x, n, k).cref = k
  BY DEF Object
<1>6. \E h : SetObject(p, h) /\ BackedBy(h.class, h.rc, h.cref, O, F)
  <2>1. ASSUME NEW t \in Type, LibNew(p, t)
        PROVE  \E h : SetObject(p, h) /\ BackedBy(h.class, h.rc, h.cref, O, F)
    <3>1. class[p] = NULL /\ SetObject(p, Object(t, 1, 1))
      BY <2>1 DEF LibNew
    <3>2. O = {} /\ F = {} /\ Cardinality(O) = 0
      BY <1>3, <3>1, GoneIsUnused, FS_EmptySet
    <3>3. BackedBy(t, 1, 1, O, F)
      BY <3>2 DEF BackedBy
    <3> QED BY <1>5, <3>1, <3>3
  <2>2. CASE LibRef(p)
    <3>1. /\ KindOf[class[p]] \in Counted
          /\ SetObject(p, Object(class[p], rc[p] + 1, cref[p] + 1))
      BY <2>2 DEF LibRef
    <3>2. BackedBy(class[p], rc[p] + 1, cref[p] + 1, O, F)
      BY <1>3, <1>4, <3>1 DEF BackedBy
    <3> QED BY <1>5, <3>1, <3>2
  <2>3. CASE LibUnref(p) /\ rc[p] = 1
    <3>1. cref[p] > 0 /\ SetObject(p, Object(NULL, 0, 0))
      BY <2>3 DEF LibUnref, NoObject
    <3>2. c = 0 /\ F = {}
      BY <1>3, <1>4, <2>3, <3>1 DEF BackedBy
    <3>3. O = {} /\ F = {}
      BY <1>3, <3>2, FS_EmptySet
    <3> QED BY <1>5, <3>1, <3>3, NothingBacked
  <2>4. CASE LibUnref(p) /\ rc[p] # 1
    <3>1. cref[p] > 0 /\ SetObject(p, Object(class[p], rc[p] - 1, cref[p] - 1))
      BY <2>4 DEF LibUnref
    <3>2. BackedBy(class[p], rc[p] - 1, cref[p] - 1, O, F)
      BY <1>3, <1>4, <3>1 DEF BackedBy
    <3> QED BY <1>5, <3>1, <3>2
  <2> QED BY <2>1, <2>2, <2>3, <2>4
<1>7. PICK h : SetObject(p, h) /\ BackedBy(h.class, h.rc, h.cref, O, F)
  BY <1>6
<1>8. Backed'
  BY <1>2, <1>3, <1>7, ObjectKeeps
<1> QED BY <1>1, <1>8

(* A step that changes nobody's address, nor who exists. *)
LEMMA StatusBacked ==
  ASSUME IInv, Backed, (\E w \in Proxy : Drop(w)) \/ (\E D \in SUBSET Proxy : Collect(D))
  PROVE  Backed' /\ ~fault'
<1>1. ~fault /\ UNCHANGED <<ptr, mm, deleted, heapVars, fault>>
  BY DEF Drop, Collect
<1>2. \A u \in Proxy : Exists(u)' <=> Exists(u)
  BY DEF Drop, Collect, Exists, IInv, TypeOK
<1>3. \A q : Owners(q)' = Owners(q) /\ Freers(q)' = Freers(q)
  BY <1>1, <1>2, OwnersSame
<1> QED BY <1>1, <1>3, HeapKeeps

-----------------------------------------------------------------------------
BackedInv == IInv /\ Backed /\ ~fault

LEMMA BackedInit == Init => BackedInv
<1> SUFFICES ASSUME Init PROVE BackedInv
  OBVIOUS
<1>1. \A p \in Location : Owners(p) = {} /\ Freers(p) = {}
  BY DEF Init, Owners, Freers, Exists
<1>2. \A p \in Location : class[p] = NULL /\ rc[p] = 0 /\ cref[p] = 0
  BY DEF Init
<1>3. Backed
  BY <1>1, <1>2, NothingBacked DEF Backed
<1> QED BY <1>3, InitOK DEF BackedInv, Init

LEMMA BackedNext ==
  ASSUME NoChannels, \A w \in Proxy : ~FreeOverride(w), BackedInv, [Next]_vars
  PROVE  BackedInv'
<1>1. IInv' /\ IInv /\ Backed /\ ~fault
  BY NextOK DEF BackedInv
<1>2. CASE UNCHANGED vars
  <2>1. \A q : Owners(q)' = Owners(q) /\ Freers(q)' = Freers(q)
    BY <1>2, OwnersSame DEF vars, proxyVars, Exists
  <2> QED BY <1>1, <1>2, <2>1, HeapKeeps DEF BackedInv, vars
<1>3. CASE Next
  <2>1. ASSUME NEW p \in Addr, NEW t \in Type, NEW b \in Births(KindOf[t]),
               LuaNew(p, t, b)
        PROVE  Backed' /\ ~fault'
    BY <1>1, <2>1, LuaNewBacked
  <2>2. ASSUME NEW p \in Location, NEW want \in Type \cup {Detect},
               Get(p, want, {"NOT_NEW"}) \/ Get(p, want, {"CONST"})
        PROVE  Backed' /\ ~fault'
    BY <1>1, <2>2, GetBacked
  <2>3. ASSUME NEW w \in Proxy, Drop(w) \/ Finalize(w) \/ Destroy(w) \/ FreeOverride(w)
        PROVE  Backed' /\ ~fault'
    BY <1>1, <2>3, StatusBacked, FinalizeBacked, DestroyBacked
  <2>4. ASSUME NEW D \in SUBSET Proxy, Collect(D)
        PROVE  Backed' /\ ~fault'
    BY <1>1, <2>4, StatusBacked
  <2>5. ASSUME NEW p \in Location,
               (\E t \in Type : LibNew(p, t)) \/ LibRef(p) \/ LibUnref(p)
        PROVE  Backed' /\ ~fault'
    BY <1>1, <2>5, LibBacked
  <2>6. Backed' /\ ~fault'
    BY <1>3, <2>1, <2>2, <2>3, <2>4, <2>5 DEF Next, GetConst
  <2> QED BY <1>1, <2>6 DEF BackedInv
<1> QED BY <1>2, <1>3

(* Nothing that is freed is used, if no structure is freed behind the back  *)
(* of a proxy (g_slist_free and the like) and no object is a GIOChannel,    *)
(* whose handler forgets references: whatever proxies, aliases and objects  *)
(* there are, whoever destroys them and in whatever order the collector    *)
(* calls finalizers (lg_object_gc, lg_destroy, _reuse_object).             *)
THEOREM NothingFreedIsUsed ==
  ASSUME NoChannels, "override" \notin Features
  PROVE  Spec => []NoFault
<1>1. BackedInv /\ [Next]_vars => BackedInv'
  BY BackedNext DEF FreeOverride
<1>2. BackedInv => NoFault
  BY DEF BackedInv, NoFault
<1> QED BY <1>1, <1>2, BackedInit, PTL DEF Spec

(* Each proxy of a counted object has a reference of its own, beside those  *)
(* of the library (lg_inc_refcount and lg_dec_refcount, object_types.c).    *)
THEOREM ReferencesCovered ==
  ASSUME NoChannels, "override" \notin Features
  PROVE  Spec => []RefsCovered
<1>1. BackedInv /\ [Next]_vars => BackedInv'
  BY BackedNext DEF FreeOverride
<1>2. BackedInv => RefsCovered
  <2> SUFFICES ASSUME BackedInv, NEW p \in Location, NEW w \in Owners(p)
      PROVE  Covered(w)
    BY DEF RefsCovered
  <2>1. ptr[w] = p
    BY DEF Owners
  <2>2. class[p] # NULL
    BY GoneIsUnused DEF BackedInv
  <2>3. rc[p] >= cref[p] + Cardinality(Owners(p))
    BY DEF BackedInv, Backed, BackedBy
  <2> QED BY <2>1, <2>2, <2>3 DEF Covered
<1> QED BY <1>1, <1>2, BackedInit, PTL DEF Spec

-----------------------------------------------------------------------------
(***************************************************************************)
(* Where all objects are GObjects and none is destroyed or handed out as   *)
(* const, counters are exact, and the proxies implement SharedObject.      *)
(***************************************************************************)
OnlyGObjects == \A t \in Type : KindOf[t] \in {"gobject", "unowned"}

AllCounted ==
  \A w \in Proxy : Exists(w) => ts[w] \in Type /\ ~deleted[w] /\ mm[w] \in Counted

Exact == \A p \in Location : rc[p] = cref[p] + Cardinality(Owners(p))

ExactInv == BackedInv /\ AllCounted /\ Exact

(* What a step does to the objects and those who hold them. *)
SameAt(q) ==
  /\ Owners(q)' = Owners(q)
  /\ class'[q] = class[q] /\ rc'[q] = rc[q] /\ cref'[q] = cref[q]

Same == \A q \in Location : SameAt(q)

OnlyAt(p, H, n, k) ==
  /\ \A q \in Location \ {p} : SameAt(q)
  /\ Owners(p)' = H /\ rc'[p] = n /\ cref'[p] = k

Appears(p, H, k) ==
  class[p] = NULL /\ k \in {0, 1} /\ OnlyAt(p, H, k + Cardinality(H), k)
Gains(p, w) ==
  /\ class[p] # NULL /\ w \notin Owners(p)
  /\ OnlyAt(p, Owners(p) \cup {w}, rc[p] + 1, cref[p])
Loses(p, w) ==
  w \in Owners(p) /\ OnlyAt(p, Owners(p) \ {w}, rc[p] - 1, cref[p])
LibGains(p) == class[p] # NULL /\ OnlyAt(p, Owners(p), rc[p] + 1, cref[p] + 1)
LibLoses(p) == cref[p] > 0 /\ OnlyAt(p, Owners(p), rc[p] - 1, cref[p] - 1)

Changes ==
  \/ Same
  \/ \E p \in Location :
       \/ \E H \in {{}} \cup {{w} : w \in Proxy}, k \in {0, 1} :
            (H # {} \/ k > 0) /\ Appears(p, H, k)
       \/ \E w \in Proxy : Gains(p, w) \/ Loses(p, w)
       \/ LibGains(p) \/ LibLoses(p)

(* The proxy _make_object makes of a GObject. *)
LEMMA MakeCounted ==
  ASSUME OnlyGObjects, ExactInv, NEW w \in Proxy, NEW p \in Location,
         NEW want \in Type \cup {Detect}, NEW h, Existing(h),
         NEW flags \in {{"NEW"}, {"NOINCREF"}, {"NOT_NEW"}},
         want = Detect \/ KindOf[want] = KindOf[h.class],
         MakeObject(w, p, want, flags, h)
  PROVE  /\ AllCounted'
         /\ w \notin Owners(p)
         /\ OnlyAt(p, Owners(p) \cup {w},
                   h.rc + RefsAdded(KindOf[h.class], flags, h.floating), h.cref)
<1> DEFINE t == IF want = Detect THEN h.class ELSE want
           m == GuessType(KindOf[t], flags, p \in Stack)
<1>1. t \in Type /\ KindOf[t] = KindOf[h.class]
  BY DEF Existing, GoodObject
<1>2. m = KindOf[h.class] /\ m \in Counted
  <2>1. KindOf[t] \in {"gobject", "unowned"}
    BY <1>1 DEF OnlyGObjects
  <2>2. flags \cap {"ALLOCATED", "ARRAY", "ARRAY_ELEMENT", "CONST"} = {}
    OBVIOUS
  <2>3. m = KindOf[t]
    BY <2>1, <2>2, GuessedCounts
  <2> QED BY <1>1, <2>1, <2>3 DEF Counted
<1>3. /\ st[w] = "free"
      /\ st' = [st EXCEPT ![w] = "live"]
      /\ ptr' = [ptr EXCEPT ![w] = p]
      /\ ts' = [ts EXCEPT ![w] = t]
      /\ deleted' = [deleted EXCEPT ![w] = FALSE]
      /\ mm' = [mm EXCEPT ![w] = m]
      /\ SetObject(p, WithRefs(h, RefsAdded(m, flags, h.floating)))
  BY DEF MakeObject
<1> HIDE DEF t, m
<1>4. IInv
  BY DEF ExactInv, BackedInv
<1>5. /\ w \notin Owners(p)
      /\ Owners(p)' = Owners(p) \cup {w}
      /\ \A q \in Location \ {p} : Owners(q)' = Owners(q)
  BY <1>2, <1>3, <1>4, MadeOwners
<1>6. AllCounted'
  BY <1>1, <1>2, <1>3, <1>4 DEF ExactInv, AllCounted, Exists, IInv, TypeOK
<1>7. PICK n : n = RefsAdded(m, flags, h.floating)
  OBVIOUS
<1>8. PICK g : g = WithRefs(h, n)
  OBVIOUS
<1>9. g.class = h.class /\ g.rc = h.rc + n /\ g.cref = h.cref
  BY <1>8 DEF WithRefs, Existing, GoodObject
<1>10. /\ rc'[p] = h.rc + n /\ cref'[p] = h.cref
       /\ \A q \in Location \ {p} :
            class'[q] = class[q] /\ rc'[q] = rc[q] /\ cref'[q] = cref[q]
  BY <1>3, <1>4, <1>7, <1>8, <1>9 DEF SetObject, IInv, TypeOK
<1> QED BY <1>2, <1>5, <1>6, <1>7, <1>10 DEF OnlyAt, SameAt

(* No proxy that is in the table can stand for an object that is gone. *)
LEMMA NewIsFirst ==
  ASSUME ExactInv, NEW p \in Location, class[p] = NULL
  PROVE  objects[p] = NULL
<1> SUFFICES ASSUME objects[p] # NULL PROVE FALSE
  OBVIOUS
<1>1. /\ objects[p] \in Proxy /\ Exists(objects[p])
      /\ ptr[objects[p]] = p /\ ~deleted[objects[p]]
  BY DEF ExactInv, BackedInv, IInv, TypeOK, ObjectsSound
<1>2. objects[p] \in Owners(p)
  BY <1>1 DEF Owners, ExactInv, AllCounted
<1> QED BY <1>2, GoneIsUnused DEF ExactInv, BackedInv

LEMMA LuaNewAppears ==
  ASSUME OnlyGObjects, ExactInv, NEW p \in Addr, NEW t \in Type,
         NEW b \in Births(KindOf[t]), LuaNew(p, t, b)
  PROVE  /\ AllCounted'
         /\ \E w \in Proxy : Appears(p, {w}, b.cref) /\ b.cref \in {0, 1}
<1>1. /\ p \in Location /\ class[p] = NULL /\ objects[p] = NULL
      /\ KindOf[t] \in {"gobject", "unowned"} /\ KindOf[t] \in Kinds
  BY NewIsFirst, ProxyAssumption DEF LuaNew, Location, OnlyGObjects
<1>2. PICK h : h = [class |-> t, rc |-> 1, cref |-> b.cref, floating |-> b.floating]
  OBVIOUS
<1>3. /\ Existing(h) /\ h.class = t /\ h.rc = 1 /\ h.cref = b.cref
  BY <1>2, BirthType, NewObjectGood
<1>4. PICK w \in Proxy : MakeObject(w, p, t, b.flags, h)
  BY <1>1, <1>2 DEF LuaNew, GetObject, MakeFirst
<1>5. /\ b.flags \in {{"NEW"}, {"NOINCREF"}}
      /\ b.cref \in {0, 1}
      /\ RefsAdded(KindOf[t], b.flags, h.floating) = b.cref
  <2>1. \/ b = Birth({"NEW"}, 0, FALSE) /\ KindOf[t] = "gobject"
        \/ b = Birth({"NOINCREF"}, 0, FALSE)
        \/ b = Birth({"NEW"}, 0, TRUE) /\ KindOf[t] = "unowned"
        \/ b = Birth({"NEW"}, 1, FALSE) /\ KindOf[t] = "unowned"
    BY <1>1 DEF Births
  <2>2. \A f, n, x : b = Birth(f, n, x) => b.flags = f /\ b.cref = n /\ b.floating = x
    BY DEF Birth
  <2>3. h.floating = b.floating
    BY <1>2, Zenon
  <2>4. CASE b = Birth({"NEW"}, 0, FALSE) /\ KindOf[t] = "gobject"
    <3>1. b.flags = {"NEW"} /\ b.cref = 0
      BY <2>2, <2>4, Zenon
    <3> QED BY <2>4, <3>1 DEF RefsAdded
  <2>5. CASE b = Birth({"NOINCREF"}, 0, FALSE)
    <3>1. b.flags = {"NOINCREF"} /\ b.cref = 0
      BY <2>2, <2>5, Zenon
    <3> QED BY <3>1 DEF RefsAdded
  <2>6. CASE b = Birth({"NEW"}, 0, TRUE) /\ KindOf[t] = "unowned"
    <3>1. b.flags = {"NEW"} /\ b.cref = 0 /\ h.floating
      BY <2>2, <2>3, <2>6, Zenon
    <3> QED BY <2>6, <3>1 DEF RefsAdded, RefSink
  <2>7. CASE b = Birth({"NEW"}, 1, FALSE) /\ KindOf[t] = "unowned"
    <3>1. b.flags = {"NEW"} /\ b.cref = 1 /\ ~h.floating
      BY <2>2, <2>3, <2>7, Zenon
    <3> QED BY <2>7, <3>1 DEF RefsAdded, RefSink
  <2> QED BY <2>1, <2>4, <2>5, <2>6, <2>7
<1>6. Owners(p) = {} /\ Cardinality({w}) = 1
  BY <1>1, GoneIsUnused, FS_Singleton DEF ExactInv, BackedInv
<1>7. PICK flags \in {{"NEW"}, {"NOINCREF"}, {"NOT_NEW"}} : flags = b.flags
  BY <1>5
<1>8. /\ AllCounted'
      /\ OnlyAt(p, Owners(p) \cup {w},
                h.rc + RefsAdded(KindOf[h.class], flags, h.floating), h.cref)
  <2>1. MakeObject(w, p, t, flags, h) /\ KindOf[t] = KindOf[h.class]
    BY <1>3, <1>4, <1>7
  <2> QED BY <1>1, <1>3, <2>1, MakeCounted
<1>9. OnlyAt(p, {w}, b.cref + Cardinality({w}), b.cref)
  <2>1. Owners(p) \cup {w} = {w} /\ 1 + b.cref = b.cref + Cardinality({w})
    BY <1>5, <1>6
  <2> QED BY <1>3, <1>5, <1>7, <1>8, <2>1
<1> QED BY <1>1, <1>5, <1>8, <1>9 DEF Appears

LEMMA ObjectIs ==
  \A c, n, k : /\ Object(c, n, k).class = c /\ Object(c, n, k).rc = n
               /\ Object(c, n, k).cref = k
BY DEF Object

(* The heap after a step that describes one object anew. *)
LEMMA HeapAt ==
  ASSUME IInv, NEW p \in Location, NEW h, SetObject(p, h)
  PROVE  /\ class'[p] = h.class /\ rc'[p] = h.rc /\ cref'[p] = h.cref
         /\ \A q \in Location \ {p} :
              class'[q] = class[q] /\ rc'[q] = rc[q] /\ cref'[q] = cref[q]
BY DEF IInv, TypeOK, SetObject

LEMMA GetGains ==
  ASSUME OnlyGObjects, ExactInv, NEW p \in Location, NEW want \in Type \cup {Detect},
         Get(p, want, {"NOT_NEW"})
  PROVE  /\ AllCounted'
         /\ Same \/ \E w \in Proxy : Gains(p, w)
<1>1. PICK h : h = ObjectAt(p)
  OBVIOUS
<1>2. /\ class[p] # NULL /\ GetObject(p, want, {"NOT_NEW"}, h)
      /\ want \in Wanted(class[p]) /\ class[p] \in Type
  BY <1>1 DEF Get, ExactInv, BackedInv, IInv, TypeOK
<1>3. h.class = class[p] /\ h.rc = rc[p] /\ h.cref = cref[p]
  BY <1>1, ObjectIs DEF ObjectAt
<1>4. ~h.floating
  BY <1>1 DEF ObjectAt, Object
<1>5. Existing(h) /\ IInv
  BY <1>1, <1>2, ObjectAtExisting DEF ExactInv, BackedInv
<1>6. want = Detect \/ KindOf[want] = KindOf[h.class]
  BY <1>2, <1>3 DEF Wanted
<1>7. RefsAdded(KindOf[h.class], {"NOT_NEW"}, h.floating) = 1
  <2>1. KindOf[h.class] \in {"gobject", "unowned"}
    BY <1>2, <1>3 DEF OnlyGObjects
  <2> QED BY <1>4, <2>1 DEF RefsAdded, RefSink
<1>8. ASSUME NEW w \in Proxy, MakeObject(w, p, want, {"NOT_NEW"}, h)
      PROVE  AllCounted' /\ Gains(p, w)
  <2>1. PICK flags \in {{"NEW"}, {"NOINCREF"}, {"NOT_NEW"}} : flags = {"NOT_NEW"}
    OBVIOUS
  <2>2. MakeObject(w, p, want, flags, h)
    BY <1>8, <2>1
  <2>3. /\ AllCounted' /\ w \notin Owners(p)
        /\ OnlyAt(p, Owners(p) \cup {w},
                  h.rc + RefsAdded(KindOf[h.class], flags, h.floating), h.cref)
    BY <1>5, <1>6, <2>2, MakeCounted
  <2> QED BY <1>2, <1>3, <1>7, <2>1, <2>3 DEF Gains
<1>9. CASE objects[p] # NULL /\ InAliases(objects[p])
  <2>1. PICK o \in Proxy : o = objects[p]
    BY <1>5, <1>9 DEF IInv, TypeOK
  <2>2. Reuse(o, p, want, {"NOT_NEW"}, h) /\ InAliases(o)
    BY <1>2, <1>9, <2>1 DEF GetObject
  <2> DEFINE seen  == Visited(o, p, want)
             wrong == {u \in seen : ptr[u] # p}
             found == {u \in seen : ptr[u] = p /\ Fits(u, want)
                                    /\ (u = o \/ InAliases(u))}
  <2>3. \A u \in seen : u \in Proxy /\ ptr[u] = p
    BY <1>5, <2>1, SeenStay
  <2>4. wrong = {}
    BY <2>3
  <2>5. CASE found # {}
    <3>1. PICK u \in found :
            /\ st' = [st EXCEPT ![u] = "live"]
            /\ SetObject(p, h)
            /\ UNCHANGED <<ptr, ts, mm, deleted, next, objects, fault>>
      BY <2>2, <2>4, <2>5 DEF Reuse
    <3>2. u \in Proxy /\ Exists(u)
      BY <2>2, <2>3 DEF InAliases, Exists
    <3>3. \A v \in Proxy : Exists(v)' <=> Exists(v)
      BY <1>5, <3>1, <3>2 DEF IInv, TypeOK, Exists
    <3>4. \A q : Owners(q)' = Owners(q)
      BY <3>1, <3>3, OwnersSame
    <3>5. Same
      BY <1>3, <1>5, <3>1, <3>4, HeapAt DEF Same, SameAt
    <3>6. AllCounted'
      BY <3>1, <3>3 DEF ExactInv, AllCounted
    <3> QED BY <3>5, <3>6
  <2>6. CASE found = {}
    <3>1. MakeAlias(o, p, want, {"NOT_NEW"}, h)
      BY <2>2, <2>4, <2>6 DEF Reuse
    <3>2. {"NOT_NEW"} \ {"NEW"} = {"NOT_NEW"}
      OBVIOUS
    <3>3. \E w \in Proxy : MakeObject(w, p, want, {"NOT_NEW"}, h)
      BY <3>1, <3>2 DEF MakeAlias
    <3> QED BY <1>8, <3>3
  <2> QED BY <2>5, <2>6
<1>10. CASE ~(objects[p] # NULL /\ InAliases(objects[p]))
  <2>1. \E w \in Proxy : MakeObject(w, p, want, {"NOT_NEW"}, h)
    BY <1>2, <1>10 DEF GetObject, MakeFirst
  <2> QED BY <1>8, <2>1
<1> QED BY <1>9, <1>10

LEMMA FinalizeLoses ==
  ASSUME ExactInv, NEW w \in Proxy, Finalize(w)
  PROVE  AllCounted' /\ \E p \in Location : Loses(p, w)
<1>0. IInv /\ Backed
  BY DEF ExactInv, BackedInv
<1>1. /\ Exists(w) /\ Unref(w)
      /\ st'      = [st      EXCEPT ![w] = "free"]
      /\ ptr'     = [ptr     EXCEPT ![w] = NULL]
      /\ ts'      = [ts      EXCEPT ![w] = NULL]
      /\ mm'      = [mm      EXCEPT ![w] = "plain"]
      /\ deleted' = [deleted EXCEPT ![w] = FALSE]
  BY DEF Finalize, Exists
<1>2. /\ st'[w] = "free"
      /\ \A u \in Proxy : u # w =>
           /\ st'[u] = st[u] /\ ptr'[u] = ptr[u] /\ mm'[u] = mm[u] /\ ts'[u] = ts[u]
           /\ (deleted'[u] <=> deleted[u])
  BY <1>0, <1>1 DEF IInv, TypeOK
<1>3. \A q : Owners(q)' = Owners(q) \ {w}
  BY <1>2 DEF Owners, Exists
<1>4. ~deleted[w] /\ mm[w] \in Counted
  BY <1>1 DEF ExactInv, AllCounted
<1>5. PICK p \in Location : p = ptr[w]
  BY <1>0, <1>1, <1>4 DEF IInv, AddressOK
<1>6. w \in Owners(p) /\ \A q \in Location \ {p} : w \notin Owners(q)
  BY <1>1, <1>4, <1>5 DEF Owners
<1>7. SetObject(p, Released(mm[w], p))
  BY <1>1, <1>4, <1>5 DEF Unref
<1>8. rc[p] \in Nat /\ cref[p] \in Nat /\ rc[p] = cref[p] + Cardinality(Owners(p))
  BY <1>0 DEF ExactInv, Exact, IInv, TypeOK
<1>9. IsFiniteSet(Owners(p)) /\ Cardinality(Owners(p)) \in Nat
      /\ Cardinality(Owners(p)) # 0
  BY <1>6, OwnersFinite, FS_EmptySet
<1>10. /\ rc'[p] = rc[p] - 1 /\ cref'[p] = cref[p]
       /\ \A q \in Location \ {p} :
            class'[q] = class[q] /\ rc'[q] = rc[q] /\ cref'[q] = cref[q]
  <2>1. CASE rc[p] > 1
    <3>1. Released(mm[w], p) = Object(class[p], rc[p] - 1, cref[p])
      BY <1>4, <2>1 DEF Released, Counted
    <3> QED BY <1>0, <1>7, <3>1, HeapAt, ObjectIs
  <2>2. CASE ~(rc[p] > 1)
    <3>1. Released(mm[w], p) = Object(NULL, 0, 0)
      BY <1>4, <2>2 DEF Released, Counted, NoObject
    <3>2. rc[p] = 1 /\ cref[p] = 0
      BY <1>8, <1>9, <2>2
    <3> QED BY <1>0, <1>7, <3>1, <3>2, HeapAt, ObjectIs
  <2> QED BY <2>1, <2>2
<1>11. Loses(p, w)
  BY <1>3, <1>6, <1>10 DEF Loses, OnlyAt, SameAt
<1>12. AllCounted'
  BY <1>2 DEF ExactInv, AllCounted, Exists
<1> QED BY <1>11, <1>12

LEMMA LibChanges ==
  ASSUME ExactInv, NEW p \in Location,
         (\E t \in Type : LibNew(p, t)) \/ LibRef(p) \/ LibUnref(p)
  PROVE  AllCounted' /\ (Appears(p, {}, 1) \/ LibGains(p) \/ LibLoses(p))
<1>0. IInv /\ Backed
  BY DEF ExactInv, BackedInv
<1>1. UNCHANGED <<st, ptr, ts, mm, deleted>>
  BY DEF LibNew, LibRef, LibUnref, proxyVars
<1>2. \A q : Owners(q)' = Owners(q)
  BY <1>1, OwnersSame DEF Exists
<1>3. AllCounted'
  BY <1>1 DEF ExactInv, AllCounted, Exists
<1>4. rc[p] \in Nat /\ cref[p] \in Nat /\ rc[p] = cref[p] + Cardinality(Owners(p))
      /\ Cardinality(Owners(p)) \in Nat
  BY <1>0, OwnersFinite DEF ExactInv, Exact, IInv, TypeOK
<1>5. ASSUME NEW t \in Type, LibNew(p, t)
      PROVE  Appears(p, {}, 1)
  <2>1. class[p] = NULL /\ SetObject(p, Object(t, 1, 1))
    BY <1>5 DEF LibNew
  <2>2. Owners(p) = {} /\ Cardinality({}) = 0
    BY <1>0, <2>1, GoneIsUnused, FS_EmptySet
  <2> QED BY <1>0, <1>2, <2>1, <2>2, HeapAt, ObjectIs DEF Appears, OnlyAt, SameAt
<1>6. CASE LibRef(p)
  <2>1. /\ class[p] # NULL
        /\ SetObject(p, Object(class[p], rc[p] + 1, cref[p] + 1))
    BY <1>6 DEF LibRef
  <2> QED BY <1>0, <1>2, <1>3, <2>1, HeapAt, ObjectIs DEF LibGains, OnlyAt, SameAt
<1>7. CASE LibUnref(p)
  <2>1. cref[p] > 0
    BY <1>7 DEF LibUnref
  <2>2. CASE rc[p] = 1
    <3>1. SetObject(p, Object(NULL, 0, 0)) /\ cref[p] = 1
      BY <1>4, <1>7, <2>1, <2>2 DEF LibUnref, NoObject
    <3> QED BY <1>0, <1>2, <1>3, <2>1, <2>2, <3>1, HeapAt, ObjectIs
            DEF LibLoses, OnlyAt, SameAt
  <2>3. CASE rc[p] # 1
    <3>1. SetObject(p, Object(class[p], rc[p] - 1, cref[p] - 1))
      BY <1>7, <2>3 DEF LibUnref
    <3> QED BY <1>0, <1>2, <1>3, <2>1, <3>1, HeapAt, ObjectIs
            DEF LibLoses, OnlyAt, SameAt
  <2> QED BY <2>2, <2>3
<1> QED BY <1>3, <1>5, <1>6, <1>7

(* What the program does where nothing is destroyed or const. *)
Mild == OnlyGObjects /\ "const" \notin Features /\ "destroy" \notin Features

LEMMA StatusSame ==
  ASSUME ExactInv, (\E w \in Proxy : Drop(w)) \/ (\E D \in SUBSET Proxy : Collect(D))
  PROVE  AllCounted' /\ Same
<1>1. UNCHANGED <<ptr, ts, mm, deleted, class, rc, cref>>
  BY DEF Drop, Collect, heapVars
<1>2. \A u \in Proxy : Exists(u)' <=> Exists(u)
  BY DEF Drop, Collect, Exists, ExactInv, BackedInv, IInv, TypeOK
<1>3. \A q : Owners(q)' = Owners(q)
  BY <1>1, <1>2, OwnersSame
<1> QED BY <1>1, <1>2, <1>3 DEF Same, SameAt, ExactInv, AllCounted

LEMMA NoOverride ==
  ASSUME OnlyGObjects, ExactInv, NEW w \in Proxy
  PROVE  ~FreeOverride(w)
<1>1. Exists(w) => ts[w] \in Type
  BY DEF ExactInv, AllCounted
<1> QED BY <1>1 DEF FreeOverride, OnlyGObjects, Exists

LEMMA StepIs ==
  ASSUME Mild, ExactInv, [Next]_vars
  PROVE  AllCounted' /\ Changes
<1>0. OnlyGObjects
  BY DEF Mild
<1>1. ASSUME NEW p \in Addr, NEW t \in Type, NEW b \in Births(KindOf[t]), LuaNew(p, t, b)
      PROVE  AllCounted' /\ Changes
  <2>1. PICK w \in Proxy : Appears(p, {w}, b.cref) /\ b.cref \in {0, 1}
    BY <1>0, <1>1, LuaNewAppears
  <2>2. AllCounted'
    BY <1>0, <1>1, LuaNewAppears
  <2>3. PICK H \in {{}} \cup {{u} : u \in Proxy} : H = {w}
    OBVIOUS
  <2>4. Appears(p, H, b.cref) /\ H # {}
    BY <2>1, <2>3
  <2> QED BY <2>1, <2>2, <2>4 DEF Changes, Location
<1>2. ASSUME NEW p \in Location, NEW want \in Type \cup {Detect}, Get(p, want, {"NOT_NEW"})
      PROVE  AllCounted' /\ Changes
  BY <1>0, <1>2, GetGains DEF Changes
<1>3. ASSUME (\E w \in Proxy : Drop(w)) \/ (\E D \in SUBSET Proxy : Collect(D))
      PROVE  AllCounted' /\ Changes
  BY <1>3, StatusSame DEF Changes
<1>4. ASSUME NEW w \in Proxy, Finalize(w)
      PROVE  AllCounted' /\ Changes
  BY <1>4, FinalizeLoses DEF Changes
<1>5. ASSUME NEW p \in Location,
             (\E t \in Type : LibNew(p, t)) \/ LibRef(p) \/ LibUnref(p)
      PROVE  AllCounted' /\ Changes
  <2>1. AllCounted' /\ (Appears(p, {}, 1) \/ LibGains(p) \/ LibLoses(p))
    BY <1>5, LibChanges
  <2>2. PICK H \in {{}} \cup {{u} : u \in Proxy} : H = {}
    OBVIOUS
  <2>3. PICK k \in {0, 1} : k = 1
    OBVIOUS
  <2>4. CASE Appears(p, {}, 1)
    <3>1. Appears(p, H, k) /\ (H # {} \/ k > 0)
      BY <2>2, <2>3, <2>4
    <3> QED BY <2>1, <3>1 DEF Changes
  <2> QED BY <2>1, <2>4 DEF Changes
<1>6. CASE UNCHANGED vars
  <2>1. \A q : Owners(q)' = Owners(q)
    BY <1>6, OwnersSame DEF vars, proxyVars, Exists
  <2> QED BY <1>6, <2>1
          DEF Changes, Same, SameAt, vars, proxyVars, heapVars, ExactInv, AllCounted, Exists
<1>7. ASSUME NEW w \in Proxy
      PROVE  ~FreeOverride(w) /\ ~Destroy(w)
  BY <1>0, NoOverride DEF Destroy, Mild
<1>8. \A p, want : ~GetConst(p, want)
  BY DEF GetConst, Mild
<1> QED BY <1>1, <1>2, <1>3, <1>4, <1>5, <1>6, <1>7, <1>8 DEF Next

LEMMA CountsStay ==
  ASSUME ExactInv, IInv', Changes
  PROVE  Exact'
<1>1. \A q \in Location :
        /\ rc[q] \in Nat /\ cref[q] \in Nat /\ rc[q] = cref[q] + Cardinality(Owners(q))
        /\ IsFiniteSet(Owners(q)) /\ Cardinality(Owners(q)) \in Nat
  BY OwnersFinite DEF ExactInv, BackedInv, Exact, IInv, TypeOK
<1>2. ASSUME NEW q \in Location, SameAt(q)
      PROVE  rc'[q] = cref'[q] + Cardinality(Owners(q)')
  BY <1>1, <1>2 DEF SameAt
<1>3. ASSUME NEW p \in Location, NEW H, NEW n, NEW k, OnlyAt(p, H, n, k),
             n = k + Cardinality(H)
      PROVE  Exact'
  BY <1>2, <1>3 DEF OnlyAt, Exact
<1>4. CASE Same
  BY <1>2, <1>4 DEF Same, Exact
<1>5. ASSUME NEW p \in Location, NEW H, NEW k, Appears(p, H, k)
      PROVE  Exact'
  BY <1>3, <1>5 DEF Appears
<1>6. ASSUME NEW p \in Location, NEW w \in Proxy, Gains(p, w)
      PROVE  Exact'
  <2>1. Cardinality(Owners(p) \cup {w}) = Cardinality(Owners(p)) + 1
    BY <1>1, <1>6, FS_AddElement DEF Gains
  <2> QED BY <1>1, <1>3, <1>6, <2>1 DEF Gains
<1>7. ASSUME NEW p \in Location, NEW w \in Proxy, Loses(p, w)
      PROVE  Exact'
  <2>1. Cardinality(Owners(p) \ {w}) = Cardinality(Owners(p)) - 1
    BY <1>1, <1>7, FS_RemoveElement DEF Loses
  <2> QED BY <1>1, <1>3, <1>7, <2>1 DEF Loses
<1>8. ASSUME NEW p \in Location, LibGains(p) \/ LibLoses(p)
      PROVE  Exact'
  <2>1. /\ rc[p] + 1 = (cref[p] + 1) + Cardinality(Owners(p))
        /\ rc[p] - 1 = (cref[p] - 1) + Cardinality(Owners(p))
    BY <1>1
  <2>2. CASE LibGains(p)
    BY <1>3, <2>1, <2>2 DEF LibGains
  <2>3. CASE LibLoses(p)
    BY <1>3, <2>1, <2>3 DEF LibLoses
  <2> QED BY <1>8, <2>2, <2>3
<1> QED BY <1>4, <1>5, <1>6, <1>7, <1>8 DEF Changes

LEMMA ExactInit == Init => ExactInv
<1> SUFFICES ASSUME Init PROVE ExactInv
  OBVIOUS
<1>1. \A p \in Location : Owners(p) = {} /\ rc[p] = 0 /\ cref[p] = 0
  BY DEF Init, Owners, Exists
<1>2. Exact
  BY <1>1, FS_EmptySet DEF Exact
<1>3. AllCounted
  BY DEF Init, AllCounted, Exists
<1> QED BY <1>2, <1>3, BackedInit DEF ExactInv

LEMMA ExactNext ==
  ASSUME Mild, ExactInv, [Next]_vars
  PROVE  ExactInv' /\ Changes
<1>1. NoChannels /\ OnlyGObjects
  BY DEF Mild, OnlyGObjects, NoChannels
<1>2. BackedInv'
  BY <1>1, NoOverride, BackedNext DEF ExactInv
<1>3. AllCounted' /\ Changes
  BY StepIs
<1>4. Exact'
  BY <1>2, <1>3, CountsStay DEF BackedInv
<1> QED BY <1>2, <1>3, <1>4 DEF ExactInv

(* No reference is lost: a GObject has as many as its proxies and the       *)
(* library hold, if it is neither destroyed from Lua nor handed out as     *)
(* const (g_object_ref_sink and its exceptions, glib/init.c).              *)
THEOREM ReferencesExact ==
  ASSUME Mild
  PROVE  Spec => []RefsExact
<1>1. ExactInv /\ [Next]_vars => ExactInv'
  BY ExactNext
<1>2. ExactInv => RefsExact
  BY DEF ExactInv, Exact, RefsExact
<1> QED BY <1>1, <1>2, ExactInit, PTL DEF Spec

-----------------------------------------------------------------------------
(***************************************************************************)
(* Each step of the proxies is a step of SharedObject.                     *)
(***************************************************************************)
Alive(p) == class[p] # NULL /\ KindOf[class[p]] \in Counted

(* An object is there as long as somebody holds it. *)
LEMMA AliveIf ==
  ASSUME OnlyGObjects, ExactInv, NEW p \in Location
  PROVE  /\ Alive(p) <=> Owners(p) # {} \/ cref[p] > 0
         /\ Alive(p) <=> class[p] # NULL
<1>1. /\ rc[p] \in Nat /\ cref[p] \in Nat /\ rc[p] = cref[p] + Cardinality(Owners(p))
      /\ IsFiniteSet(Owners(p)) /\ Cardinality(Owners(p)) \in Nat
      /\ (class[p] = NULL <=> rc[p] = 0) /\ class[p] \in Type \cup {NULL}
  BY OwnersFinite DEF ExactInv, BackedInv, Exact, IInv, TypeOK, HeapOK
<1>2. Cardinality(Owners(p)) = 0 <=> Owners(p) = {}
  BY <1>1, FS_EmptySet
<1>3. Alive(p) <=> class[p] # NULL
  BY <1>1 DEF Alive, OnlyGObjects, Counted
<1> QED BY <1>1, <1>2, <1>3

LEMMA AliveThen ==
  ASSUME OnlyGObjects, ExactInv', NEW p \in Location
  PROVE  /\ Alive(p)' <=> Owners(p)' # {} \/ cref'[p] > 0
         /\ Alive(p)' <=> class'[p] # NULL
<1>1. IsFiniteSet(Owners(p)')
  <2>1. Owners(p)' \subseteq Proxy
    BY DEF Owners
  <2> QED BY <2>1, FS_Subset, ProxyAssumption
<1>2. Cardinality(Owners(p)') \in Nat
  BY <1>1, FS_CardinalityType
<1>3. /\ rc'[p] \in Nat /\ cref'[p] \in Nat /\ rc'[p] = cref'[p] + Cardinality(Owners(p)')
      /\ (class'[p] = NULL <=> rc'[p] = 0) /\ class'[p] \in Type \cup {NULL}
  BY DEF ExactInv, BackedInv, Exact, IInv, TypeOK, HeapOK
<1>4. Cardinality(Owners(p)') = 0 <=> Owners(p)' = {}
  BY <1>1, FS_EmptySet
<1>5. Alive(p)' <=> class'[p] # NULL
  BY <1>3 DEF Alive, OnlyGObjects, Counted
<1> QED BY <1>2, <1>3, <1>4, <1>5

LEMMA HeldIf ==
  ASSUME OnlyGObjects, ExactInv, ExactInv', NEW p \in Location, NEW H, NEW n, NEW k,
         OnlyAt(p, H, n, k)
  PROVE  Shared!Held(p, H, k)
<1>1. [q \in Location |-> Owners(q)]' = [[q \in Location |-> Owners(q)] EXCEPT ![p] = H]
  BY DEF OnlyAt, SameAt
<1>2. cref' = [cref EXCEPT ![p] = k]
  <2>1. cref \in [Location -> Nat] /\ cref' \in [Location -> Nat]
    BY DEF ExactInv, BackedInv, IInv, TypeOK
  <2>2. cref'[p] = k /\ \A q \in Location \ {p} : cref'[q] = cref[q]
    BY DEF OnlyAt, SameAt
  <2> QED BY <2>1, <2>2
<1>3. [q \in Location |-> Alive(q)]' =
        [[q \in Location |-> Alive(q)] EXCEPT ![p] = H # {} \/ k > 0]
  <2> DEFINE New(b) == Alive(b)'
             Old(b) == Alive(b)
             R      == H # {} \/ k > 0
  <2>1. \A b \in Location : New(b) \in BOOLEAN /\ Old(b) \in BOOLEAN /\ R \in BOOLEAN
    BY DEF Alive
  <2>2. \A b \in Location : New(b) <=> IF b = p THEN R ELSE Old(b)
    <3> TAKE b \in Location
    <3>1. CASE b = p
      BY <3>1, AliveThen DEF OnlyAt
    <3>2. CASE b # p
      BY <3>2, AliveIf, AliveThen DEF OnlyAt, SameAt
    <3> QED BY <3>1, <3>2
  <2> HIDE DEF New, Old, R
  <2>3. \A b \in Location : New(b) = IF b = p THEN R ELSE Old(b)
    BY <2>1, <2>2
  <2>4. [b \in Location |-> New(b)] = [[b \in Location |-> Old(b)] EXCEPT ![p] = R]
    BY <2>3
  <2> QED BY <2>4, Zenon DEF New, Old, R
<1> QED BY <1>1, <1>2, <1>3, Zenon DEF Shared!Held, Alive

(* The mapped state at one address. *)
LEMMA MappedAt ==
  ASSUME NEW p \in Location
  PROVE  /\ [a \in Location |-> class[a] # NULL /\ KindOf[class[a]] \in Counted][p]
              <=> Alive(p)
         /\ [a \in Location |-> Owners(a)][p] = Owners(p)
BY Zenon DEF Alive

LEMMA StutterIf ==
  ASSUME OnlyGObjects, ExactInv, ExactInv', Same
  PROVE  UNCHANGED Shared!vars
<1>1. [a \in Location |-> Owners(a)]' = [a \in Location |-> Owners(a)]
  BY DEF Same, SameAt
<1>2. cref' = cref
  <2>1. cref \in [Location -> Nat] /\ cref' \in [Location -> Nat]
    BY DEF ExactInv, BackedInv, IInv, TypeOK
  <2> QED BY <2>1 DEF Same, SameAt
<1>3. [a \in Location |-> class[a] # NULL /\ KindOf[class[a]] \in Counted]'
        = [a \in Location |-> class[a] # NULL /\ KindOf[class[a]] \in Counted]
  BY DEF Same, SameAt
<1> QED BY <1>1, <1>2, <1>3 DEF Shared!vars

LEMMA SharedNextIf ==
  ASSUME NEW p \in Location, NEW w \in Proxy,
         \/ \E H \in {{}} \cup {{v} : v \in Proxy}, k \in {0, 1} : Shared!Create(p, H, k)
         \/ Shared!Hold(p, w) \/ Shared!LetGo(p, w)
         \/ Shared!LibHold(p) \/ Shared!LibLetGo(p)
  PROVE  Shared!Next
BY DEF Shared!Next

(* What changes at the objects is what SharedObject allows. *)
LEMMA ChangesShared ==
  ASSUME OnlyGObjects, ExactInv, ExactInv', Changes
  PROVE  [Shared!Next]_(Shared!vars)
<1> DEFINE Goal == [Shared!Next]_(Shared!vars)
<1> HIDE DEF Goal
<1>0. /\ Shared!Next => Goal
      /\ UNCHANGED Shared!vars => Goal
  BY DEF Goal
<1>1. CASE Same
  BY <1>0, <1>1, StutterIf
<1>2. ASSUME NEW p \in Location, NEW H \in {{}} \cup {{w} : w \in Proxy}, NEW k \in {0, 1},
             H # {} \/ k > 0, Appears(p, H, k)
      PROVE  Goal
  <2>1. Shared!Held(p, H, k)
    BY <1>2, HeldIf DEF Appears
  <2>2. ~Alive(p)
    BY <1>2, AliveIf DEF Appears
  <2>3. Shared!Create(p, H, k)
    BY <1>2, <2>1, <2>2, MappedAt DEF Shared!Create
  <2>4. Shared!Next
    BY <2>3 DEF Shared!Next
  <2> QED BY <1>0, <2>4
<1>3. ASSUME NEW p \in Location, NEW w \in Proxy, Gains(p, w)
      PROVE  Goal
  <2>1. PICK H : H = Owners(p) \cup {w}
    OBVIOUS
  <2>2. PICK k : k = cref[p]
    OBVIOUS
  <2>3. Shared!Held(p, H, k)
    BY <1>3, <2>1, <2>2, HeldIf DEF Gains
  <2>4. Alive(p) /\ w \notin Owners(p)
    BY <1>3, AliveIf DEF Gains
  <2>5. Shared!Hold(p, w)
    <3>1. [a \in Location |-> class[a] # NULL /\ KindOf[class[a]] \in Counted][p]
      BY <2>4, MappedAt
    <3>2. [a \in Location |-> Owners(a)][p] \cup {w} = H /\ cref[p] = k /\ w \notin [a \in Location |-> Owners(a)][p]
      BY <2>1, <2>2, <2>4, MappedAt
    <3>3. Shared!Held(p, [a \in Location |-> Owners(a)][p] \cup {w}, cref[p])
      BY <2>3, <3>2, Zenon DEF Shared!Held
    <3> QED BY <2>4, <3>1, <3>2, <3>3, Zenon DEF Shared!Hold
  <2> QED BY <1>0, <2>5, SharedNextIf
<1>4. ASSUME NEW p \in Location, NEW w \in Proxy, Loses(p, w)
      PROVE  Goal
  <2>1. PICK H : H = Owners(p) \ {w}
    OBVIOUS
  <2>2. PICK k : k = cref[p]
    OBVIOUS
  <2>3. Shared!Held(p, H, k)
    BY <1>4, <2>1, <2>2, HeldIf DEF Loses
  <2>4. Alive(p) /\ w \in Owners(p)
    BY <1>4, AliveIf DEF Loses
  <2>5. Shared!LetGo(p, w)
    <3>1. [a \in Location |-> class[a] # NULL /\ KindOf[class[a]] \in Counted][p]
      BY <2>4, MappedAt
    <3>2. [a \in Location |-> Owners(a)][p] \ {w} = H /\ cref[p] = k /\ w \in [a \in Location |-> Owners(a)][p]
      BY <2>1, <2>2, <2>4, MappedAt
    <3>3. Shared!Held(p, [a \in Location |-> Owners(a)][p] \ {w}, cref[p])
      BY <2>3, <3>2, Zenon DEF Shared!Held
    <3> QED BY <2>4, <3>1, <3>2, <3>3, Zenon DEF Shared!LetGo
  <2> QED BY <1>0, <2>5, SharedNextIf
<1>5. ASSUME NEW p \in Location, LibGains(p)
      PROVE  Goal
  <2>1. PICK H : H = Owners(p)
    OBVIOUS
  <2>2. PICK k : k = cref[p] + 1
    OBVIOUS
  <2>3. Shared!Held(p, H, k)
    BY <1>5, <2>1, <2>2, HeldIf DEF LibGains
  <2>4. Alive(p)
    BY <1>5, AliveIf DEF LibGains
  <2>5. Shared!LibHold(p)
    <3>1. [a \in Location |-> class[a] # NULL /\ KindOf[class[a]] \in Counted][p]
      BY <2>4, MappedAt
    <3>2. [a \in Location |-> Owners(a)][p] = H /\ cref[p] + 1 = k
      BY <2>1, <2>2, <2>4, MappedAt
    <3>3. Shared!Held(p, [a \in Location |-> Owners(a)][p], cref[p] + 1)
      BY <2>3, <3>2, Zenon DEF Shared!Held
    <3> QED BY <2>4, <3>1, <3>2, <3>3, Zenon DEF Shared!LibHold
  <2>6. Shared!Next
    BY <2>5 DEF Shared!Next
  <2> QED BY <1>0, <2>6
<1>6. ASSUME NEW p \in Location, LibLoses(p)
      PROVE  Goal
  <2>1. PICK H : H = Owners(p)
    OBVIOUS
  <2>2. PICK k : k = cref[p] - 1
    OBVIOUS
  <2>3. Shared!Held(p, H, k)
    BY <1>6, <2>1, <2>2, HeldIf DEF LibLoses
  <2>4. Alive(p) /\ cref[p] > 0
    BY <1>6, AliveIf DEF LibLoses
  <2>5. Shared!LibLetGo(p)
    <3>1. [a \in Location |-> class[a] # NULL /\ KindOf[class[a]] \in Counted][p]
      BY <2>4, MappedAt
    <3>2. [a \in Location |-> Owners(a)][p] = H /\ cref[p] - 1 = k
      BY <2>1, <2>2, <2>4, MappedAt
    <3>3. Shared!Held(p, [a \in Location |-> Owners(a)][p], cref[p] - 1)
      BY <2>3, <3>2, Zenon DEF Shared!Held
    <3> QED BY <2>4, <3>1, <3>2, <3>3, Zenon DEF Shared!LibLetGo
  <2>6. Shared!Next
    BY <2>5 DEF Shared!Next
  <2> QED BY <1>0, <2>6
<1> QED BY <1>1, <1>2, <1>3, <1>4, <1>5, <1>6 DEF Changes, Goal

(* Without its counters, a GObject is what SharedObject says: it is there  *)
(* as long as a proxy or the library holds it, and gone in the step in     *)
(* which the last of them lets go (_make_object, lg_get_object,            *)
(* lg_object_collect and the reference functions of glib/init.c).          *)
THEOREM ProxyImplementsShared ==
  ASSUME Mild
  PROVE  Spec => ImplementsShared
<1>0. OnlyGObjects
  BY DEF Mild
<1>1. Init => Shared!Init
  <2>1. ASSUME Init PROVE Shared!Init
    <3>1. \A a \in Location : Owners(a) = {} /\ class[a] = NULL
      BY <2>1 DEF Init, Owners, Exists
    <3>2. [a \in Location |-> Owners(a)] = [a \in Location |-> {}]
      BY <3>1
    <3>3. cref = [a \in Location |-> 0]
      BY <2>1 DEF Init
    <3>4. [a \in Location |-> class[a] # NULL /\ KindOf[class[a]] \in Counted]
            = [a \in Location |-> FALSE]
      <4> DEFINE F(a) == class[a] # NULL /\ KindOf[class[a]] \in Counted
      <4>1. \A a \in Location : F(a) = FALSE
        BY <3>1
      <4> HIDE DEF F
      <4>2. [a \in Location |-> F(a)] = [a \in Location |-> FALSE]
        BY <4>1
      <4> QED BY <4>2, Zenon DEF F
    <3> QED BY <3>2, <3>3, <3>4 DEF Shared!Init
  <2> QED BY <2>1
<1>2. ExactInv /\ [Next]_vars => ExactInv'
  BY ExactNext
<1>3. ExactInv /\ [Next]_vars => [Shared!Next]_(Shared!vars)
  BY <1>0, ExactNext, ChangesShared
<1> QED BY <1>1, <1>2, <1>3, ExactInit, PTL DEF Spec, ImplementsShared, Shared!Spec
=============================================================================
