--------------------------- MODULE CallInfoProofs ---------------------------
(* Theorems about CallInfo, for any number of structures and arguments and  *)
(* any depth of calls.                                                      *)
EXTENDS CallInfo, SequenceTheorems, TLAPS

-----------------------------------------------------------------------------
(***************************************************************************)
(* The inductive invariant.  CurrentSafe needs TmpOlder: a value of        *)
(* ci_current that lg_call has saved was there before the structures of    *)
(* the calls inside were taken, so freeing those cannot invalidate it.     *)
(***************************************************************************)
Typed ==
  /\ ci_pool \in Seq(Info) /\ made \subseteq Info
  /\ ci_current \in Info \cup {NULL}
  /\ frames \in Seq(Frames)
  /\ \A i \in DOMAIN frames : Using(i) => frames[i].ci \in Info

PoolDistinct == \A i, j \in DOMAIN ci_pool : ci_pool[i] = ci_pool[j] => i = j

FramesDistinct ==
  \A i, j \in DOMAIN frames :
    Using(i) /\ Using(j) /\ frames[i].ci = frames[j].ci => i = j

Separate ==
  /\ Pooled \subseteq made
  /\ \A i \in DOMAIN frames : Using(i) => frames[i].ci \in made \ Pooled

TmpOlder ==
  \A i, j \in DOMAIN frames :
    Using(i) /\ (j <= i \/ frames[i].kind = "closure") =>
      frames[j].tmp # frames[i].ci

IInv == Typed /\ PoolDistinct /\ FramesDistinct /\ Separate /\ CurrentSafe /\ TmpOlder

-----------------------------------------------------------------------------
(***************************************************************************)
(* The stack and the pool as sequences.                                    *)
(***************************************************************************)
LEMMA FrameFacts ==
  ASSUME frames \in Seq(Frames)
  PROVE  /\ Depth \in Nat
         /\ DOMAIN frames = 1..Depth
         /\ \A i \in 1..Depth : frames[i] \in Frames
BY LenProperties, ElementOfSeq DEF Depth

LEMMA Cut ==
  ASSUME frames \in Seq(Frames), NEW k \in 0..Depth,
         frames' = SubSeq(frames, 1, k)
  PROVE  /\ frames' \in Seq(Frames)
         /\ DOMAIN frames' = 1..k
         /\ \A i \in 1..k : frames'[i] = frames[i]
<1>1. \A i \in 1..k : frames[i] \in Frames
  BY FrameFacts
<1>2. /\ SubSeq(frames, 1, k) \in Seq(Frames)
      /\ Len(SubSeq(frames, 1, k)) = IF 1 <= k THEN k - 1 + 1 ELSE 0
      /\ \A i \in 1..(k - 1 + 1) : SubSeq(frames, 1, k)[i] = frames[1 + i - 1]
  BY <1>1, FrameFacts, SubSeqProperties
<1>3. Len(frames') = k
  BY <1>2, FrameFacts
<1>4. DOMAIN frames' = 1..k
  BY <1>2, <1>3, LenProperties
<1> QED
  BY <1>2, <1>4, FrameFacts

LEMMA Pushed ==
  ASSUME frames \in Seq(Frames), NEW f \in Frames,
         frames' = Append(frames, f)
  PROVE  /\ frames' \in Seq(Frames)
         /\ DOMAIN frames' = 1..(Depth + 1)
         /\ \A i \in 1..Depth : frames'[i] = frames[i]
         /\ frames'[Depth + 1] = f
<1>1. /\ Append(frames, f) \in Seq(Frames)
      /\ Len(Append(frames, f)) = Len(frames) + 1
      /\ \A i \in 1..Len(frames) : Append(frames, f)[i] = frames[i]
      /\ Append(frames, f)[Len(frames) + 1] = f
  BY AppendProperties
<1>2. DOMAIN frames' = 1..(Depth + 1)
  BY <1>1, LenProperties DEF Depth
<1> QED
  BY <1>1, <1>2 DEF Depth

(* call_info_alloc takes a structure that nobody uses or refers to. *)
LEMMA Taken ==
  ASSUME Typed, PoolDistinct, Separate, NEW c \in Info, Allocated(c)
  PROVE  /\ c \notin made \ Pooled
         /\ made' = made \cup {c}
         /\ Pooled' = Pooled \ {c}
         /\ ci_pool' \in Seq(Info)
         /\ PoolDistinct'
<1>1. made' = made \cup {c}
  BY DEF Allocated
<1>2. CASE ci_pool = <<>>
  <2>1. ci_pool' = ci_pool /\ c \notin made
    BY <1>2 DEF Allocated
  <2> QED
    BY <1>1, <2>1 DEF Pooled, PoolDistinct, Typed, Separate
<1>3. CASE ci_pool # <<>>
  <2>1. c = Head(ci_pool) /\ ci_pool' = Tail(ci_pool)
    BY <1>3 DEF Allocated
  <2>2. /\ ci_pool' \in Seq(Info)
        /\ Len(ci_pool') = Len(ci_pool) - 1
        /\ \A i \in 1..Len(ci_pool') : ci_pool'[i] = ci_pool[i + 1]
    BY <1>3, <2>1, HeadTailProperties DEF Typed
  <2>3. Len(ci_pool) \in Nat \ {0} /\ DOMAIN ci_pool = 1..Len(ci_pool)
    BY <1>3, EmptySeq, LenProperties DEF Typed
  <2>4. c = ci_pool[1]
    BY <2>1, <1>3 DEF Typed
  <2>5. DOMAIN ci_pool' = 1..(Len(ci_pool) - 1)
    BY <2>2, LenProperties
  <2>6. PoolDistinct'
    <3>1. ASSUME NEW i \in 1..(Len(ci_pool) - 1), NEW j \in 1..(Len(ci_pool) - 1),
                 ci_pool'[i] = ci_pool'[j]
          PROVE  i = j
      <4>1. /\ i + 1 \in DOMAIN ci_pool /\ j + 1 \in DOMAIN ci_pool
            /\ ci_pool[i + 1] = ci_pool[j + 1]
        BY <2>2, <2>3, <3>1
      <4>2. i + 1 = j + 1
        BY <4>1 DEF PoolDistinct
      <4> QED
        BY <2>3, <4>2
    <3> QED
      BY <2>5, <3>1 DEF PoolDistinct
  <2>7. Pooled' = Pooled \ {c}
    <3>1. ASSUME NEW x \in Pooled' PROVE x \in Pooled \ {c}
      <4>1. PICK i \in 1..(Len(ci_pool) - 1) : x = ci_pool[i + 1]
        BY <2>2, <2>5, <3>1 DEF Pooled
      <4> QED
        BY <2>3, <2>4, <4>1 DEF PoolDistinct, Pooled
    <3>2. ASSUME NEW x \in Pooled \ {c} PROVE x \in Pooled'
      <4>1. PICK i \in 2..Len(ci_pool) : x = ci_pool[i]
        BY <2>3, <2>4, <3>2 DEF Pooled
      <4>2. i - 1 \in 1..(Len(ci_pool) - 1) /\ ci_pool'[i - 1] = ci_pool[(i - 1) + 1]
        BY <2>2, <2>3, <4>1
      <4> QED
        BY <2>3, <2>5, <4>1, <4>2 DEF Pooled
    <3> QED
      BY <3>1, <3>2
  <2>8. c \in Pooled
    BY <2>3, <2>4 DEF Pooled
  <2> QED
    BY <1>1, <2>2, <2>6, <2>7, <2>8
<1> QED
  BY <1>2, <1>3

(* call_info_free puts it in front of the others. *)
LEMMA Given ==
  ASSUME Typed, PoolDistinct, NEW c \in Info, c \notin Pooled, Freed(c)
  PROVE  /\ Pooled' = Pooled \cup {c}
         /\ ci_pool' \in Seq(Info)
         /\ PoolDistinct'
<1> DEFINE n == Len(ci_pool)
<1>1. n \in Nat /\ DOMAIN ci_pool = 1..n
  BY LenProperties DEF Typed
<1>2. /\ ci_pool' \in Seq(Info)
      /\ DOMAIN ci_pool' = 1..(n + 1)
      /\ ci_pool'[1] = c
      /\ \A i \in 2..(n + 1) : ci_pool'[i] = ci_pool[i - 1]
  <2>1. ci_pool' = <<c>> \o ci_pool /\ <<c>> \in Seq(Info) /\ Len(<<c>>) = 1
        /\ <<c>>[1] = c /\ ci_pool \in Seq(Info)
    BY DEF Freed, Typed
  <2>2. /\ ci_pool' \in Seq(Info)
        /\ Len(ci_pool') = 1 + n
        /\ \A i \in 1..(1 + n) :
             ci_pool'[i] = IF i <= 1 THEN <<c>>[i] ELSE ci_pool[i - 1]
    BY <2>1, ConcatProperties
  <2> QED
    BY <1>1, <2>1, <2>2, LenProperties
<1> HIDE DEF n
<1>3. PoolDistinct'
  <2>1. \A i \in 2..(n + 1) : i - 1 \in 1..n
    BY <1>1
  <2>2. \A i \in 2..(n + 1) : ci_pool'[i] # c
    BY <1>1, <1>2, <2>1 DEF Pooled
  <2>3. ASSUME NEW i \in 1..(n + 1), NEW j \in 1..(n + 1), ci_pool'[i] = ci_pool'[j]
        PROVE  i = j
    <3>1. CASE i = 1 \/ j = 1
      BY <1>1, <1>2, <2>2, <2>3, <3>1
    <3>2. CASE i # 1 /\ j # 1
      <4>1. i \in 2..(n + 1) /\ j \in 2..(n + 1)
        BY <1>1, <3>2
      <4>2. ci_pool[i - 1] = ci_pool[j - 1] /\ i - 1 \in 1..n /\ j - 1 \in 1..n
        BY <1>2, <2>1, <2>3, <4>1
      <4>3. i - 1 = j - 1
        BY <1>1, <4>2 DEF PoolDistinct
      <4> QED
        BY <1>1, <4>1, <4>3
    <3> QED
      BY <3>1, <3>2
  <2> QED
    BY <1>2, <2>3 DEF PoolDistinct
<1>4. Pooled' = Pooled \cup {c}
  <2>1. \A x \in Pooled' : x \in Pooled \cup {c}
    BY <1>1, <1>2 DEF Pooled
  <2>2. c \in Pooled'
    BY <1>1, <1>2 DEF Pooled
  <2>3. ASSUME NEW x \in Pooled PROVE x \in Pooled'
    <3>1. PICK i \in 1..n : x = ci_pool[i]
      BY <1>1, <2>3 DEF Pooled
    <3>2. i + 1 \in 2..(n + 1) /\ ci_pool'[i + 1] = ci_pool[(i + 1) - 1]
      BY <1>1, <1>2, <3>1
    <3>3. i + 1 \in DOMAIN ci_pool' /\ ci_pool'[i + 1] = x
      BY <1>1, <1>2, <3>1, <3>2
    <3> QED
      BY <3>3 DEF Pooled
  <2> QED
    BY <2>1, <2>2, <2>3
<1> QED
  BY <1>2, <1>3, <1>4

-----------------------------------------------------------------------------
(***************************************************************************)
(* What happens to the invariant when the stack is cut or grows.           *)
(***************************************************************************)

(* A Lua error unwinds the stack and frees nothing; ci_current stays, or   *)
(* is what the innermost lg_call has saved.                                *)
LEMMA UnwoundOK ==
  ASSUME IInv, NEW k \in 0..Depth, frames' = SubSeq(frames, 1, k),
         ci_pool' = ci_pool, made' = made,
         ci_current' = ci_current \/ \E i \in DOMAIN frames : ci_current' = frames[i].tmp
  PROVE  IInv'
<1>1. /\ frames' \in Seq(Frames)
      /\ DOMAIN frames' = 1..k
      /\ \A i \in 1..k : frames'[i] = frames[i]
      /\ Depth \in Nat /\ DOMAIN frames = 1..Depth
      /\ \A i \in 1..Depth : frames[i] \in Frames
  BY Cut, FrameFacts DEF IInv, Typed
<1>2. \A i \in 1..k : i \in DOMAIN frames /\ (Using(i)' <=> Using(i))
  BY <1>1 DEF Using
<1>3. Pooled' = Pooled
  BY DEF Pooled
<1>4. Typed' /\ PoolDistinct'
  BY <1>1, <1>2 DEF IInv, Typed, PoolDistinct, Frames
<1>5. FramesDistinct' /\ Separate' /\ TmpOlder'
  BY <1>1, <1>2, <1>3 DEF IInv, FramesDistinct, Separate, TmpOlder
<1>6. CurrentSafe'
  <2>1. Safe(ci_current)'
    BY <1>3 DEF IInv, CurrentSafe, Safe
  <2>2. \A i \in 1..k : Safe(frames[i].tmp)'
    BY <1>1, <1>2, <1>3 DEF IInv, CurrentSafe, Safe
  <2>3. \A i \in 1..k : frames[i].kind = "closure" => ci_current' # frames[i].ci
    BY <1>1, <1>2 DEF IInv, CurrentSafe, TmpOlder, Using
  <2> QED
    BY <1>1, <2>1, <2>2, <2>3 DEF CurrentSafe
<1> QED
  BY <1>4, <1>5, <1>6 DEF IInv

(* A call or a closure returns: its structure goes to the pool.            *)
LEMMA ReturnedOK ==
  ASSUME IInv, Depth > 0, Using(Depth), Freed(Top.ci), made' = made,
         frames' = SubSeq(frames, 1, Depth - 1),
         \/ ci_current' = Top.tmp
         \/ ci_current' = ci_current /\ Top.kind = "closure"
  PROVE  IInv'
<1> DEFINE c == Top.ci
           k == Depth - 1
<1>1. /\ k \in 0..Depth /\ Depth \in Nat /\ DOMAIN frames = 1..Depth
      /\ \A i \in 1..Depth : frames[i] \in Frames
      /\ Top = frames[Depth] /\ Depth \in DOMAIN frames
      /\ \A i \in 1..k : i \in 1..Depth /\ i # Depth /\ i <= Depth
  BY FrameFacts DEF IInv, Typed, Top
<1>2. /\ frames' \in Seq(Frames)
      /\ DOMAIN frames' = 1..k
      /\ \A i \in 1..k : frames'[i] = frames[i]
  BY <1>1, Cut DEF IInv, Typed
<1>3. \A i \in 1..k : Using(i)' <=> Using(i)
  BY <1>2 DEF Using
<1>4. c \in Info /\ c \in made \ Pooled
  BY <1>1 DEF IInv, Typed, Separate
<1>5. Pooled' = Pooled \cup {c} /\ ci_pool' \in Seq(Info) /\ PoolDistinct'
  BY <1>4, Given DEF IInv
<1>6. /\ \A i \in 1..Depth : frames[i].tmp # c
      /\ \A i \in 1..k : Using(i) => frames[i].ci # c
  BY <1>1 DEF IInv, TmpOlder, FramesDistinct
<1>7. /\ ci_current' \in Info \cup {NULL} /\ ci_current' # c /\ Safe(ci_current')
      /\ \A i \in 1..k : frames[i].kind = "closure" => ci_current' # frames[i].ci
  <2>1. CASE ci_current' = Top.tmp
    BY <1>1, <1>6, <2>1 DEF IInv, CurrentSafe, TmpOlder, Using, Frames
  <2>2. CASE ci_current' = ci_current /\ Top.kind = "closure"
    BY <1>1, <2>2 DEF IInv, CurrentSafe, Typed
  <2> QED
    BY <2>1, <2>2
<1> HIDE DEF c, k
<1>8. Typed'
  <2>1. \A i \in 1..k : Using(i)' => frames'[i].ci \in Info
    BY <1>1, <1>2, <1>3 DEF IInv, Typed
  <2>2. made' \subseteq Info
    BY DEF IInv, Typed
  <2> QED
    BY <1>2, <1>5, <1>7, <2>1, <2>2 DEF Typed
<1>9. FramesDistinct' /\ TmpOlder'
  BY <1>1, <1>2, <1>3 DEF IInv, FramesDistinct, TmpOlder
<1>10. Separate'
  BY <1>1, <1>2, <1>3, <1>4, <1>5, <1>6 DEF IInv, Separate
<1>11. CurrentSafe'
  <2>1. Safe(ci_current)'
    BY <1>5, <1>7 DEF Safe
  <2>2. \A i \in 1..k : Safe(frames[i].tmp)'
    BY <1>1, <1>2, <1>5, <1>6 DEF IInv, CurrentSafe, Safe
  <2> QED
    BY <1>2, <1>7, <2>1, <2>2 DEF CurrentSafe
<1> QED
  BY <1>5, <1>8, <1>9, <1>10, <1>11 DEF IInv

(* A call or a closure begins, with a structure that is new to everybody.  *)
LEMMA StartedOK ==
  ASSUME IInv, NEW c \in Info, Allocated(c),
         NEW f \in Frames, f.ci = c, frames' = Append(frames, f),
         \/ f.kind = "call" /\ f.tmp = ci_current /\ ci_current' = c
         \/ f.kind = "closure" /\ f.tmp = NULL /\ ci_current' = ci_current
  PROVE  IInv'
<1>0. PICK d : d = Depth + 1
  OBVIOUS
<1>1. /\ Depth \in Nat /\ DOMAIN frames = 1..Depth
      /\ \A i \in 1..Depth : frames[i] \in Frames
  BY FrameFacts DEF IInv, Typed
<1>2. /\ frames' \in Seq(Frames)
      /\ DOMAIN frames' = 1..d
      /\ \A i \in 1..Depth : frames'[i] = frames[i]
      /\ frames'[d] = f
  BY <1>0, Pushed DEF IInv, Typed
<1>3. /\ \A i \in 1..Depth : Using(i)' <=> Using(i)
      /\ Using(d)'
  BY <1>2 DEF Using
<1>4. /\ c \notin made \ Pooled
      /\ made' = made \cup {c}
      /\ Pooled' = Pooled \ {c}
      /\ ci_pool' \in Seq(Info)
      /\ PoolDistinct'
  BY Taken DEF IInv
<1>5. /\ ci_current # c
      /\ \A i \in 1..Depth : frames[i].tmp # c
      /\ \A i \in 1..Depth : Using(i) => frames[i].ci # c
  BY <1>1, <1>4, CallInfoAssumption DEF IInv, Separate, CurrentSafe, Safe
<1>6. f.tmp # c /\ (f.tmp = NULL \/ f.tmp = ci_current)
  BY <1>5, CallInfoAssumption
<1>7. \A i \in 1..d : i \in 1..Depth \/ i = d
  BY <1>0, <1>1
<1>8. Typed'
  <2>1. ci_current' \in Info \cup {NULL} /\ made' \subseteq Info
    BY <1>4 DEF IInv, Typed
  <2>2. \A i \in 1..d : Using(i)' => frames'[i].ci \in Info
    BY <1>1, <1>2, <1>3, <1>7 DEF IInv, Typed
  <2> QED
    BY <1>2, <1>4, <2>1, <2>2 DEF Typed
<1>9. FramesDistinct'
  BY <1>1, <1>2, <1>3, <1>5, <1>7 DEF IInv, FramesDistinct
<1>10. Separate'
  BY <1>1, <1>2, <1>3, <1>4, <1>5, <1>7 DEF IInv, Separate
<1>11. TmpOlder'
  <2>1. ASSUME NEW i \in 1..d, NEW j \in 1..d, Using(i)',
               j <= i \/ frames'[i].kind = "closure"
        PROVE  frames'[j].tmp # frames'[i].ci
    <3>1. CASE i = d
      BY <1>2, <1>5, <1>6, <1>7, <3>1
    <3>2. CASE i \in 1..Depth /\ j \in 1..Depth
      BY <1>1, <1>2, <1>3, <2>1, <3>2 DEF IInv, TmpOlder
    <3>3. CASE i \in 1..Depth /\ j = d
      <4>1. frames[i].kind = "closure" /\ frames'[i] = frames[i] /\ Using(i)
        BY <1>0, <1>1, <1>2, <1>3, <2>1, <3>3
      <4>2. ci_current # frames[i].ci /\ frames[i].ci \in Info
        BY <1>1, <3>3, <4>1 DEF IInv, CurrentSafe, Typed
      <4> QED
        BY <1>2, <1>6, <3>3, <4>1, <4>2, CallInfoAssumption
    <3> QED
      BY <1>7, <3>1, <3>2, <3>3
  <2> QED
    BY <1>2, <2>1 DEF TmpOlder
<1>12. CurrentSafe'
  <2>1. Safe(ci_current)'
    BY <1>4, <1>5 DEF IInv, CurrentSafe, Safe
  <2>2. \A i \in 1..Depth : Safe(frames[i].tmp)'
    BY <1>1, <1>2, <1>4, <1>5 DEF IInv, CurrentSafe, Safe
  <2>3. Safe(f.tmp)'
    BY <1>4, <1>5, <1>6 DEF IInv, CurrentSafe, Safe
  <2>4. \A i \in 1..Depth : frames[i].kind = "closure" => ci_current' # frames[i].ci
    BY <1>1, <1>5 DEF IInv, CurrentSafe, Using
  <2>5. f.kind = "closure" => ci_current' # f.ci
    BY <1>5
  <2>6. \A i \in 1..d : Safe(frames[i].tmp)'
    BY <1>2, <1>7, <2>2, <2>3 DEF Safe
  <2>7. \A i \in 1..d : frames'[i].kind = "closure" => ci_current' # frames'[i].ci
    BY <1>2, <1>7, <2>4, <2>5
  <2> QED
    BY <1>2, <2>1, <2>6, <2>7 DEF CurrentSafe
<1> QED
  BY <1>4, <1>8, <1>9, <1>10, <1>11, <1>12 DEF IInv

(* A call fails before it begins: its structure is lost.                   *)
LEMMA FailedOK ==
  ASSUME IInv, NEW c \in Info, Allocated(c), NEW k \in 0..Depth,
         frames' = SubSeq(frames, 1, k), ci_current' = ci_current
  PROVE  IInv'
<1>1. /\ frames' \in Seq(Frames)
      /\ DOMAIN frames' = 1..k
      /\ \A i \in 1..k : frames'[i] = frames[i] /\ i \in DOMAIN frames
      /\ \A i \in 1..k : Using(i)' <=> Using(i)
  BY Cut, FrameFacts DEF IInv, Typed, Using
<1>2. /\ c \notin made \ Pooled
      /\ made' = made \cup {c}
      /\ Pooled' = Pooled \ {c}
      /\ ci_pool' \in Seq(Info)
      /\ PoolDistinct'
  BY Taken DEF IInv
<1>3. Typed'
  BY <1>1, <1>2 DEF IInv, Typed
<1>4. FramesDistinct' /\ TmpOlder'
  BY <1>1 DEF IInv, FramesDistinct, TmpOlder
<1>5. Separate'
  BY <1>1, <1>2 DEF IInv, Separate
<1>6. CurrentSafe'
  BY <1>1, <1>2 DEF IInv, CurrentSafe, Safe
<1> QED
  BY <1>2, <1>3, <1>4, <1>5, <1>6 DEF IInv

(* A signal handler takes no structure.                                    *)
LEMMA SignalOK ==
  ASSUME IInv, Signal
  PROVE  IInv'
<1> DEFINE f == Frame("signal", NULL, <<>>, NULL)
<1>0. PICK d : d = Depth + 1
  OBVIOUS
<1>1. /\ frames' = Append(frames, f)
      /\ ci_pool' = ci_pool /\ made' = made /\ ci_current' = ci_current
  BY DEF Signal
<1>2. f \in Frames /\ f.kind = "signal" /\ f.tmp = NULL
  <2>1. <<>> \in [1..0 -> AllForms] /\ 0 \in 0..MaxArg
    BY CallInfoAssumption
  <2> QED
    BY <2>1 DEF Frame, Frames
<1> HIDE DEF f
<1>3. /\ Depth \in Nat /\ DOMAIN frames = 1..Depth
      /\ frames' \in Seq(Frames)
      /\ DOMAIN frames' = 1..d
      /\ \A i \in 1..Depth : frames'[i] = frames[i]
      /\ frames'[d] = f
  BY <1>0, <1>1, <1>2, Pushed, FrameFacts DEF IInv, Typed
<1>4. /\ \A i \in 1..Depth : Using(i)' <=> Using(i)
      /\ ~Using(d)'
      /\ \A i \in 1..d : i \in 1..Depth \/ i = d
  BY <1>0, <1>2, <1>3 DEF Using
<1>5. Pooled' = Pooled
  BY <1>1 DEF Pooled
<1>6. Typed' /\ PoolDistinct'
  BY <1>1, <1>3, <1>4 DEF IInv, Typed, PoolDistinct
<1>7. FramesDistinct' /\ Separate'
  BY <1>1, <1>3, <1>4, <1>5 DEF IInv, FramesDistinct, Separate
<1>8. TmpOlder'
  <2>1. \A i \in 1..Depth : Using(i) => frames[i].ci # NULL
    BY <1>3, CallInfoAssumption DEF IInv, Typed
  <2>2. ASSUME NEW i \in 1..Depth, NEW j \in 1..d, Using(i),
               j <= i \/ frames[i].kind = "closure"
        PROVE  frames'[j].tmp # frames[i].ci
    BY <1>2, <1>3, <1>4, <2>1, <2>2 DEF IInv, TmpOlder
  <2> QED
    BY <1>3, <1>4, <2>2 DEF TmpOlder
<1>9. CurrentSafe'
  BY <1>1, <1>2, <1>3, <1>4, <1>5 DEF IInv, CurrentSafe, Safe
<1> QED
  BY <1>6, <1>7, <1>8, <1>9 DEF IInv

-----------------------------------------------------------------------------
(***************************************************************************)
(* The actions.                                                            *)
(***************************************************************************)
LEMMA InitOK == Init => IInv
<1> SUFFICES ASSUME Init PROVE IInv
  OBVIOUS
<1>1. /\ ci_pool = <<>> /\ frames = <<>> /\ made = {} /\ ci_current = NULL
      /\ DOMAIN frames = {} /\ DOMAIN ci_pool = {} /\ Pooled = {}
  BY DEF Init, Pooled
<1>2. Typed
  BY <1>1 DEF Typed
<1> QED
  BY <1>1, <1>2
     DEF IInv, PoolDistinct, FramesDistinct, Separate, CurrentSafe, Safe, TmpOlder

LEMMA CallOK ==
  ASSUME IInv, NEW c \in Info, NEW args \in Arguments, Call(c, args)
  PROVE  IInv'
<1> DEFINE f == Frame("call", c, args, ci_current)
<1>1. /\ Allocated(c) /\ ci_current' = c /\ frames' = Append(frames, f)
  BY DEF Call
<1>2. f \in Frames /\ f.kind = "call" /\ f.ci = c /\ f.tmp = ci_current
  <2>1. args \in UNION {[1..n -> AllForms] : n \in 0..MaxArg}
    BY CallInfoAssumption DEF Arguments
  <2> QED
    BY <2>1 DEF Frame, Frames, IInv, Typed
<1>3. PICK g : g = f
  OBVIOUS
<1> HIDE DEF f
<1> QED
  BY <1>1, <1>2, <1>3, StartedOK

LEMMA ClosureOK ==
  ASSUME IInv, NEW c \in Info, NEW out \in SUBSET ArgNr, Closure(c, out)
  PROVE  IInv'
<1> DEFINE f == Frame("closure", c,
                  [i \in ArgNr |-> IF i \in out THEN "inout" ELSE "value"], NULL)
<1>1. /\ Allocated(c) /\ ci_current' = ci_current /\ frames' = Append(frames, f)
  BY DEF Closure
<1>2. f \in Frames /\ f.kind = "closure" /\ f.ci = c /\ f.tmp = NULL
  <2>1. /\ [i \in ArgNr |-> IF i \in out THEN "inout" ELSE "value"]
             \in [1..MaxArg -> AllForms]
        /\ MaxArg \in 0..MaxArg
    BY CallInfoAssumption DEF ArgNr, AllForms
  <2> QED
    BY <2>1 DEF Frame, Frames
<1> HIDE DEF f
<1> QED
  BY <1>1, <1>2, StartedOK

LEMMA ReturnOK ==
  ASSUME IInv, CallReturn \/ ClosureReturn
  PROVE  IInv'
<1>1. /\ Depth > 0 /\ Freed(Top.ci) /\ made' = made
      /\ frames' = SubSeq(frames, 1, Depth - 1)
      /\ \/ ci_current' = Top.tmp /\ Top.kind = "call"
         \/ ci_current' = ci_current /\ Top.kind = "closure"
  BY DEF CallReturn, ClosureReturn, InLib
<1>2. Using(Depth)
  BY <1>1 DEF Using, Top
<1> QED
  BY <1>1, <1>2, ReturnedOK

LEMMA ErrorOK ==
  ASSUME IInv, NEW k \in 0..Depth, ReturnFails(k) \/ LuaError(k)
  PROVE  IInv'
<1>1. /\ frames' = SubSeq(frames, 1, k)
      /\ ci_pool' = ci_pool /\ made' = made
      /\ ci_current' = ci_current \/ (Depth > 0 /\ ci_current' = Top.tmp)
  BY DEF ReturnFails, LuaError, Unwound, InLib
<1>2. Depth > 0 => Depth \in DOMAIN frames /\ Top = frames[Depth]
  BY FrameFacts DEF Top, IInv, Typed
<1> QED
  BY <1>1, <1>2, UnwoundOK

LEMMA SignalReturnOK ==
  ASSUME IInv, SignalReturn
  PROVE  IInv'
<1>1. /\ Depth > 0 /\ frames' = SubSeq(frames, 1, Depth - 1)
      /\ ci_pool' = ci_pool /\ made' = made /\ ci_current' = ci_current
  BY DEF SignalReturn
<1>2. Depth - 1 \in 0..Depth
  BY <1>1, FrameFacts DEF IInv, Typed
<1> QED
  BY <1>1, <1>2, UnwoundOK

LEMMA NextOK == IInv /\ [Next]_vars => IInv'
<1> SUFFICES ASSUME IInv, [Next]_vars PROVE IInv'
  OBVIOUS
<1>1. CASE UNCHANGED vars
  BY <1>1 DEF vars, IInv, Typed, PoolDistinct, FramesDistinct, Separate, TmpOlder,
              CurrentSafe, Safe, Pooled, Using
<1>2. ASSUME NEW c \in Info, NEW args \in Arguments, Call(c, args)
      PROVE  IInv'
  BY <1>2, CallOK
<1>3. ASSUME NEW c \in Info, NEW args \in Arguments, NEW k \in 0..Depth,
             CallFails(c, args, k)
      PROVE  IInv'
  BY <1>3, FailedOK DEF CallFails
<1>4. CASE CallReturn \/ ClosureReturn
  BY <1>4, ReturnOK
<1>5. ASSUME NEW k \in 0..Depth, ReturnFails(k) \/ LuaError(k)
      PROVE  IInv'
  BY <1>5, ErrorOK
<1>6. ASSUME NEW c \in Info, NEW out \in SUBSET (IF OutArgs THEN ArgNr ELSE {}),
             Closure(c, out)
      PROVE  IInv'
  BY <1>6, ClosureOK
<1>7. CASE Signal \/ SignalReturn
  BY <1>7, SignalOK, SignalReturnOK
<1> QED
  BY <1>1, <1>2, <1>3, <1>4, <1>5, <1>6, <1>7 DEF Next

LEMMA Invariance == Spec => []IInv
BY InitOK, NextOK, PTL DEF Spec

-----------------------------------------------------------------------------
(* However deep calls nest and wherever errors strike, call_info_alloc     *)
(* never gives out a structure that is in use, and call_info_free never    *)
(* puts one into the pool twice.                                           *)
THEOREM PoolIsSound == Spec => []PoolSound
<1>1. IInv => PoolSound
  BY DEF IInv, PoolSound, PoolDistinct, FramesDistinct, Separate, InUse
<1> QED
  BY <1>1, Invariance, PTL

(* ci_current and the values lg_call has saved to restore it never lead to *)
(* a structure in the pool, nor to one a closure uses (lg_log_func).       *)
THEOREM CurrentIsSafe == Spec => []CurrentSafe
<1>1. IInv => CurrentSafe
  BY DEF IInv
<1> QED
  BY <1>1, Invariance, PTL

-----------------------------------------------------------------------------
(***************************************************************************)
(* The flags of arguments, as long as closures have no output arguments.   *)
(* Unless an error has lost it, a structure has flags only below arg_count,*)
(* which is what call_info_alloc clears.                                   *)
(***************************************************************************)
FlagsTyped ==
  /\ is_output \in [Info -> SUBSET ArgNr] /\ free_method \in [Info -> SUBSET ArgNr]
  /\ arg_count \in [Info -> Nat]

Clean == \A c \in Info \ Lost :
           is_output[c] \subseteq Zeroed(c) /\ free_method[c] \subseteq Zeroed(c)

FInv == IInv /\ FlagsTyped /\ Clean /\ FlagsExact

(* Nothing changes but the stack, and maybe a structure that was in use is *)
(* returned.                                                               *)
LEMMA FlagsSame ==
  ASSUME FInv, NEW k \in 0..Depth, frames' = SubSeq(frames, 1, k),
         UNCHANGED <<is_output, free_method, arg_count>>, made' = made,
         Pooled' \subseteq Pooled \cup InUse
  PROVE  FlagsTyped' /\ Clean' /\ FlagsExact'
<1>1. /\ DOMAIN frames' = 1..k
      /\ \A i \in 1..k : frames'[i] = frames[i] /\ i \in DOMAIN frames
      /\ \A i \in 1..k : Using(i)' <=> Using(i)
  BY Cut, FrameFacts DEF FInv, IInv, Typed, Using
<1>2. InUse' \subseteq InUse
  BY <1>1 DEF InUse
<1>3. Lost \subseteq Lost'
  BY <1>2 DEF Lost
<1>4. \A c : Zeroed(c)' = Zeroed(c)
  BY DEF Zeroed
<1>5. FlagsTyped' /\ Clean'
  BY <1>3, <1>4 DEF FInv, FlagsTyped, Clean
<1>6. FlagsExact'
  BY <1>1 DEF FInv, FlagsExact, With
<1> QED
  BY <1>5, <1>6

(* A call or a closure begins: its structure has exactly its own flags.    *)
LEMMA FlagsStarted ==
  ASSUME FInv, IInv', NEW c \in Info, Allocated(c),
         NEW f \in Frames, f.ci = c, f.kind # "signal",
         frames' = Append(frames, f),
         NEW out, NEW free,
         out = With(f.args, {"inout", "gvalue"}),
         free = With(f.args, {"gvalue", "boxed"}),
         out \subseteq ArgNr, free \subseteq ArgNr,
         is_output' = [is_output EXCEPT ![c] = (@ \ Zeroed(c)) \cup out],
         free_method' = [free_method EXCEPT ![c] = (@ \ Zeroed(c)) \cup free],
         NEW n \in Nat, arg_count' = [arg_count EXCEPT ![c] = n],
         \A i \in out \cup free : i < n
  PROVE  FlagsTyped' /\ Clean' /\ FlagsExact'
<1>0. PICK d : d = Depth + 1
  OBVIOUS
<1>1. /\ Depth \in Nat /\ DOMAIN frames = 1..Depth
      /\ DOMAIN frames' = 1..d
      /\ \A i \in 1..Depth : frames'[i] = frames[i]
      /\ frames'[d] = f
      /\ \A i \in 1..d : i \in 1..Depth \/ i = d
  BY <1>0, Pushed, FrameFacts DEF FInv, IInv, Typed
<1>2. /\ \A i \in 1..Depth : Using(i)' <=> Using(i)
      /\ \A i \in 1..Depth : Using(i) => frames[i].ci \in Info
  BY <1>1 DEF Using, FInv, IInv, Typed
<1>3. /\ c \notin made \ Pooled
      /\ made' = made \cup {c}
      /\ Pooled' = Pooled \ {c}
  BY Taken DEF FInv, IInv
<1>4. c \notin Lost
  BY <1>3 DEF Lost
<1>5. is_output'[c] = out /\ free_method'[c] = free
  BY <1>4 DEF FInv, FlagsTyped, Clean
<1>6. \A b \in Info : b # c =>
        /\ is_output'[b] = is_output[b] /\ free_method'[b] = free_method[b]
        /\ Zeroed(b)' = Zeroed(b)
  BY DEF FInv, FlagsTyped, Zeroed
<1>7. FlagsTyped'
  BY DEF FInv, FlagsTyped
<1>8. Clean'
  <2>1. out \subseteq Zeroed(c)' /\ free \subseteq Zeroed(c)'
    BY DEF Zeroed, FInv, FlagsTyped
  <2>2. \A b \in Info : b # c /\ b \notin Lost' => b \notin Lost
    <3>1. InUse \subseteq InUse'
      BY <1>0, <1>1, <1>2 DEF InUse
    <3>2. ASSUME NEW b \in InUse', b # c PROVE b \in InUse
      BY <1>1, <1>2, <3>2 DEF InUse
    <3> QED
      BY <1>3, <3>1, <3>2 DEF Lost
  <2> QED
    BY <1>5, <1>6, <2>1, <2>2 DEF FInv, Clean
<1>9. FlagsExact'
  <2>1. \A i \in 1..Depth : Using(i) => frames[i].ci # c
    BY <1>1, <1>3 DEF FInv, IInv, Separate
  <2>2. ASSUME NEW i \in 1..d, Using(i)'
        PROVE  /\ is_output'[frames'[i].ci] = With(frames'[i].args, {"inout", "gvalue"})
               /\ free_method'[frames'[i].ci] = With(frames'[i].args, {"gvalue", "boxed"})
    <3>1. CASE i = d
      BY <1>1, <1>5, <3>1
    <3>2. CASE i \in 1..Depth
      BY <1>1, <1>2, <1>6, <2>1, <2>2, <3>2 DEF FInv, FlagsExact
    <3> QED
      BY <1>1, <3>1, <3>2
  <2> QED
    BY <1>1, <2>2 DEF FlagsExact, With
<1> QED
  BY <1>7, <1>8, <1>9

(* The arguments that have been converted, as flags. *)
LEMMA WithFacts ==
  ASSUME NEW args \in Arguments, NEW forms
  PROVE  /\ With(args, forms) \subseteq ArgNr
         /\ Len(args) + 1 \in Nat
         /\ \A i \in With(args, forms) : i < Len(args) + 1
<1>1. PICK n \in 0..MaxArg : args \in [1..n -> Forms]
  BY DEF Arguments
<1>2. n \in Nat /\ args \in Seq(Forms)
  BY <1>1, CallInfoAssumption, SeqDef
<1>3. Len(args) \in Nat /\ DOMAIN args = 1..Len(args) /\ DOMAIN args = 1..n
  BY <1>1, <1>2, LenProperties
<1> QED
  BY <1>2, <1>3, CallInfoAssumption DEF With, ArgNr

LEMMA FlagsCall ==
  ASSUME FInv, IInv', NEW c \in Info, NEW args \in Arguments, Call(c, args)
  PROVE  FlagsTyped' /\ Clean' /\ FlagsExact'
<1>1. PICK f : f = Frame("call", c, args, ci_current)
  OBVIOUS
<1>2. f \in Frames /\ f.kind = "call" /\ f.ci = c /\ f.args = args
  <2>1. args \in UNION {[1..n -> AllForms] : n \in 0..MaxArg}
    BY CallInfoAssumption DEF Arguments
  <2> QED
    BY <1>1, <2>1 DEF Frame, Frames, FInv, IInv, Typed
<1> DEFINE out  == With(args, {"inout", "gvalue"})
           free == With(args, {"gvalue", "boxed"})
<1>3. /\ Allocated(c) /\ frames' = Append(frames, f)
      /\ is_output' = [is_output EXCEPT ![c] = (@ \ Zeroed(c)) \cup out]
      /\ free_method' = [free_method EXCEPT ![c] = (@ \ Zeroed(c)) \cup free]
      /\ arg_count' = [arg_count EXCEPT ![c] = Len(args) + 1]
  BY <1>1 DEF Call, Built
<1>4. /\ out \subseteq ArgNr /\ free \subseteq ArgNr /\ Len(args) + 1 \in Nat
      /\ \A i \in out \cup free : i < Len(args) + 1
      /\ out = With(f.args, {"inout", "gvalue"})
      /\ free = With(f.args, {"gvalue", "boxed"})
  BY <1>2, WithFacts
<1> HIDE DEF out, free
<1> QED
  BY <1>2, <1>3, <1>4, FlagsStarted

(* A call that fails loses its structure, with whatever flags it has.      *)
LEMMA FlagsFailed ==
  ASSUME FInv, NEW c \in Info, NEW args \in Arguments, NEW k \in 0..Depth,
         CallFails(c, args, k)
  PROVE  FlagsTyped' /\ Clean' /\ FlagsExact'
<1>1. /\ DOMAIN frames' = 1..k
      /\ \A i \in 1..k : frames'[i] = frames[i] /\ i \in DOMAIN frames
      /\ \A i \in 1..k : Using(i)' <=> Using(i)
      /\ \A i \in 1..k : Using(i) => frames[i].ci \in Info
  <2>1. frames \in Seq(Frames) /\ frames' = SubSeq(frames, 1, k)
    BY DEF CallFails, FInv, IInv, Typed
  <2>2. /\ DOMAIN frames' = 1..k
        /\ \A i \in 1..k : frames'[i] = frames[i] /\ i \in DOMAIN frames
    BY <2>1, Cut, FrameFacts
  <2> QED
    BY <2>2 DEF FInv, IInv, Typed, Using
<1>2. /\ c \notin made \ Pooled
      /\ made' = made \cup {c}
      /\ Pooled' = Pooled \ {c}
  BY Taken DEF CallFails, FInv, IInv
<1>3. /\ InUse' \subseteq InUse /\ c \notin InUse
      /\ \A i \in 1..k : Using(i) => frames[i].ci # c
  BY <1>1, <1>2 DEF InUse, FInv, IInv, Separate
<1>4. c \in Lost' /\ Lost \subseteq Lost'
  BY <1>2, <1>3 DEF Lost
<1>5. \A b \in Info : b # c =>
        /\ is_output'[b] = is_output[b] /\ free_method'[b] = free_method[b]
        /\ Zeroed(b)' = Zeroed(b)
  BY DEF CallFails, Built, FInv, FlagsTyped, Zeroed
<1>6. FlagsTyped'
  BY WithFacts DEF CallFails, Built, FInv, FlagsTyped
<1>7. Clean'
  BY <1>4, <1>5 DEF FInv, Clean
<1>8. FlagsExact'
  BY <1>1, <1>3, <1>5 DEF FInv, FlagsExact, With
<1> QED
  BY <1>6, <1>7, <1>8

LEMMA FlagsClosure ==
  ASSUME FInv, IInv', NEW c \in Info, Closure(c, {})
  PROVE  FlagsTyped' /\ Clean' /\ FlagsExact'
<1> DEFINE values == [i \in ArgNr |-> IF i \in {} THEN "inout" ELSE "value"]
<1>1. PICK f : f = Frame("closure", c, values, NULL)
  OBVIOUS
<1>2. /\ values \in [1..MaxArg -> AllForms] /\ MaxArg \in 0..MaxArg
      /\ \A i \in DOMAIN values : values[i] = "value"
  BY CallInfoAssumption DEF ArgNr, AllForms
<1>3. f \in Frames /\ f.kind = "closure" /\ f.ci = c /\ f.args = values
  BY <1>1, <1>2 DEF Frame, Frames
<1>4. With(f.args, {"inout", "gvalue"}) = {} /\ With(f.args, {"gvalue", "boxed"}) = {}
  BY <1>2, <1>3 DEF With
<1>5. /\ Allocated(c) /\ frames' = Append(frames, f)
      /\ is_output' = [is_output EXCEPT ![c] = (@ \ Zeroed(c)) \cup {}]
      /\ free_method' = [free_method EXCEPT ![c] = (@ \ Zeroed(c)) \cup {}]
      /\ arg_count' = [arg_count EXCEPT ![c] = 0]
  <2>1. /\ Allocated(c) /\ frames' = Append(frames, f)
        /\ is_output' = [is_output EXCEPT ![c] = (@ \ Zeroed(c)) \cup {}]
        /\ free_method' = [free_method EXCEPT ![c] = @ \ Zeroed(c)]
        /\ arg_count' = [arg_count EXCEPT ![c] = 0]
    BY <1>1 DEF Closure
  <2>2. \A S : S \cup {} = S
    OBVIOUS
  <2> QED
    BY <2>1, <2>2
<1> HIDE DEF values
<1> QED
  BY <1>3, <1>4, <1>5, FlagsStarted

LEMMA FlagsSignal ==
  ASSUME FInv, Signal
  PROVE  FlagsTyped' /\ Clean' /\ FlagsExact'
<1>0. PICK d : d = Depth + 1
  OBVIOUS
<1>1. PICK f : f = Frame("signal", NULL, <<>>, NULL)
  OBVIOUS
<1>2. f \in Frames /\ f.kind = "signal"
  <2>1. <<>> \in [1..0 -> AllForms] /\ 0 \in 0..MaxArg
    BY CallInfoAssumption
  <2> QED
    BY <1>1, <2>1 DEF Frame, Frames
<1>3. /\ DOMAIN frames = 1..Depth /\ DOMAIN frames' = 1..d /\ Depth \in Nat
      /\ \A i \in 1..Depth : frames'[i] = frames[i]
      /\ frames'[d] = f
  BY <1>0, <1>1, <1>2, Pushed, FrameFacts DEF Signal, FInv, IInv, Typed
<1>4. /\ \A i \in 1..d : i \in 1..Depth \/ i = d
      /\ \A i \in 1..d : Using(i)' <=> i \in 1..Depth /\ Using(i)
      /\ UNCHANGED <<made, ci_pool, is_output, free_method, arg_count>>
  BY <1>0, <1>2, <1>3 DEF Using, Signal, infoVars
<1>5. InUse' = InUse
  BY <1>0, <1>3, <1>4 DEF InUse
<1>6. Lost' = Lost
  BY <1>4, <1>5 DEF Lost, Pooled
<1>7. FlagsTyped' /\ Clean'
  BY <1>4, <1>6 DEF FInv, FlagsTyped, Clean, Zeroed
<1>8. FlagsExact'
  BY <1>3, <1>4 DEF FInv, FlagsExact, With
<1> QED
  BY <1>7, <1>8

LEMMA FlagsReturn ==
  ASSUME FInv, CallReturn \/ ClosureReturn
  PROVE  FlagsTyped' /\ Clean' /\ FlagsExact'
<1>1. /\ Depth > 0 /\ Freed(Top.ci) /\ Top.kind # "signal"
      /\ frames' = SubSeq(frames, 1, Depth - 1)
      /\ UNCHANGED <<is_output, free_method, arg_count>> /\ made' = made
  BY DEF CallReturn, ClosureReturn, InLib
<1>2. /\ Depth \in DOMAIN frames /\ Depth - 1 \in 0..Depth /\ Using(Depth)
      /\ Top.ci = frames[Depth].ci
  BY <1>1, FrameFacts DEF FInv, IInv, Typed, Top, Using
<1>3. Top.ci \in Info /\ Top.ci \notin Pooled /\ Top.ci \in InUse
  BY <1>2 DEF FInv, IInv, Typed, Separate, InUse
<1>4. Pooled' = Pooled \cup {Top.ci}
  BY <1>1, <1>3, Given DEF FInv, IInv
<1> QED
  BY <1>1, <1>2, <1>3, <1>4, FlagsSame

LEMMA FlagsCut ==
  ASSUME FInv,
         SignalReturn \/ \E k \in 0..Depth : ReturnFails(k) \/ LuaError(k)
  PROVE  FlagsTyped' /\ Clean' /\ FlagsExact'
<1>1. /\ UNCHANGED <<is_output, free_method, arg_count>> /\ made' = made
      /\ Pooled' = Pooled
  BY DEF SignalReturn, ReturnFails, LuaError, infoVars, Pooled
<1>2. \E k \in 0..Depth : frames' = SubSeq(frames, 1, k)
  BY FrameFacts DEF SignalReturn, ReturnFails, LuaError, Unwound, FInv, IInv, Typed
<1> QED
  BY <1>1, <1>2, FlagsSame

LEMMA FlagsNext ==
  ASSUME ~OutArgs
  PROVE  FInv /\ IInv' /\ [Next]_vars => FInv'
<1> SUFFICES ASSUME FInv, IInv', [Next]_vars
             PROVE  FlagsTyped' /\ Clean' /\ FlagsExact'
  BY DEF FInv
<1>1. CASE UNCHANGED vars
  BY <1>1 DEF vars, infoVars, FInv, FlagsTyped, Clean, FlagsExact, Lost, InUse,
              Pooled, Using, Zeroed, With
<1>2. ASSUME NEW c \in Info, NEW args \in Arguments,
             Call(c, args) \/ \E k \in 0..Depth : CallFails(c, args, k)
      PROVE  FlagsTyped' /\ Clean' /\ FlagsExact'
  BY <1>2, FlagsCall, FlagsFailed
<1>3. CASE CallReturn \/ ClosureReturn
  BY <1>3, FlagsReturn
<1>4. CASE SignalReturn \/ \E k \in 0..Depth : ReturnFails(k) \/ LuaError(k)
  BY <1>4, FlagsCut
<1>5. ASSUME NEW c \in Info, NEW out \in SUBSET (IF OutArgs THEN ArgNr ELSE {}),
             Closure(c, out)
      PROVE  FlagsTyped' /\ Clean' /\ FlagsExact'
  <2>1. out = {}
    OBVIOUS
  <2> QED
    BY <1>5, <2>1, FlagsClosure
<1>6. CASE Signal
  BY <1>6, FlagsSignal
<1> QED
  BY <1>1, <1>2, <1>3, <1>4, <1>5, <1>6 DEF Next

(* Unless closures have output arguments, a call sees exactly the flags of *)
(* its own arguments, although call_info_alloc clears only as many as the  *)
(* last call had: what is lost with an error is never used again.          *)
THEOREM FlagsAreExact == ASSUME ~OutArgs PROVE Spec => []FlagsExact
<1>1. Init => FInv
  <2> SUFFICES ASSUME Init PROVE FInv
    OBVIOUS
  <2>1. FlagsTyped /\ Clean /\ FlagsExact
    BY DEF Init, FlagsTyped, Clean, FlagsExact
  <2> QED
    BY <2>1, InitOK DEF FInv
<1>2. FInv /\ IInv' /\ [Next]_vars => FInv'
  BY FlagsNext
<1>3. FInv => FlagsExact
  BY DEF FInv
<1> QED
  BY <1>1, <1>2, <1>3, Invariance, PTL DEF Spec

-----------------------------------------------------------------------------
(***************************************************************************)
(* Boxed values made for arguments.  A box of a structure that is in use   *)
(* is an argument that call_info_free will look at; a structure that is    *)
(* taken has none.                                                         *)
(***************************************************************************)
Covered(b) ==
  /\ b[1] \in made \ Pooled
  /\ \A i \in DOMAIN frames :
       Using(i) /\ frames[i].ci = b[1] =>
         b[2] \in free_method[b[1]] /\ b[2] < arg_count[b[1]]

BoxesOK == boxes \subseteq Info \X ArgNr /\ \A b \in boxes : Covered(b)

BInv == IInv /\ FlagsTyped /\ BoxesOK

(* Nothing changes but the stack, which is cut. *)
LEMMA BoxesCut ==
  ASSUME BInv, SignalReturn \/ \E k \in 0..Depth : ReturnFails(k) \/ LuaError(k)
  PROVE  BoxesOK' /\ FlagsTyped'
<1>1. /\ UNCHANGED <<is_output, free_method, arg_count, boxes, made>>
      /\ Pooled' = Pooled
  BY DEF SignalReturn, ReturnFails, LuaError, infoVars, Pooled
<1>2. \E k \in 0..Depth : frames' = SubSeq(frames, 1, k)
  BY FrameFacts DEF SignalReturn, ReturnFails, LuaError, Unwound, BInv, IInv, Typed
<1>3. /\ \A i \in DOMAIN frames' : i \in DOMAIN frames /\ frames'[i] = frames[i]
      /\ \A i \in DOMAIN frames' : Using(i)' <=> Using(i)
  BY <1>2, Cut, FrameFacts DEF BInv, IInv, Typed, Using
<1>4. \A b \in boxes : Covered(b)'
  BY <1>1, <1>3 DEF BInv, BoxesOK, Covered
<1> QED
  BY <1>1, <1>4 DEF BInv, BoxesOK, FlagsTyped

(* A handler for a signal has no structure. *)
LEMMA BoxesSignal ==
  ASSUME BInv, Signal
  PROVE  BoxesOK' /\ FlagsTyped'
<1>0. PICK d : d = Depth + 1
  OBVIOUS
<1>1. PICK f : f = Frame("signal", NULL, <<>>, NULL)
  OBVIOUS
<1>2. f \in Frames /\ f.kind = "signal"
  <2>1. <<>> \in [1..0 -> AllForms] /\ 0 \in 0..MaxArg
    BY CallInfoAssumption
  <2> QED
    BY <1>1, <2>1 DEF Frame, Frames
<1>3. /\ DOMAIN frames = 1..Depth /\ DOMAIN frames' = 1..d /\ Depth \in Nat
      /\ \A i \in 1..Depth : frames'[i] = frames[i]
      /\ frames'[d] = f
  BY <1>0, <1>1, <1>2, Pushed, FrameFacts DEF Signal, BInv, IInv, Typed
<1>4. /\ \A i \in 1..d : Using(i)' <=> i \in 1..Depth /\ Using(i)
      /\ UNCHANGED <<made, is_output, free_method, arg_count, boxes>>
      /\ Pooled' = Pooled
  BY <1>0, <1>2, <1>3 DEF Using, Signal, infoVars, Pooled
<1>5. \A b \in boxes : Covered(b)'
  BY <1>3, <1>4 DEF BInv, BoxesOK, Covered
<1> QED
  BY <1>4, <1>5 DEF BInv, BoxesOK, FlagsTyped

(* What a structure that is not in use changes to, and the frames that are *)
(* left, concern no box but its own.                                       *)
LEMMA BoxesElsewhere ==
  ASSUME BInv, NEW c \in Info, c \notin made \ Pooled,
         made' = made \cup {c}, Pooled' = Pooled \ {c},
         \A i \in DOMAIN frames' :
           \/ i \in DOMAIN frames /\ frames'[i] = frames[i]
           \/ frames'[i].kind # "signal" /\ frames'[i].ci = c,
         \A a \in Info \ {c} :
           free_method'[a] = free_method[a] /\ arg_count'[a] = arg_count[a],
         NEW b \in boxes
  PROVE  Covered(b)'
<1>1. b[1] \in made \ Pooled /\ b[1] # c /\ b[1] \in Info
  BY DEF BInv, BoxesOK, Covered
<1>2. b[1] \in (made \ Pooled)'
  BY <1>1
<1>3. ASSUME NEW i \in DOMAIN frames', Using(i)', frames'[i].ci = b[1]
      PROVE  b[2] \in free_method'[b[1]] /\ b[2] < arg_count'[b[1]]
  <2>1. i \in DOMAIN frames /\ frames'[i] = frames[i]
    BY <1>1, <1>3
  <2>2. Using(i)
    BY <1>3, <2>1 DEF Using
  <2> QED
    BY <1>1, <1>3, <2>1, <2>2 DEF BInv, BoxesOK, Covered
<1> QED
  BY <1>2, <1>3 DEF Covered

(* A call takes a structure without boxes, and makes its own. *)
LEMMA BoxesCall ==
  ASSUME BInv, NEW c \in Info, NEW args \in Arguments, Call(c, args)
  PROVE  BoxesOK' /\ FlagsTyped'
<1>0. PICK d : d = Depth + 1
  OBVIOUS
<1>1. PICK f : f = Frame("call", c, args, ci_current)
  OBVIOUS
<1>2. f \in Frames /\ f.kind = "call" /\ f.ci = c
  <2>1. args \in UNION {[1..n -> AllForms] : n \in 0..MaxArg}
    BY CallInfoAssumption DEF Arguments
  <2> QED
    BY <1>1, <2>1 DEF Frame, Frames, BInv, IInv, Typed
<1>3. /\ DOMAIN frames = 1..Depth /\ DOMAIN frames' = 1..d /\ Depth \in Nat
      /\ \A i \in 1..Depth : frames'[i] = frames[i]
      /\ frames'[d] = f
      /\ \A i \in 1..d : i \in 1..Depth \/ i = d
  BY <1>0, <1>1, <1>2, Pushed, FrameFacts DEF Call, BInv, IInv, Typed
<1>4. c \notin made \ Pooled /\ made' = made \cup {c} /\ Pooled' = Pooled \ {c}
  BY Taken DEF Call, BInv, IInv
<1> DEFINE boxed == With(args, {"boxed"})
           free  == With(args, {"gvalue", "boxed"})
           out   == With(args, {"inout", "gvalue"})
<1>5. /\ is_output' = [is_output EXCEPT ![c] = (@ \ Zeroed(c)) \cup out]
      /\ free_method' = [free_method EXCEPT ![c] = (@ \ Zeroed(c)) \cup free]
      /\ arg_count' = [arg_count EXCEPT ![c] = Len(args) + 1]
      /\ boxes' = boxes \cup {<<c, i>> : i \in boxed}
  BY DEF Call, Built
<1>6. /\ free \subseteq ArgNr /\ out \subseteq ArgNr /\ Len(args) + 1 \in Nat
      /\ \A i \in free : i < Len(args) + 1
  BY WithFacts
<1>7. boxed \subseteq free
  BY DEF With
<1> HIDE DEF boxed, free, out
<1>8. FlagsTyped'
  BY <1>5, <1>6 DEF BInv, FlagsTyped
<1>9. \A b \in boxes : Covered(b)'
  BY <1>2, <1>3, <1>4, <1>5, BoxesElsewhere DEF BInv, FlagsTyped
<1>10. ASSUME NEW i \in boxed
       PROVE  Covered(<<c, i>>)'
  <2>1. c \in (made \ Pooled)'
    BY <1>4
  <2>2. i \in free_method'[c] /\ i < arg_count'[c]
    BY <1>5, <1>6, <1>7 DEF BInv, FlagsTyped
  <2> QED
    BY <2>1, <2>2 DEF Covered
<1>11. boxes' \subseteq Info \X ArgNr
  BY <1>5, <1>6, <1>7 DEF BInv, BoxesOK
<1> QED
  BY <1>5, <1>8, <1>9, <1>10, <1>11 DEF BoxesOK

(* One that fails loses them with the structure. *)
LEMMA BoxesFailed ==
  ASSUME BInv, NEW c \in Info, NEW args \in Arguments, NEW k \in 0..Depth,
         CallFails(c, args, k)
  PROVE  BoxesOK' /\ FlagsTyped'
<1>1. /\ DOMAIN frames' = 1..k
      /\ \A i \in 1..k : frames'[i] = frames[i] /\ i \in DOMAIN frames
  BY Cut, FrameFacts DEF CallFails, BInv, IInv, Typed
<1>2. c \notin made \ Pooled /\ made' = made \cup {c} /\ Pooled' = Pooled \ {c}
  BY Taken DEF CallFails, BInv, IInv
<1>3. \A i \in 1..k : Using(i)' => frames'[i].ci # c
  BY <1>1, <1>2 DEF Using, BInv, IInv, Separate
<1> DEFINE boxed == With(args, {"boxed"})
<1>4. boxes' = boxes \cup {<<c, i>> : i \in boxed} /\ boxed \subseteq ArgNr
  BY WithFacts DEF CallFails, Built
<1> HIDE DEF boxed
<1>5. FlagsTyped'
  BY WithFacts DEF CallFails, Built, BInv, FlagsTyped
<1>6. \A a \in Info \ {c} :
        free_method'[a] = free_method[a] /\ arg_count'[a] = arg_count[a]
  BY DEF CallFails, Built, BInv, FlagsTyped
<1>7. \A b \in boxes : Covered(b)'
  BY <1>1, <1>2, <1>6, BoxesElsewhere
<1>8. \A i \in boxed : Covered(<<c, i>>)'
  BY <1>1, <1>2, <1>3 DEF Covered
<1> QED
  BY <1>4, <1>5, <1>7, <1>8 DEF BInv, BoxesOK

(* A closure makes no boxes. *)
LEMMA BoxesClosure ==
  ASSUME BInv, NEW c \in Info, NEW outs \in SUBSET ArgNr, Closure(c, outs)
  PROVE  BoxesOK' /\ FlagsTyped'
<1>0. PICK d : d = Depth + 1
  OBVIOUS
<1>1. PICK f : f = Frame("closure", c,
                  [i \in ArgNr |-> IF i \in outs THEN "inout" ELSE "value"], NULL)
  OBVIOUS
<1>2. f \in Frames /\ f.kind = "closure" /\ f.ci = c
  BY <1>1, CallInfoAssumption DEF Frame, Frames, ArgNr, AllForms
<1>3. /\ DOMAIN frames = 1..Depth /\ DOMAIN frames' = 1..d /\ Depth \in Nat
      /\ \A i \in 1..Depth : frames'[i] = frames[i]
      /\ frames'[d] = f
      /\ \A i \in 1..d : i \in 1..Depth \/ i = d
  BY <1>0, <1>1, <1>2, Pushed, FrameFacts DEF Closure, BInv, IInv, Typed
<1>4. c \notin made \ Pooled /\ made' = made \cup {c} /\ Pooled' = Pooled \ {c}
  BY Taken DEF Closure, BInv, IInv
<1>5. boxes' = boxes
  BY DEF Closure
<1>6. FlagsTyped'
  BY DEF Closure, BInv, FlagsTyped
<1>7. \A a \in Info \ {c} :
        free_method'[a] = free_method[a] /\ arg_count'[a] = arg_count[a]
  BY DEF Closure, BInv, FlagsTyped
<1>8. \A b \in boxes : Covered(b)'
  BY <1>2, <1>3, <1>4, <1>7, BoxesElsewhere
<1> QED
  BY <1>5, <1>6, <1>8 DEF BInv, BoxesOK

(* call_info_free frees the boxes of the structure, all of them. *)
LEMMA BoxesReturn ==
  ASSUME BInv, CallReturn \/ ClosureReturn
  PROVE  BoxesOK' /\ FlagsTyped'
<1>1. /\ Depth > 0 /\ Freed(Top.ci) /\ Top.kind # "signal"
      /\ frames' = SubSeq(frames, 1, Depth - 1)
      /\ UNCHANGED <<is_output, free_method, arg_count>> /\ made' = made
  BY DEF CallReturn, ClosureReturn, InLib
<1>2. /\ Depth \in DOMAIN frames /\ Depth - 1 \in 0..Depth /\ Using(Depth)
      /\ Top.ci = frames[Depth].ci
  BY <1>1, FrameFacts DEF BInv, IInv, Typed, Top, Using
<1>3. Top.ci \in Info /\ Top.ci \notin Pooled
  BY <1>2 DEF BInv, IInv, Typed, Separate
<1>4. Pooled' = Pooled \cup {Top.ci}
  BY <1>1, <1>3, Given DEF BInv, IInv
<1>5. /\ \A i \in DOMAIN frames' : i \in DOMAIN frames /\ frames'[i] = frames[i]
      /\ \A i \in DOMAIN frames' : Using(i)' <=> Using(i)
  BY <1>1, <1>2, Cut, FrameFacts DEF BInv, IInv, Typed, Using
<1>6. \A b \in boxes' : b \in boxes /\ b[1] # Top.ci
  <2>1. boxes' = boxes \ {<<Top.ci, i>> : i \in ToFree(Top.ci)}
    BY <1>1 DEF Freed
  <2>2. ASSUME NEW b \in boxes, b[1] = Top.ci
        PROVE  b \notin boxes'
    <3>1. b[2] \in ToFree(Top.ci)
      BY <1>2, <2>2 DEF BInv, BoxesOK, Covered, ToFree
    <3>2. b = <<Top.ci, b[2]>>
      BY <2>2 DEF BInv, BoxesOK
    <3> QED
      BY <2>1, <3>1, <3>2
  <2> QED
    BY <2>1, <2>2
<1>7. \A b \in boxes' : Covered(b)'
  BY <1>1, <1>4, <1>5, <1>6 DEF BInv, BoxesOK, Covered
<1> QED
  BY <1>1, <1>6, <1>7 DEF BInv, BoxesOK, FlagsTyped

LEMMA BoxesNext == BInv /\ IInv' /\ [Next]_vars => BInv'
<1> SUFFICES ASSUME BInv, [Next]_vars PROVE BoxesOK' /\ FlagsTyped'
  BY DEF BInv
<1>1. CASE UNCHANGED vars
  BY <1>1 DEF vars, infoVars, BInv, FlagsTyped, BoxesOK, Covered, Pooled, Using
<1>2. ASSUME NEW c \in Info, NEW args \in Arguments,
             Call(c, args) \/ \E k \in 0..Depth : CallFails(c, args, k)
      PROVE  BoxesOK' /\ FlagsTyped'
  BY <1>2, BoxesCall, BoxesFailed
<1>3. CASE CallReturn \/ ClosureReturn
  BY <1>3, BoxesReturn
<1>4. CASE SignalReturn \/ \E k \in 0..Depth : ReturnFails(k) \/ LuaError(k)
  BY <1>4, BoxesCut
<1>5. ASSUME NEW c \in Info, NEW outs \in SUBSET (IF OutArgs THEN ArgNr ELSE {}),
             Closure(c, outs)
      PROVE  BoxesOK' /\ FlagsTyped'
  <2>1. outs \in SUBSET ArgNr
    OBVIOUS
  <2> QED
    BY <1>5, <2>1, BoxesClosure
<1>6. CASE Signal
  BY <1>6, BoxesSignal
<1> QED
  BY <1>1, <1>2, <1>3, <1>4, <1>5, <1>6 DEF Next

(* Whatever the arguments are and however calls end, call_info_free gives  *)
(* back every boxed value that was made for the arguments of the call      *)
(* (call.c): none is left with a structure that is in the pool.            *)
THEOREM BoxesAreFreed == Spec => []BoxesFreed
<1>1. Init => BInv
  <2> SUFFICES ASSUME Init PROVE BInv
    OBVIOUS
  <2>1. FlagsTyped /\ BoxesOK
    BY DEF Init, FlagsTyped, BoxesOK
  <2> QED
    BY <2>1, InitOK DEF BInv
<1>2. BInv /\ IInv' /\ [Next]_vars => BInv'
  BY BoxesNext
<1>3. BInv => BoxesFreed
  BY DEF BInv, BoxesOK, Covered, BoxesFreed
<1> QED
  BY <1>1, <1>2, <1>3, Invariance, PTL DEF Spec

-----------------------------------------------------------------------------
(***************************************************************************)
(* Faults.  A call has arguments of the forms that the program uses.       *)
(***************************************************************************)
CallArgs ==
  \A i \in DOMAIN frames :
    frames[i].kind = "call" =>
      \A j \in DOMAIN frames[i].args : frames[i].args[j] \in Forms

LEMMA CallArgsNext ==
  ASSUME ~OutArgs, "gvalue" \notin Forms, FInv, CallArgs, NoFault, [Next]_vars
  PROVE  CallArgs' /\ NoFault'
<1>1. ASSUME NEW k \in 0..Depth, frames' = SubSeq(frames, 1, k)
      PROVE  CallArgs'
  <2>1. \A i \in DOMAIN frames' : i \in DOMAIN frames /\ frames'[i] = frames[i]
    BY <1>1, Cut, FrameFacts DEF FInv, IInv, Typed
  <2> QED
    BY <2>1 DEF CallArgs
<1>2. ASSUME NEW f \in Frames, frames' = Append(frames, f),
             f.kind = "call" => \A j \in DOMAIN f.args : f.args[j] \in Forms
      PROVE  CallArgs'
  <2>1. frames \in Seq(Frames)
    BY DEF FInv, IInv, Typed
  <2>2. \A i \in DOMAIN frames' :
          frames'[i] = f \/ (i \in DOMAIN frames /\ frames'[i] = frames[i])
    BY <1>2, <2>1, Pushed, FrameFacts
  <2> QED
    BY <1>2, <2>2 DEF CallArgs
<1>3. CASE UNCHANGED vars
  BY <1>3 DEF vars, CallArgs, NoFault
<1>4. ASSUME NEW c \in Info, NEW args \in Arguments, Call(c, args)
      PROVE  CallArgs' /\ NoFault'
  <2>1. PICK f : f = Frame("call", c, args, ci_current)
    OBVIOUS
  <2>2. \A j \in DOMAIN args : args[j] \in Forms
    BY DEF Arguments
  <2>3. f \in Frames /\ f.args = args
    <3>1. args \in UNION {[1..n -> AllForms] : n \in 0..MaxArg}
      BY CallInfoAssumption DEF Arguments
    <3> QED
      BY <2>1, <3>1 DEF Frame, Frames, FInv, IInv, Typed
  <2>4. frames' = Append(frames, f) /\ fault' = fault
    BY <1>4, <2>1 DEF Call
  <2>5. CallArgs'
    BY <1>2, <2>2, <2>3, <2>4
  <2> QED
    BY <2>4, <2>5 DEF NoFault
<1>5. ASSUME NEW c \in Info, NEW args \in Arguments, NEW k \in 0..Depth,
             CallFails(c, args, k)
      PROVE  CallArgs' /\ NoFault'
  BY <1>1, <1>5 DEF CallFails, NoFault
<1>6. CASE CallReturn
  <2>1. Depth \in DOMAIN frames /\ Depth - 1 \in 0..Depth
    BY <1>6, FrameFacts DEF CallReturn, InLib, FInv, IInv, Typed
  <2>2. Top.kind = "call" /\ Using(Depth) /\ Top = frames[Depth]
    BY <1>6 DEF CallReturn, InLib, Using, Top
  <2>3. /\ is_output[Top.ci] = With(Top.args, {"inout", "gvalue"})
        /\ free_method[Top.ci] = With(Top.args, {"gvalue", "boxed"})
        /\ \A j \in DOMAIN Top.args : Top.args[j] \in Forms
    BY <2>1, <2>2 DEF FInv, FlagsExact, CallArgs
  <2>4. \A i \in Dereferenced(Top) : Top.args[i] # "nil"
    BY <2>3 DEF Dereferenced, With
  <2>5. \A i \in ToFree(Top.ci) : Top.args[i] # "gvalue"
    BY <2>3 DEF ToFree, With
  <2>6. frames' = SubSeq(frames, 1, Depth - 1) /\ ~fault'
    BY <1>6, <2>4, <2>5 DEF CallReturn
  <2> QED
    BY <1>1, <2>1, <2>6 DEF NoFault
<1>7. CASE ClosureReturn \/ SignalReturn
  <2>1. Depth - 1 \in 0..Depth
    BY <1>7, FrameFacts DEF ClosureReturn, SignalReturn, FInv, IInv, Typed
  <2>2. frames' = SubSeq(frames, 1, Depth - 1) /\ fault' = fault
    BY <1>7 DEF ClosureReturn, SignalReturn
  <2> QED
    BY <1>1, <2>1, <2>2 DEF NoFault
<1>8. ASSUME NEW k \in 0..Depth, ReturnFails(k) \/ LuaError(k)
      PROVE  CallArgs' /\ NoFault'
  BY <1>1, <1>8 DEF ReturnFails, LuaError, Unwound, NoFault
<1>9. ASSUME NEW c \in Info, NEW outs \in SUBSET ArgNr, Closure(c, outs)
      PROVE  CallArgs' /\ NoFault'
  <2>1. PICK f : f = Frame("closure", c,
                  [i \in ArgNr |-> IF i \in outs THEN "inout" ELSE "value"], NULL)
    OBVIOUS
  <2>2. f \in Frames /\ f.kind = "closure"
    BY <2>1, CallInfoAssumption DEF Frame, Frames, ArgNr, AllForms
  <2>3. frames' = Append(frames, f) /\ fault' = fault
    BY <1>9, <2>1 DEF Closure
  <2> QED
    BY <1>2, <2>2, <2>3 DEF NoFault
<1>10. CASE Signal
  <2>1. PICK f : f = Frame("signal", NULL, <<>>, NULL)
    OBVIOUS
  <2>2. f \in Frames /\ f.kind = "signal"
    <3>1. <<>> \in [1..0 -> AllForms] /\ 0 \in 0..MaxArg
      BY CallInfoAssumption
    <3> QED
      BY <2>1, <3>1 DEF Frame, Frames
  <2>3. frames' = Append(frames, f) /\ fault' = fault
    BY <1>10, <2>1 DEF Signal
  <2> QED
    BY <1>2, <2>2, <2>3 DEF NoFault
<1> QED
  BY <1>3, <1>4, <1>5, <1>6, <1>7, <1>8, <1>9, <1>10 DEF Next

(* In a program that passes no Lua values as GValues and whose closures    *)
(* have no output arguments, a call that ends uses neither a NULL pointer  *)
(* nor freed memory: lg_call follows the pointers of exactly those output  *)
(* arguments that its own caller has given (call.c).                       *)
THEOREM CallsDoNotFault ==
  ASSUME ~OutArgs, "gvalue" \notin Forms
  PROVE  Spec => []NoFault
<1>1. Init => FInv /\ CallArgs /\ NoFault
  <2> SUFFICES ASSUME Init PROVE FInv /\ CallArgs /\ NoFault
    OBVIOUS
  <2>1. FlagsTyped /\ Clean /\ FlagsExact /\ CallArgs /\ NoFault
    BY DEF Init, FlagsTyped, Clean, FlagsExact, CallArgs, NoFault
  <2> QED
    BY <2>1, InitOK DEF FInv
<1>2. FInv /\ IInv' /\ [Next]_vars => FInv'
  BY FlagsNext
<1>3. FInv /\ CallArgs /\ NoFault /\ [Next]_vars => CallArgs' /\ NoFault'
  BY CallArgsNext
<1> QED
  BY <1>1, <1>2, <1>3, Invariance, PTL DEF Spec
=============================================================================
