---------------------------- MODULE NetworkProofs ----------------------------
(* Who owns the connections of Network, what uploads send over them and what *)
(* requests receive, for any number of requests, uploads and channels, any  *)
(* length of bodies and files and any way the network cuts them.            *)
EXTENDS Network, SequenceTheorems, WellFoundedInduction, TLAPS

(* What the program must do for it: the connection of a request is taken    *)
(* over, in the callback `done', by one other request at most.  Two with    *)
(* the same keep_alive would write to the same channel.                     *)
TakesOnce ==
  \A r, k \in Req, n \in UploadSize :
    Running(k, {"done"}) /\ RequestCo(r, k, n) => ~arg[k].do_not_shutdown

-----------------------------------------------------------------------------
(***************************************************************************)
(* The inductive invariant.  A request uses its connection from the time   *)
(* it has it until it is over, or has let go of it in `done'.              *)
(***************************************************************************)
Uploading == \E p \in Put : at[p] # "new"

Uses(r) ==
  /\ pc[r] \notin {"new", "over"} /\ arg[r].channel # NULL
  /\ pc[r] = "done" => ~arg[r].do_not_shutdown

Open(c) == conn[c].open

TypesOK ==
  /\ DOMAIN pc = Req /\ DOMAIN arg = Req /\ DOMAIN conn = Channel
  /\ \A r \in Req : /\ DOMAIN arg[r] = DOMAIN NewArg
                    /\ arg[r].channel \in Channel \cup {NULL}
  /\ \A c \in Channel : conn[c] # NULL => DOMAIN conn[c] = DOMAIN NewConn

Connections ==
  /\ \A r \in Req : Talking(r) \/ pc[r] = "cleanup" => arg[r].channel # NULL
  /\ \A r \in Req : Uses(r) => conn[arg[r].channel] # NULL /\ Open(arg[r].channel)
  /\ \A r, q \in Req : Uses(r) /\ Uses(q) /\ r # q => arg[r].channel # arg[q].channel
  /\ \A c \in Channel : conn[c] # NULL /\ Open(c) =>
       \E r \in Req : Uses(r) /\ arg[r].channel = c

HInv == TypesOK /\ Connections

NInv ==
  /\ DOMAIN at = Put
  /\ Uploading => \A r \in Req : pc[r] = "new"
  /\ ~Uploading => HInv

-----------------------------------------------------------------------------
(***************************************************************************)
(* What steps do to connections and to requests.                           *)
(***************************************************************************)
SameOpen ==
  /\ DOMAIN conn' = Channel
  /\ \A c \in Channel :
       IF conn[c] = NULL THEN conn'[c] = NULL
       ELSE /\ conn'[c] # NULL /\ DOMAIN conn'[c] = DOMAIN NewConn
            /\ conn'[c].open = conn[c].open

LEMMA ConnFields ==
  /\ DOMAIN NewConn = {"open", "buf", "down", "flight", "up", "got", "fin"}
  /\ NewConn.open = TRUE
  /\ \A x : x \in DOMAIN NewConn <=>
       x \in {"open", "buf", "down", "flight", "up", "got", "fin"}
BY DEF NewConn

LEMMA ArgFields ==
  /\ DOMAIN NewArg = {"channel", "do_not_shutdown", "response_headers", "sink",
       "pos", "size", "data", "code", "headers", "count", "length", "chunk", "rc"}
  /\ NewArg.channel = NULL /\ NewArg.do_not_shutdown = FALSE
BY DEF NewArg

(* One connection changes, but not whether it is open. *)
LEMMA OneChanges ==
  ASSUME "open" \notin DOMAIN NULL, TypesOK, NEW c \in Channel, conn[c] # NULL,
         DOMAIN conn' = Channel,
         \A d \in Channel \ {c} : conn'[d] = conn[d],
         DOMAIN conn'[c] = DOMAIN NewConn, conn'[c].open = conn[c].open
  PROVE  SameOpen
<1>1. conn'[c] # NULL
  BY ConnFields
<1> QED BY <1>1 DEF SameOpen, TypesOK

(* A request between its connection and the end of cleanup. *)
Busy(r) == Talking(r) \/ pc[r] = "cleanup"

Others(r) == /\ DOMAIN pc' = Req /\ DOMAIN arg' = Req
             /\ \A q \in Req \ {r} : pc'[q] = pc[q] /\ arg'[q] = arg[q]

SameArg(r) == /\ DOMAIN arg'[r] = DOMAIN NewArg
              /\ arg'[r].channel = arg[r].channel

LEMMA BusyUses ==
  ASSUME HInv, NEW r \in Req, Busy(r)
  PROVE  /\ Uses(r) /\ arg[r].channel \in Channel
         /\ conn[arg[r].channel] # NULL /\ Open(arg[r].channel)
         /\ DOMAIN conn[arg[r].channel] = DOMAIN NewConn
BY DEF HInv, TypesOK, Connections, Uses, Busy, Talking, UnderWay

LEMMA SameOpenFacts ==
  ASSUME SameOpen, NEW c \in Channel
  PROVE  /\ conn[c] = NULL <=> conn'[c] = NULL
         /\ conn[c] # NULL => (Open(c)' <=> Open(c))
<1>1. conn[c] = NULL <=> conn'[c] = NULL
  BY DEF SameOpen
<1>2. conn[c] # NULL => conn'[c].open = conn[c].open
  BY DEF SameOpen
<1>3. conn[c] # NULL => (Open(c)' <=> Open(c))
  BY <1>2, Zenon DEF Open
<1> QED BY <1>1, <1>3

(* A request goes on; it keeps its connection. *)
LEMMA BusyKeeps ==
  ASSUME HInv, NEW r \in Req, Uses(r), Busy(r)', Others(r), SameArg(r), SameOpen
  PROVE  HInv'
<1>1. TypesOK'
  BY DEF HInv, TypesOK, Others, SameArg, SameOpen
<1>2. Uses(r) /\ Uses(r)' /\ arg[r].channel # NULL
  BY DEF SameArg, Uses, Busy, Talking, UnderWay
<1>3. /\ \A q \in Req : Uses(q)' <=> Uses(q)
      /\ \A q \in Req : arg'[q].channel = arg[q].channel
      /\ \A q \in Req \ {r} : Talking(q)' <=> Talking(q)
      /\ \A q \in Req \ {r} : pc'[q] = pc[q]
  BY <1>2 DEF Others, SameArg, Uses, Talking, UnderWay
<1>4. \A c \in Channel : conn[c] # NULL /\ Open(c) <=> conn'[c] # NULL /\ Open(c)'
  BY SameOpenFacts
<1>5. \A q \in Req : arg[q].channel \in Channel \cup {NULL}
  BY DEF HInv, TypesOK
<1>6. Connections'
  <2>1. \A q \in Req : Talking(q)' \/ pc'[q] = "cleanup" => arg'[q].channel # NULL
    BY <1>2, <1>3 DEF HInv, Connections
  <2>2. \A q \in Req : Uses(q)' => conn'[arg'[q].channel] # NULL /\ Open(arg[q].channel)'
    BY <1>3, <1>4, <1>5 DEF HInv, Connections, Uses
  <2>3. \A p, q \in Req : Uses(p)' /\ Uses(q)' /\ p # q => arg'[p].channel # arg'[q].channel
    BY <1>3 DEF HInv, Connections
  <2>4. \A c \in Channel : conn'[c] # NULL /\ Open(c)' =>
          \E q \in Req : Uses(q)' /\ arg'[q].channel = c
    BY <1>3, <1>4 DEF HInv, Connections
  <2> QED BY <2>1, <2>2, <2>3, <2>4 DEF Connections
<1> QED BY <1>1, <1>6 DEF HInv

(* No request does anything. *)
LEMMA OnlyConnections ==
  ASSUME HInv, UNCHANGED <<pc, arg>>, SameOpen
  PROVE  HInv'
<1>1. TypesOK'
  BY DEF HInv, TypesOK, SameOpen
<1>2. /\ \A q \in Req : Uses(q)' <=> Uses(q)
      /\ \A q \in Req : Talking(q)' <=> Talking(q)
  BY DEF Uses, Talking, UnderWay
<1>4. \A c \in Channel : conn[c] # NULL /\ Open(c) <=> conn'[c] # NULL /\ Open(c)'
  BY SameOpenFacts
<1>5. \A q \in Req : arg[q].channel \in Channel \cup {NULL}
  BY DEF HInv, TypesOK
<1>6. Connections'
  <2>2. \A q \in Req : Uses(q)' => conn'[arg'[q].channel] # NULL /\ Open(arg[q].channel)'
    BY <1>2, <1>4, <1>5 DEF HInv, Connections, Uses
  <2>4. \A c \in Channel : conn'[c] # NULL /\ Open(c)' =>
          \E q \in Req : Uses(q)' /\ arg'[q].channel = c
    BY <1>2, <1>4 DEF HInv, Connections
  <2> QED BY <1>2, <2>2, <2>4 DEF HInv, Connections
<1> QED BY <1>1, <1>6 DEF HInv

-----------------------------------------------------------------------------
(***************************************************************************)
(* What the functions of Channels do to connections.                       *)
(***************************************************************************)
LEMMA UnchangedSame ==
  ASSUME TypesOK, UNCHANGED conn
  PROVE  SameOpen
BY DEF SameOpen, TypesOK

LEMMA TakeLineSame ==
  ASSUME "open" \notin DOMAIN NULL, TypesOK, NEW c \in Channel, conn[c] # NULL,
         TakeLine(c)
  PROVE  SameOpen
<1>1. DOMAIN conn[c] = DOMAIN NewConn /\ DOMAIN conn = Channel
  BY DEF TypesOK
<1>2. PICK v : conn' = [conn EXCEPT ![c].buf = v]
  BY DEF TakeLine
<1> QED BY <1>1, <1>2, ConnFields, OneChanges

LEMMA ReadMoreSame ==
  ASSUME "open" \notin DOMAIN NULL, TypesOK, NEW c \in Channel, conn[c] # NULL,
         NEW r, ReadMore(r, c)
  PROVE  SameOpen
<1>1. DOMAIN conn[c] = DOMAIN NewConn /\ DOMAIN conn = Channel
  BY DEF TypesOK
<1>2. CASE conn' = conn
  BY <1>2, UnchangedSame
<1>3. CASE conn' # conn
  <2>1. PICK v, w : conn' = [conn EXCEPT ![c].buf = v, ![c].down = w]
    BY <1>3 DEF ReadMore
  <2> QED BY <1>1, <2>1, ConnFields, OneChanges
<1> QED BY <1>2, <1>3

LEMMA TakeCharsSame ==
  ASSUME "open" \notin DOMAIN NULL, TypesOK, NEW c \in Channel, conn[c] # NULL,
         NEW n, TakeChars(c, n)
  PROVE  SameOpen
<1>1. DOMAIN conn[c] = DOMAIN NewConn /\ DOMAIN conn = Channel
  BY DEF TypesOK
<1>2. CASE conn[c].buf # <<>>
  <2>1. PICK v : conn' = [conn EXCEPT ![c].buf = v]
    BY <1>2 DEF TakeChars
  <2> QED BY <1>1, <2>1, ConnFields, OneChanges
<1>3. CASE conn[c].buf = <<>>
  <2>1. PICK v : conn' = [conn EXCEPT ![c].down = v]
    BY <1>3 DEF TakeChars
  <2> QED BY <1>1, <2>1, ConnFields, OneChanges
<1> QED BY <1>2, <1>3

LEMMA WriteCharsSame ==
  ASSUME "open" \notin DOMAIN NULL, TypesOK, NEW c \in Channel, conn[c] # NULL,
         NEW r, NEW data, WriteChars(r, c, data)
  PROVE  SameOpen
<1>1. DOMAIN conn[c] = DOMAIN NewConn /\ DOMAIN conn = Channel
  BY DEF TypesOK
<1>2. CASE conn' = conn
  BY <1>2, UnchangedSame
<1>3. CASE conn' # conn
  <2>1. conn' = [conn EXCEPT ![c].up = @ \o SubSeq(data, 1, Accepted(c, data))]
    BY <1>3, Zenon DEF WriteChars
  <2>2. PICK v : conn' = [conn EXCEPT ![c].up = v]
    BY <2>1
  <2> QED BY <1>1, <2>2, ConnFields, OneChanges
<1> QED BY <1>2, <1>3

(* Server and network do not open or close a connection of the client. *)
LEMMA NetworkSame ==
  ASSUME "open" \notin DOMAIN NULL, TypesOK, NEW c \in Channel,
         \/ ServerReads(c) \/ Deliver(c) \/ Break(c)
         \/ \E a \in Replies : ServerAnswers(c, a)
         \/ AnswerCommand(c)
  PROVE  SameOpen
<1>1. conn[c] # NULL
  BY DEF ServerReads, Deliver, Break, ServerAnswers, AnswerCommand, Alive
<1>2. DOMAIN conn[c] = DOMAIN NewConn /\ DOMAIN conn = Channel
  BY <1>1 DEF TypesOK
<1>3. \/ \E v, w : conn' = [conn EXCEPT ![c].got = v, ![c].up = w]
      \/ \E v, w : conn' = [conn EXCEPT ![c].down = v, ![c].flight = w]
      \/ \E v, w : conn' = [conn EXCEPT ![c].fin = v, ![c].flight = w]
      \/ \E u, v, w : conn' = [conn EXCEPT ![c].flight = u, ![c].got = v, ![c].fin = w]
      \/ \E v, w : conn' = [conn EXCEPT ![c].got = v, ![c].flight = w]
  <2>1. CASE ServerReads(c)
    BY <2>1 DEF ServerReads
  <2>2. CASE Deliver(c)
    BY <2>2 DEF Deliver
  <2>3. CASE Break(c)
    BY <2>3 DEF Break
  <2>4. CASE \E a \in Replies : ServerAnswers(c, a)
    <3>1. PICK a \in Replies : ServerAnswers(c, a)
      BY <2>4
    <3> DEFINE g == conn[c].got
               r == g[1][2]
               s == SubSeq(g, 3 + g[2][3], Len(g))
               n == a.close \/ a.framing = "identity"
    <3>2. conn' = [conn EXCEPT ![c].flight = @ \o Response(r, a), ![c].got = s,
                               ![c].fin = n]
      BY <3>1, Zenon DEF ServerAnswers
    <3>3. conn' = [conn EXCEPT ![c].flight = conn[c].flight \o Response(r, a),
                               ![c].got = s, ![c].fin = n]
      BY <3>2, Zenon
    <3> QED BY <3>3, Zenon
  <2>5. CASE AnswerCommand(c)
    BY <2>5, Zenon DEF AnswerCommand
  <2> QED BY <2>1, <2>2, <2>3, <2>4, <2>5
<1>4. /\ DOMAIN conn' = Channel /\ \A d \in Channel \ {c} : conn'[d] = conn[d]
      /\ DOMAIN conn'[c] = DOMAIN NewConn /\ conn'[c].open = conn[c].open
  <2>1. CASE \E v, w : conn' = [conn EXCEPT ![c].got = v, ![c].up = w]
    BY <1>2, <2>1, ConnFields
  <2>2. CASE \E v, w : conn' = [conn EXCEPT ![c].down = v, ![c].flight = w]
    BY <1>2, <2>2, ConnFields
  <2>3. CASE \E v, w : conn' = [conn EXCEPT ![c].fin = v, ![c].flight = w]
    BY <1>2, <2>3, ConnFields
  <2>4. CASE \E u, v, w : conn' = [conn EXCEPT ![c].flight = u, ![c].got = v, ![c].fin = w]
    BY <1>2, <2>4, ConnFields
  <2>5. CASE \E v, w : conn' = [conn EXCEPT ![c].got = v, ![c].flight = w]
    BY <1>2, <2>5, ConnFields
  <2> QED BY <1>3, <2>1, <2>2, <2>3, <2>4, <2>5
<1> QED BY <1>1, <1>4, OneChanges

-----------------------------------------------------------------------------
(***************************************************************************)
(* Steps of a request that is busy.                                        *)
(***************************************************************************)
BusyStates == LineStates \cup {"send", "length", "identity", "chunkdata", "ok", "cleanup"}

LEMMA BusyIs ==
  ASSUME NEW r
  PROVE  /\ pc[r] \in BusyStates => Busy(r)
         /\ pc'[r] \in BusyStates => Busy(r)'
BY DEF BusyStates, LineStates, Busy, Talking, UnderWay

(* Only the request r changes, to the state s and with the arguments x. *)
Turns(r, s, x) == Others(r) /\ pc'[r] = s /\ arg'[r] = x

LEMMA TurnsKeeps ==
  ASSUME HInv, NEW r \in Req, Busy(r), NEW s \in BusyStates, NEW x,
         Turns(r, s, x), DOMAIN x = DOMAIN NewArg, x.channel = arg[r].channel,
         SameOpen
  PROVE  HInv'
<1>1. Others(r) /\ SameArg(r) /\ pc'[r] = s
  BY DEF Turns, SameArg
<1>2. Busy(r)'
  BY <1>1, BusyIs
<1> QED BY <1>1, <1>2, BusyUses, BusyKeeps

(* The request goes to s and keeps its arguments, or keeps its state. *)
LEMMA GotoKeeps ==
  ASSUME HInv, NEW r \in Req, Busy(r), NEW s \in BusyStates, Goto(r, s),
         arg' = arg, SameOpen
  PROVE  HInv'
<1>1. Turns(r, s, arg[r]) /\ DOMAIN arg[r] = DOMAIN NewArg
  BY DEF HInv, TypesOK, Turns, Others, Goto
<1> QED BY <1>1, TurnsKeeps

LEMMA ArgKeeps ==
  ASSUME HInv, NEW r \in Req, pc[r] \in BusyStates, pc' = pc, NEW x,
         arg' = [arg EXCEPT ![r] = x],
         DOMAIN x = DOMAIN NewArg, x.channel = arg[r].channel, SameOpen
  PROVE  HInv'
<1>1. Turns(r, pc[r], x) /\ Busy(r)
  BY BusyIs DEF HInv, TypesOK, Turns, Others
<1> QED BY <1>1, TurnsKeeps

LEMMA LeaveKeeps ==
  ASSUME HInv, NEW r \in Req, Busy(r), NEW rc, Leave(r, rc), SameOpen
  PROVE  HInv'
<1>1. DOMAIN arg[r] = DOMAIN NewArg
  BY DEF HInv, TypesOK
<1> DEFINE y == [NewArg EXCEPT !.channel = arg[r].channel,
                  !.do_not_shutdown = arg[r].do_not_shutdown, !.sink = arg[r].sink,
                  !.response_headers = arg[r].response_headers, !.rc = rc]
<1>2. PICK x : /\ arg' = [arg EXCEPT ![r] = x]
               /\ DOMAIN x = DOMAIN NewArg /\ x.channel = arg[r].channel
  <2>1. DOMAIN y = DOMAIN NewArg /\ y.channel = arg[r].channel
    BY ArgFields
  <2>2. arg' = [arg EXCEPT ![r] = y]
    BY Zenon DEF Leave
  <2> QED BY <2>1, <2>2
<1>3. Turns(r, "cleanup", x) /\ "cleanup" \in BusyStates
  BY <1>2 DEF HInv, TypesOK, Leave, Goto, Turns, Others, BusyStates
<1> QED BY <1>2, <1>3, TurnsKeeps

(* The channel of a busy request is a connection. *)
LEMMA BusyChannel ==
  ASSUME HInv, NEW r \in Req, pc[r] \in BusyStates
  PROVE  /\ TypesOK /\ Busy(r) /\ ChannelOf(r) \in Channel
         /\ conn[ChannelOf(r)] # NULL
BY BusyIs, BusyUses DEF ChannelOf, HInv

LEMMA SendKeeps ==
  ASSUME "open" \notin DOMAIN NULL, HInv, NEW r \in Req,
         Write(r) \/ WriteFails(r) \/ SendBody(r)
  PROVE  HInv'
<1>1. pc[r] = "send" /\ pc[r] \in BusyStates
  BY DEF Write, WriteFails, SendBody, Running, BusyStates
<1>2. /\ TypesOK /\ Busy(r) /\ ChannelOf(r) \in Channel
      /\ conn[ChannelOf(r)] # NULL /\ DOMAIN arg[r] = DOMAIN NewArg
  BY <1>1, BusyChannel DEF TypesOK
<1>3. CASE Write(r)
  <2>1. SameOpen
    BY <1>2, <1>3, WriteCharsSame DEF Write
  <2>2. PICK v : arg' = [arg EXCEPT ![r].data = v]
    BY <1>3 DEF Write
  <2> DEFINE x == [arg[r] EXCEPT !.data = v]
  <2>3. /\ DOMAIN x = DOMAIN NewArg /\ x.channel = arg[r].channel
        /\ arg' = [arg EXCEPT ![r] = x]
    BY <1>2, <2>2, ArgFields
  <2> HIDE DEF x
  <2> QED BY <1>1, <1>3, <2>1, <2>3, ArgKeeps DEF Write
<1>4. CASE WriteFails(r)
  BY <1>2, <1>4, LeaveKeeps, UnchangedSame DEF WriteFails, Failed, Keep
<1>5. CASE SendBody(r)
  <2>1. SameOpen
    BY <1>2, <1>5, UnchangedSame DEF SendBody, Keep
  <2>2. CASE SourceRead(r) = NULL
    BY <1>2, <1>5, <2>1, <2>2, GotoKeeps DEF SendBody, BusyStates, LineStates
  <2>3. CASE SourceRead(r) # NULL
    <3>1. PICK v, w : arg' = [arg EXCEPT ![r].data = v, ![r].pos = w]
      BY <1>5, <2>3 DEF SendBody
    <3> DEFINE x == [arg[r] EXCEPT !.data = v, !.pos = w]
    <3>2. /\ DOMAIN x = DOMAIN NewArg /\ x.channel = arg[r].channel
          /\ arg' = [arg EXCEPT ![r] = x]
      BY <1>2, <3>1, ArgFields
    <3> HIDE DEF x
    <3> QED BY <1>1, <1>5, <2>1, <2>3, <3>2, ArgKeeps DEF SendBody
  <2> QED BY <2>2, <2>3
<1> QED BY <1>3, <1>4, <1>5

(* The arguments of the request change, but not its connection. *)
ArgMoves(r) == /\ DOMAIN arg' = Req /\ SameArg(r)
               /\ \A q \in Req \ {r} : arg'[q] = arg[q]

LEMMA MovesKeep ==
  ASSUME HInv, NEW r \in Req, pc[r] \in BusyStates, NEW s \in BusyStates,
         Goto(r, s) \/ pc' = pc, ArgMoves(r), SameOpen
  PROVE  HInv'
<1>1. Others(r) /\ pc'[r] \in BusyStates /\ SameArg(r)
  BY DEF HInv, TypesOK, Goto, Others, ArgMoves
<1> QED BY <1>1, BusyIs, BusyUses, BusyKeeps

LEMMA FieldMoves ==
  ASSUME TypesOK, NEW r \in Req, NEW v, NEW w,
         \/ arg' = arg
         \/ arg' = [arg EXCEPT ![r].code = v]
         \/ arg' = [arg EXCEPT ![r].headers = v]
         \/ arg' = [arg EXCEPT ![r].response_headers = v]
         \/ arg' = [arg EXCEPT ![r].response_headers = v, ![r].length = w]
         \/ arg' = [arg EXCEPT ![r].chunk = v]
         \/ arg' = [arg EXCEPT ![r].sink = v]
         \/ arg' = [arg EXCEPT ![r].sink = v, ![r].count = w]
         \/ arg' = [arg EXCEPT ![r].length = v, ![r].chunk = w]
  PROVE  ArgMoves(r)
<1>1. DOMAIN arg = Req /\ DOMAIN arg[r] = DOMAIN NewArg
  BY DEF TypesOK
<1> QED BY <1>1, ArgFields DEF ArgMoves, SameArg

LEMMA LinesKeep ==
  ASSUME "open" \notin DOMAIN NULL, HInv, NEW r \in Req,
         \/ NeedMore(r) \/ StatusLineOf(r) \/ HeaderLineOf(r) \/ HeadersEnd(r)
         \/ ChunkSize(r) \/ ChunkEnd(r) \/ Trailer(r)
  PROVE  HInv'
<1>1. pc[r] \in BusyStates
  BY DEF NeedMore, StatusLineOf, HeaderLineOf, HeadersEnd, ChunkSize, ChunkEnd,
         Trailer, HasLine, Running, BusyStates, LineStates
<1>2. /\ TypesOK /\ Busy(r) /\ ChannelOf(r) \in Channel
      /\ conn[ChannelOf(r)] # NULL
  BY <1>1, BusyChannel
<1>3. \A s : HasLine(r, s) => SameOpen
  BY <1>2, TakeLineSame DEF HasLine
<1>4. ASSUME Failed(r), SameOpen
      PROVE  HInv'
  BY <1>2, <1>4, LeaveKeeps DEF Failed
<1>5. CASE NeedMore(r)
  <2>1. CASE ReadMore(r, ChannelOf(r)) /\ UNCHANGED requestVars
    BY <1>2, <2>1, ReadMoreSame, OnlyConnections DEF requestVars
  <2>2. CASE Failed(r) /\ Keep
    BY <1>2, <1>4, <2>2, UnchangedSame DEF Keep
  <2> QED BY <1>5, <2>1, <2>2 DEF NeedMore
<1>6. CASE StatusLineOf(r)
  <2>1. SameOpen
    BY <1>3, <1>6 DEF StatusLineOf
  <2>2. CASE IsA(LineOf(r), "status")
    <3>1. /\ \E v : arg' = [arg EXCEPT ![r].code = v]
          /\ Goto(r, "headers")
      BY <1>6, <2>2 DEF StatusLineOf
    <3> QED BY <1>1, <1>2, <2>1, <3>1, FieldMoves, MovesKeep DEF BusyStates, LineStates
  <2> QED BY <1>4, <1>6, <2>1, <2>2 DEF StatusLineOf
<1>7. CASE HeaderLineOf(r)
  <2>1. SameOpen
    BY <1>3, <1>7 DEF HeaderLineOf
  <2>2. CASE IsA(LineOf(r), "header")
    <3>1. /\ \E v : arg' = [arg EXCEPT ![r].headers = v]
          /\ pc' = pc
      BY <1>7, <2>2 DEF HeaderLineOf
    <3> QED BY <1>1, <1>2, <2>1, <3>1, FieldMoves, MovesKeep
  <2> QED BY <1>4, <1>7, <2>1, <2>2 DEF HeaderLineOf
<1>8. CASE HeadersEnd(r)
  <2>1. SameOpen
    BY <1>3, <1>8 DEF HeadersEnd
  <2>2. CASE Interim(arg[r].code)
    <3>1. arg' = arg /\ Goto(r, "status")
      BY <1>8, <2>2 DEF HeadersEnd
    <3> QED BY <1>1, <1>2, <2>1, <3>1, FieldMoves, MovesKeep DEF BusyStates, LineStates
  <2>3. CASE ~Interim(arg[r].code)
    <3>1. Decoder(r) \in BusyStates
      BY DEF Decoder, BusyStates, LineStates
    <3>2. /\ \E v, w : arg' = [arg EXCEPT ![r].response_headers = v, ![r].length = w]
          /\ Goto(r, Decoder(r))
      BY <1>8, <2>3 DEF HeadersEnd
    <3> QED BY <1>1, <1>2, <2>1, <3>1, <3>2, FieldMoves, MovesKeep
  <2> QED BY <2>2, <2>3
<1>9. CASE ChunkSize(r)
  <2>1. SameOpen
    BY <1>3, <1>9 DEF ChunkSize
  <2>2. CASE IsA(LineOf(r), "chunk")
    <3>1. /\ \E v, w : arg' = [arg EXCEPT ![r].length = v, ![r].chunk = w]
          /\ Goto(r, "trailer") \/ Goto(r, "chunkdata")
      BY <1>9, <2>2 DEF ChunkSize
    <3> QED BY <1>1, <1>2, <2>1, <3>1, FieldMoves, MovesKeep DEF BusyStates, LineStates
  <2> QED BY <1>4, <1>9, <2>1, <2>2 DEF ChunkSize
<1>10. CASE ChunkEnd(r)
  <2>1. SameOpen
    BY <1>3, <1>10 DEF ChunkEnd
  <2>2. (\E v : arg' = [arg EXCEPT ![r].sink = v]) /\ Goto(r, "chunksize")
    BY <1>10 DEF ChunkEnd
  <2> QED BY <1>1, <1>2, <2>1, <2>2, FieldMoves, MovesKeep DEF BusyStates, LineStates
<1>11. CASE Trailer(r)
  <2>1. SameOpen
    BY <1>3, <1>11 DEF Trailer
  <2>2. CASE LineOf(r) = <<>>
    <3>1. arg' = arg /\ Goto(r, "ok")
      BY <1>11, <2>2 DEF Trailer
    <3> QED BY <1>1, <1>2, <2>1, <3>1, FieldMoves, MovesKeep DEF BusyStates
  <2>3. CASE LineOf(r) # <<>> /\ IsA(LineOf(r), "header")
    <3>1. /\ \E v : arg' = [arg EXCEPT ![r].response_headers = v]
          /\ pc' = pc
      BY <1>11, <2>3 DEF Trailer
    <3> QED BY <1>1, <1>2, <2>1, <3>1, FieldMoves, MovesKeep
  <2> QED BY <1>4, <1>11, <2>1, <2>2, <2>3 DEF Trailer
<1> QED BY <1>5, <1>6, <1>7, <1>8, <1>9, <1>10, <1>11

LEMMA ReadKeeps ==
  ASSUME "open" \notin DOMAIN NULL, HInv, NEW r \in Req,
         ReadChars(r) \/ ReadNothing(r) \/ ReadAll(r) \/ RequestOk(r)
  PROVE  HInv'
<1>1. pc[r] \in BusyStates
  BY DEF ReadChars, ReadNothing, ReadAll, RequestOk, Running, BusyStates
<1>2. /\ TypesOK /\ Busy(r) /\ ChannelOf(r) \in Channel
      /\ conn[ChannelOf(r)] # NULL
  BY <1>1, BusyChannel
<1>3. CASE ReadChars(r)
  <2>1. SameOpen
    BY <1>2, <1>3, TakeCharsSame DEF ReadChars
  <2>2. \/ \E v : arg' = [arg EXCEPT ![r].chunk = v]
        \/ \E v, w : arg' = [arg EXCEPT ![r].sink = v, ![r].count = w]
    BY <1>3 DEF ReadChars, Consume
  <2>3. ArgMoves(r) /\ pc' = pc
    BY <1>2, <1>3, <2>2, FieldMoves DEF ReadChars
  <2> QED BY <1>1, <2>1, <2>3, MovesKeep
<1>4. CASE ReadNothing(r)
  <2>1. SameOpen
    BY <1>2, <1>4, UnchangedSame DEF ReadNothing, Keep
  <2>2. CASE Failed(r)
    BY <1>2, <2>1, <2>2, LeaveKeeps DEF Failed
  <2>3. CASE ~Failed(r)
    <3>1. arg' = arg /\ (pc' = pc \/ Goto(r, "ok"))
      BY <1>4, <2>3 DEF ReadNothing
    <3> QED BY <1>1, <1>2, <2>1, <3>1, FieldMoves, MovesKeep DEF BusyStates
  <2> QED BY <2>2, <2>3
<1>5. CASE ReadAll(r)
  <2>1. SameOpen
    BY <1>2, <1>5, UnchangedSame DEF ReadAll, Keep
  <2>2. arg' = arg /\ (Goto(r, "ok") \/ Goto(r, "chunkend"))
    BY <1>5 DEF ReadAll
  <2> QED BY <1>1, <1>2, <2>1, <2>2, FieldMoves, MovesKeep DEF BusyStates, LineStates
<1>6. CASE RequestOk(r)
  BY <1>2, <1>6, UnchangedSame, LeaveKeeps DEF RequestOk, Keep
<1> QED BY <1>3, <1>4, <1>5, <1>6

-----------------------------------------------------------------------------
(***************************************************************************)
(* Steps in which a request gets, hands on or gives up a connection.       *)
(***************************************************************************)
ArgOf(r) == DOMAIN arg'[r] = DOMAIN NewArg /\ arg'[r].channel \in Channel \cup {NULL}

LEMMA OthersUse ==
  ASSUME NEW r \in Req, Others(r)
  PROVE  /\ \A q \in Req \ {r} : Uses(q)' <=> Uses(q)
         /\ \A q \in Req \ {r} : Busy(q)' <=> Busy(q)
         /\ \A q \in Req \ {r} : arg'[q].channel = arg[q].channel
BY DEF Others, Uses, Busy, Talking, UnderWay

(* A request that uses no connection. *)
LEMMA NoUseKeeps ==
  ASSUME HInv, NEW r \in Req, ~Uses(r), ~Uses(r)', ~Busy(r)', Others(r), ArgOf(r),
         UNCHANGED conn
  PROVE  HInv'
<1>1. TypesOK'
  BY DEF HInv, TypesOK, Others, ArgOf
<1>2. Connections'
  <2>1. \A q \in Req : Busy(q)' => arg'[q].channel # NULL
    BY OthersUse DEF HInv, Connections, Busy
  <2>2. \A q \in Req : Uses(q)' => conn'[arg'[q].channel] # NULL /\ Open(arg[q].channel)'
                                   /\ arg'[q].channel = arg[q].channel
    BY OthersUse DEF HInv, Connections, Open
  <2>3. \A p, q \in Req : Uses(p)' /\ Uses(q)' /\ p # q => arg'[p].channel # arg'[q].channel
    BY OthersUse DEF HInv, Connections
  <2>4. \A c \in Channel : conn'[c] # NULL /\ Open(c)' =>
          \E q \in Req : Uses(q)' /\ arg'[q].channel = c
    BY OthersUse DEF HInv, Connections, Open
  <2> QED BY <2>1, <2>2, <2>3, <2>4 DEF Connections, Busy
<1> QED BY <1>1, <1>2 DEF HInv

(* A request keeps its connection, but does nothing more with it. *)
LEMMA HandsOnKeeps ==
  ASSUME HInv, NEW r \in Req, Uses(r), Uses(r)', ~Busy(r)', Others(r), ArgOf(r),
         arg'[r].channel = arg[r].channel, UNCHANGED conn
  PROVE  HInv'
<1>1. TypesOK'
  BY DEF HInv, TypesOK, Others, ArgOf
<1>2. /\ \A q \in Req : Uses(q)' <=> Uses(q)
      /\ \A q \in Req : arg'[q].channel = arg[q].channel
  BY OthersUse
<1>3. Connections'
  <2>1. \A q \in Req : Busy(q)' => arg'[q].channel # NULL
    BY OthersUse DEF HInv, Connections, Busy
  <2> QED BY <1>2, <2>1 DEF HInv, Connections, Busy, Open
<1> QED BY <1>1, <1>3 DEF HInv

(* A request closes its connection. *)
LEMMA ShutKeeps ==
  ASSUME "open" \notin DOMAIN NULL, HInv, NEW r \in Req, Uses(r), ~Uses(r)',
         ~Busy(r)', Others(r), ArgOf(r), conn' = Shut(arg[r].channel)
  PROVE  HInv'
<1>1. PICK c \in Channel : c = arg[r].channel
  BY DEF HInv, TypesOK, Uses
<1> DEFINE x == [NewConn EXCEPT !.open = FALSE, !.fin = TRUE]
<1>2. DOMAIN x = DOMAIN NewConn /\ x.open = FALSE /\ x # NULL
  BY ConnFields
<1> HIDE DEF x
<1>3. /\ DOMAIN conn' = Channel /\ conn'[c] = x
      /\ \A d \in Channel \ {c} : conn'[d] = conn[d]
  BY <1>1 DEF HInv, TypesOK, Shut, x
<1>4. ~Open(c)' /\ \A d \in Channel \ {c} : Open(d)' <=> Open(d)
  BY <1>2, <1>3, Zenon DEF Open
<1>5. TypesOK'
  BY <1>2, <1>3 DEF HInv, TypesOK, Others, ArgOf
<1>6. Connections'
  <2>1. \A q \in Req : Busy(q)' => arg'[q].channel # NULL
    BY OthersUse DEF HInv, Connections, Busy
  <2>2. ASSUME NEW q \in Req, Uses(q)'
        PROVE  conn'[arg[q].channel] # NULL /\ Open(arg[q].channel)'
               /\ arg'[q].channel = arg[q].channel
    <3>1. q # r /\ Uses(q) /\ arg'[q].channel = arg[q].channel
      BY <2>2, OthersUse
    <3>2. arg[q].channel \in Channel \ {c} /\ conn[arg[q].channel] # NULL
          /\ Open(arg[q].channel)
      BY <1>1, <3>1 DEF HInv, Connections, TypesOK, Uses
    <3> QED BY <1>3, <1>4, <3>1, <3>2
  <2>3. \A p, q \in Req : Uses(p)' /\ Uses(q)' /\ p # q => arg'[p].channel # arg'[q].channel
    BY OthersUse DEF HInv, Connections
  <2>4. \A d \in Channel : conn'[d] # NULL /\ Open(d)' =>
          \E q \in Req : Uses(q)' /\ arg'[q].channel = d
    BY <1>1, <1>3, <1>4, OthersUse DEF HInv, Connections
  <2> QED BY <2>1, <2>2, <2>3, <2>4 DEF Connections, Busy
<1> QED BY <1>5, <1>6 DEF HInv

(* A request gets a new connection. *)
LEMMA NewKeeps ==
  ASSUME "open" \notin DOMAIN NULL, NULL \notin Channel, HInv, NEW r \in Req,
         ~Uses(r), Busy(r)', Others(r), Unused # {}, ArgOf(r),
         arg'[r].channel = NextChannel, conn' = [conn EXCEPT ![NextChannel] = NewConn]
  PROVE  HInv'
<1>1. PICK c \in Channel : c = NextChannel /\ conn[c] = NULL
  BY DEF Unused, NextChannel
<1>2. NewConn # NULL /\ NewConn.open = TRUE
  BY ConnFields
<1>3. /\ DOMAIN conn' = Channel /\ conn'[c] = NewConn
      /\ \A d \in Channel \ {c} : conn'[d] = conn[d]
  BY <1>1 DEF HInv, TypesOK
<1>4. Open(c)' /\ \A d \in Channel \ {c} : Open(d)' <=> Open(d)
  BY <1>2, <1>3, Zenon DEF Open
<1>5. TypesOK'
  BY <1>2, <1>3 DEF HInv, TypesOK, Others, ArgOf
<1>6. Uses(r)' /\ arg'[r].channel = c
  BY <1>1 DEF Uses, Busy, Talking, UnderWay
<1>7. ASSUME NEW q \in Req \ {r}, Uses(q)'
      PROVE  /\ arg[q].channel \in Channel \ {c} /\ conn[arg[q].channel] # NULL
             /\ Open(arg[q].channel) /\ Uses(q)
             /\ arg'[q].channel = arg[q].channel
  <2>1. Uses(q) /\ arg'[q].channel = arg[q].channel
    BY <1>7, OthersUse
  <2> QED BY <1>1, <2>1 DEF HInv, Connections, TypesOK, Uses
<1>8. Connections'
  <2>1. \A q \in Req : Busy(q)' => arg'[q].channel # NULL
    BY <1>6, OthersUse DEF HInv, Connections, Busy
  <2>2. \A q \in Req : Uses(q)' => conn'[arg'[q].channel] # NULL
    BY <1>2, <1>3, <1>6, <1>7
  <2>3. ASSUME NEW q \in Req, Uses(q)'
        PROVE  \A d : d = arg'[q].channel => Open(d)'
    BY <1>4, <1>6, <1>7, <2>3
  <2>4. \A p, q \in Req : Uses(p)' /\ Uses(q)' /\ p # q => arg'[p].channel # arg'[q].channel
    BY <1>6, <1>7 DEF HInv, Connections
  <2>5. \A d \in Channel : conn'[d] # NULL /\ Open(d)' =>
          \E q \in Req : Uses(q)' /\ arg'[q].channel = d
    BY <1>3, <1>4, <1>6, OthersUse DEF HInv, Connections
  <2> QED BY <2>1, <2>2, <2>3, <2>4, <2>5, Zenon DEF Connections, Busy, Open
<1> QED BY <1>5, <1>8 DEF HInv

LEMMA ConnectKeeps ==
  ASSUME "open" \notin DOMAIN NULL, HInv, NEW r \in Req,
         Connect(r) \/ ConnectFails(r)
  PROVE  HInv'
<1>1. TypesOK /\ pc[r] = "connect" /\ DOMAIN arg[r] = DOMAIN NewArg /\ NULL \notin Channel
  BY NamesAssumption DEF HInv, TypesOK, Connect, ConnectFails, Running
<1>2. "send" \in BusyStates
  BY DEF BusyStates
<1>3. CASE Connect(r) /\ arg[r].channel # NULL
  <2>1. Uses(r) /\ SameOpen
    BY <1>1, <1>3, UnchangedSame DEF Connect, Uses, Unused
  <2>2. /\ arg' = [arg EXCEPT ![r].data = Lines(r)] /\ pc' = [pc EXCEPT ![r] = "send"]
    BY <1>3 DEF Connect, StartSending, Goto
  <2>3. Others(r) /\ SameArg(r) /\ pc'[r] = "send"
    BY <1>1, <2>2, ArgFields DEF TypesOK, Others, SameArg
  <2> QED BY <1>2, <2>1, <2>3, BusyIs, BusyKeeps
<1>4. CASE Connect(r) /\ arg[r].channel = NULL
  <2>1. /\ Unused # {} /\ conn' = [conn EXCEPT ![NextChannel] = NewConn]
        /\ arg' = [arg EXCEPT ![r].channel = NextChannel, ![r].data = Lines(r)]
        /\ pc' = [pc EXCEPT ![r] = "send"]
    BY <1>4 DEF Connect, StartSending, Goto
  <2>2. NextChannel \in Channel
    BY <2>1 DEF NextChannel, Unused
  <2>3. Others(r) /\ ArgOf(r) /\ pc'[r] = "send" /\ arg'[r].channel = NextChannel
    BY <1>1, <2>1, <2>2, ArgFields DEF TypesOK, Others, ArgOf
  <2>4. ~Uses(r)
    BY <1>4 DEF Uses
  <2> QED BY <1>1, <1>2, <2>1, <2>3, <2>4, BusyIs, NewKeeps
<1>5. CASE ConnectFails(r)
  <2>1. /\ arg' = [arg EXCEPT ![r] = NewArg] /\ pc' = [pc EXCEPT ![r] = "over"]
        /\ arg[r].channel = NULL /\ conn' = conn
    BY <1>5 DEF ConnectFails, Goto, Keep
  <2>2. Others(r) /\ ArgOf(r) /\ pc'[r] = "over"
    BY <1>1, <2>1, ArgFields DEF TypesOK, Others, ArgOf
  <2>3. ~Uses(r) /\ ~Uses(r)' /\ ~Busy(r)'
    BY <2>1, <2>2 DEF Uses, Busy, Talking, UnderWay
  <2> QED BY <2>1, <2>2, <2>3, NoUseKeeps
<1> QED BY <1>3, <1>4, <1>5

LEMMA CleanupKeeps ==
  ASSUME "open" \notin DOMAIN NULL, HInv, NEW r \in Req, Cleanup(r)
  PROVE  HInv'
<1>1. TypesOK /\ pc[r] = "cleanup" /\ "cleanup" \in BusyStates
  BY DEF HInv, Cleanup, Running, BusyStates
<1>2. Uses(r) /\ arg[r].channel \in Channel
  BY <1>1, BusyIs, BusyUses
<1> DEFINE x == [NewArg EXCEPT !.channel = IF MustClose(r) THEN NULL ELSE arg[r].channel]
<1>3. /\ DOMAIN x = DOMAIN NewArg /\ x.do_not_shutdown = FALSE
      /\ x.channel = IF MustClose(r) THEN NULL ELSE arg[r].channel
  BY ArgFields
<1>4. /\ arg' = [arg EXCEPT ![r] = x] /\ pc' = [pc EXCEPT ![r] = "done"]
      /\ conn' = IF MustClose(r) THEN Shut(arg[r].channel) ELSE conn
  BY DEF Cleanup, Goto
<1> HIDE DEF x
<1>5. Others(r) /\ ArgOf(r) /\ pc'[r] = "done" /\ arg'[r] = x
  BY <1>1, <1>2, <1>3, <1>4 DEF TypesOK, Others, ArgOf
<1>6. ~Busy(r)'
  BY <1>5 DEF Busy, Talking, UnderWay
<1>7. CASE MustClose(r)
  <2>1. ~Uses(r)'
    BY <1>3, <1>5, <1>7 DEF Uses
  <2> QED BY <1>2, <1>4, <1>5, <1>6, <1>7, <2>1, ShutKeeps
<1>8. CASE ~MustClose(r)
  <2>1. Uses(r)' /\ arg'[r].channel = arg[r].channel /\ UNCHANGED conn
    BY <1>2, <1>3, <1>4, <1>5, <1>8 DEF Uses
  <2> QED BY <1>2, <1>5, <1>6, <2>1, HandsOnKeeps
<1> QED BY <1>7, <1>8

LEMMA FinishKeeps ==
  ASSUME "open" \notin DOMAIN NULL, HInv, NEW r \in Req, Finish(r)
  PROVE  HInv'
<1>1. TypesOK /\ pc[r] = "done"
  BY DEF HInv, Finish, Running
<1>2. /\ arg' = [arg EXCEPT ![r] = NewArg] /\ pc' = [pc EXCEPT ![r] = "over"]
      /\ conn' = IF ~KeepOpen(r) /\ arg[r].channel # NULL THEN Shut(arg[r].channel) ELSE conn
  BY DEF Finish, Goto
<1>3. Others(r) /\ ArgOf(r) /\ pc'[r] = "over"
  BY <1>1, <1>2, ArgFields DEF TypesOK, Others, ArgOf
<1>4. ~Uses(r)' /\ ~Busy(r)'
  BY <1>3 DEF Uses, Busy, Talking, UnderWay
<1>5. Uses(r) <=> ~KeepOpen(r) /\ arg[r].channel # NULL
  BY <1>1, Zenon DEF Uses, KeepOpen
<1>6. CASE Uses(r)
  BY <1>2, <1>3, <1>4, <1>5, <1>6, ShutKeeps
<1>7. CASE ~Uses(r)
  BY <1>2, <1>3, <1>4, <1>5, <1>7, NoUseKeeps
<1> QED BY <1>6, <1>7

(* A request begins, perhaps with the connection of another one. *)
LEMMA BeginKeeps ==
  ASSUME HInv, NEW r \in Req, Begin(r),
         \A k \in Req, n \in UploadSize :
           Running(k, {"done"}) /\ RequestCo(r, k, n) => ~arg[k].do_not_shutdown
  PROVE  HInv'
<1>1. CASE OpenFails(r)
  <2>1. TypesOK /\ pc' = [pc EXCEPT ![r] = "over"] /\ arg' = arg /\ conn' = conn /\ pc[r] = "new"
    BY <1>1 DEF HInv, OpenFails, MayStart, Goto, Keep
  <2>2. Others(r) /\ ArgOf(r) /\ pc'[r] = "over"
    BY <2>1 DEF TypesOK, Others, ArgOf
  <2>3. ~Uses(r) /\ ~Uses(r)' /\ ~Busy(r)'
    BY <2>1, <2>2 DEF Uses, Busy, Talking, UnderWay
  <2> QED BY <2>1, <2>2, <2>3, NoUseKeeps
<1>2. CASE \E k \in Req \cup {NULL}, n \in UploadSize : RequestCo(r, k, n)
  <2>1. PICK k \in Req \cup {NULL}, n \in UploadSize : RequestCo(r, k, n)
    BY <1>2
  <2>2. /\ TypesOK /\ pc[r] = "new" /\ pc' = [pc EXCEPT ![r] = "connect"] /\ conn' = conn
        /\ arg' = [q \in Req |->
             IF q = r THEN [NewArg EXCEPT !.size = n, !.pos = 1,
                              !.channel = IF k = NULL THEN NULL ELSE arg[k].channel]
             ELSE IF q = k THEN [arg[k] EXCEPT !.do_not_shutdown = TRUE]
             ELSE arg[q]]
    BY <2>1, Zenon DEF HInv, RequestCo, MayStart, Goto, Keep
  <2>3. /\ DOMAIN pc' = Req /\ DOMAIN arg' = Req /\ pc'[r] = "connect"
        /\ \A q \in Req \ {r} : pc'[q] = pc[q]
        /\ \A q \in Req \ {r, k} : arg'[q] = arg[q]
        /\ DOMAIN arg'[r] = DOMAIN NewArg
        /\ arg'[r].channel = IF k = NULL THEN NULL ELSE arg[k].channel
    BY <2>2, ArgFields DEF TypesOK
  <2>4. ~Uses(r) /\ ~Busy(r)'
    BY <2>2, <2>3 DEF Uses, Busy, Talking, UnderWay
  <2>5. CASE k = NULL
    <3>1. Others(r) /\ ArgOf(r) /\ ~Uses(r)'
      BY <2>3, <2>5, NamesAssumption DEF Others, ArgOf, Uses
    <3> QED BY <2>2, <2>4, <3>1, NoUseKeeps
  <2>6. CASE k # NULL
    <3>1. k \in Req /\ Running(k, {"done"}) /\ pc[k] = "done" /\ k # r
      BY <2>1, <2>2, <2>6 DEF RequestCo, MayStart, Running, Runs
    <3>2. ~arg[k].do_not_shutdown
      BY <2>1, <3>1
    <3>3. /\ DOMAIN arg'[k] = DOMAIN NewArg /\ arg'[k].do_not_shutdown = TRUE
          /\ arg'[k].channel = arg[k].channel
      BY <2>2, <3>1, ArgFields DEF TypesOK
    <3>4. /\ Uses(k) <=> Uses(r)'
          /\ ~Uses(k)' /\ ~Busy(k)'
          /\ \A q \in Req \ {r, k} : Uses(q)' <=> Uses(q)
          /\ \A q \in Req \ {r, k} : Busy(q)' <=> Busy(q)
          /\ \A q \in Req \ {r} : arg'[q].channel = arg[q].channel
          /\ arg'[r].channel = arg[k].channel
      BY <2>3, <2>6, <3>1, <3>2, <3>3 DEF Uses, Busy, Talking, UnderWay
    <3>5. TypesOK'
      BY <2>2, <2>3, <2>6, <3>1, <3>3 DEF TypesOK
    <3>6. Connections'
      <4>1. \A q \in Req : Busy(q)' => arg'[q].channel # NULL
        BY <2>4, <3>4 DEF HInv, Connections, Busy
      <4>2. ASSUME NEW q \in Req, Uses(q)'
            PROVE  conn[arg'[q].channel] # NULL
                   /\ \A d : d = arg'[q].channel => Open(d)
        BY <2>4, <3>1, <3>4, <4>2 DEF HInv, Connections
      <4>3. \A p, q \in Req : Uses(p)' /\ Uses(q)' /\ p # q => arg'[p].channel # arg'[q].channel
        BY <2>4, <3>1, <3>4 DEF HInv, Connections
      <4>4. \A c \in Channel : conn[c] # NULL /\ Open(c) =>
              \E q \in Req : Uses(q)' /\ arg'[q].channel = c
        BY <2>4, <3>1, <3>4 DEF HInv, Connections
      <4>5. conn' = conn
        BY <2>2
      <4> QED BY <4>1, <4>2, <4>3, <4>4, <4>5, Zenon DEF Connections, Busy, Open
    <3> QED BY <3>5, <3>6 DEF HInv
  <2> QED BY <2>5, <2>6
<1> QED BY <1>1, <1>2 DEF Begin

(* The program, its coroutines, server and network. *)
LEMMA HttpKeeps ==
  ASSUME "open" \notin DOMAIN NULL, HInv, HttpNext, TakesOnce
  PROVE  HInv'
<1>1. TypesOK
  BY DEF HInv
<1>2. ASSUME NEW r \in Req, Step(r)
      PROVE  HInv'
  BY <1>2, ConnectKeeps, SendKeeps, LinesKeep, ReadKeeps, CleanupKeeps, FinishKeeps
     DEF Step
<1>3. ASSUME NEW r \in Req, Resume(r)
      PROVE  HInv'
  BY <1>1, <1>3, UnchangedSame, OnlyConnections DEF Resume, Resumed, requestVars
<1>4. ASSUME NEW c \in Channel, NEW a \in Replies, ServerAnswers(c, a)
      PROVE  HInv'
  <2>1. SameOpen
    BY <1>1, <1>4, NetworkSame
  <2> QED BY <1>4, <2>1, OnlyConnections DEF ServerAnswers
<1> QED BY <1>2, <1>3, <1>4, BeginKeeps, ConnectKeeps DEF HttpNext, TakesOnce

-----------------------------------------------------------------------------
(***************************************************************************)
(* Uploads have nothing to do with requests: an upload that has begun is   *)
(* never new again.                                                        *)
(***************************************************************************)
LEMMA AfterIs ==
  ASSUME NEW cmd \in Command \cup {"greeting", "ready"}, NEW rc, Allowed(cmd, rc)
  PROVE  After(cmd, rc) # "new"
<1>1. PICK d : d = rc \div 100
  OBVIOUS
<1>2. cmd = "greeting" => d = 1 \/ d = 2
  BY <1>1 DEF Allowed, Command
<1> QED BY <1>1, <1>2 DEF After, Command

LEMMA PutStepOn ==
  ASSUME DOMAIN at = Put, NEW p \in Put, PutStep(p)
  PROVE  DOMAIN at' = Put /\ at'[p] # "new"
<1>1. ASSUME NEW s, s # "new", Does(p, s)
      PROVE  DOMAIN at' = Put /\ at'[p] # "new"
  BY <1>1 DEF Does
<1>2. ASSUME NEW s, s # "new", Enter(p, s)
      PROVE  DOMAIN at' = Put /\ at'[p] # "new"
  BY <1>1, <1>2 DEF Enter
<1>3. \A cmd : LeaveFrom(cmd) # "new"
  BY DEF LeaveFrom
<1>4. CASE Fails(p) \/ ConnectControl(p) \/ ConnectData(p) \/ ConnectDataFails(p)
           \/ ReadSource(p) \/ BlockFails(p) \/ Dies(p) \/ WriteBlock(p)
  BY <1>1, <1>2, <1>4 DEF Fails, ConnectControl, ConnectData, ConnectDataFails,
     ReadSource, BlockFails, Dies, WriteBlock, Puts
<1>5. CASE WriteCommand(p) \/ WriteCommandFails(p)
  BY <1>1, <1>3, <1>5 DEF WriteCommand, WriteCommandFails, Puts, Command
<1>6. CASE GetReply(p)
  <2>1. at[p] \in Command \cup {"greeting", "ready"} /\ at[p] # "new"
    BY <1>6 DEF GetReply, Awaits, Puts, Command
  <2>2. \/ UNCHANGED at
        \/ Enter(p, LeaveFrom(at[p]))
        \/ \E rc : Allowed(at[p], rc) /\ Enter(p, After(at[p], rc))
    BY <1>6, Zenon DEF GetReply
  <2> QED BY <1>2, <1>3, <2>1, <2>2, AfterIs
<1>7. CASE AwaitReply(p)
  BY <1>2, <1>3, <1>7 DEF AwaitReply, Awaits, Puts, Command, putVars
<1> QED BY <1>4, <1>5, <1>6, <1>7 DEF PutStep

LEMMA FtpKeeps ==
  ASSUME DOMAIN at = Put, FtpNext
  PROVE  /\ DOMAIN at' = Put
         /\ \/ Uploading'
            \/ UNCHANGED at /\ (UNCHANGED conn \/ \E c \in Channel : AnswerCommand(c))
<1>1. ASSUME NEW p \in Put, NEW n \in FileSize, PutCo(p, n)
      PROVE  DOMAIN at' = Put /\ at'[p] # "new"
  BY <1>1 DEF PutCo, Does
<1>2. ASSUME NEW p \in Put, ResumePut(p)
      PROVE  UNCHANGED <<at, conn>>
  BY <1>2 DEF ResumePut, Resumed, putVars
<1>3. ASSUME NEW c \in Channel, AnswerCommand(c)
      PROVE  UNCHANGED at
  BY <1>3 DEF AnswerCommand, putVars
<1> QED BY <1>1, <1>2, <1>3, PutStepOn DEF FtpNext, Uploading

-----------------------------------------------------------------------------
LEMMA NInvInit == Init => NInv
<1> SUFFICES ASSUME Init
             PROVE  NInv
  OBVIOUS
<1>1. /\ pc = [r \in Req |-> "new"] /\ arg = [r \in Req |-> NewArg]
      /\ conn = [c \in Channel |-> NULL] /\ at = [p \in Put |-> "new"]
  BY DEF Init, ChannelsInit, HttpInit, FtpInit
<1>2. TypesOK
  BY <1>1, ArgFields DEF TypesOK
<1>3. Connections
  BY <1>1 DEF Connections, Uses, Talking, UnderWay
<1> QED BY <1>1, <1>2, <1>3 DEF NInv, HInv, Uploading

LEMMA NInvKeeps ==
  ASSUME "open" \notin DOMAIN NULL, NInv, [Next]_vars, [TakesOnce]_vars
  PROVE  NInv'
<1>1. CASE HttpStep
  <2>1. ~Uploading /\ at' = at /\ HttpNext
    BY <1>1 DEF HttpStep, Uploading, putVars
  <2>2. HInv'
    <3>1. CASE TakesOnce
      BY <2>1, <3>1, HttpKeeps DEF NInv
    <3>2. CASE UNCHANGED vars
      BY <2>1, <3>2, UnchangedSame, OnlyConnections
         DEF NInv, HInv, vars, channelVars, requestVars
    <3> QED BY <3>1, <3>2
  <2> QED BY <2>1, <2>2 DEF NInv, Uploading
<1>2. CASE FtpStep
  <2>1. (\A r \in Req : pc[r] = "new") /\ pc' = pc /\ arg' = arg /\ FtpNext
    BY <1>2 DEF FtpStep, requestVars
  <2>2. CASE Uploading'
    BY <2>1, <2>2, FtpKeeps DEF NInv
  <2>3. CASE ~Uploading'
    <3>1. UNCHANGED at /\ (UNCHANGED conn \/ \E c \in Channel : AnswerCommand(c))
      BY <2>1, <2>3, FtpKeeps DEF NInv
    <3>2. ~Uploading /\ HInv /\ TypesOK
      BY <2>3, <3>1 DEF NInv, HInv, Uploading
    <3>3. SameOpen
      BY <3>1, <3>2, UnchangedSame, NetworkSame
    <3>4. HInv'
      BY <2>1, <3>2, <3>3, OnlyConnections
    <3> QED BY <2>3, <3>1, <3>4 DEF NInv
  <2> QED BY <2>2, <2>3
<1>3. ASSUME UNCHANGED <<pc, arg, at>>,
             UNCHANGED conn \/ \E c \in Channel : ServerReads(c) \/ Deliver(c) \/ Break(c)
      PROVE  NInv'
  <2>1. CASE Uploading
    BY <1>3, <2>1 DEF NInv, Uploading
  <2>2. CASE ~Uploading
    <3>1. HInv /\ TypesOK
      BY <2>2 DEF NInv, HInv
    <3>2. SameOpen
      BY <1>3, <3>1, UnchangedSame, NetworkSame
    <3>3. HInv'
      BY <1>3, <3>1, <3>2, OnlyConnections
    <3> QED BY <1>3, <2>2, <3>3 DEF NInv, Uploading
  <2> QED BY <2>1, <2>2
<1>4. CASE \E c \in Channel : ConnStep(c)
  BY <1>3, <1>4 DEF ConnStep, requestVars, putVars
<1>5. CASE UNCHANGED vars
  BY <1>3, <1>5 DEF vars, channelVars, requestVars, putVars
<1> QED BY <1>1, <1>2, <1>4, <1>5 DEF Next

(* Requests are alone on open connections, and close them all, if each     *)
(* connection is handed on once; NULL is no record with a field open       *)
(* (_prepare_request_args, request and _shutdown_channel, http_co.lua).    *)
THEOREM Connections_Owned ==
  ASSUME "open" \notin DOMAIN NULL
  PROVE  Spec /\ [][TakesOnce]_vars => []ConnectionsOwned
<1>1. Init => NInv
  BY NInvInit
<1>2. NInv /\ [Next]_vars /\ [TakesOnce]_vars => NInv'
  BY NInvKeeps
<1>3. NInv => ConnectionsOwned
  <2> SUFFICES ASSUME NInv
               PROVE  ConnectionsOwned
    OBVIOUS
  <2>1. CASE Uploading
    BY <2>1 DEF NInv, ConnectionsOwned, Talking, UnderWay
  <2>2. CASE ~Uploading
    <3>1. HInv /\ \A r \in Req : Talking(r) => Busy(r) /\ Uses(r)
      BY <2>2, BusyUses DEF NInv, Busy
    <3>2. ASSUME NEW r \in Req, Talking(r)
          PROVE  /\ arg[r].channel # NULL /\ Open(arg[r].channel)
                 /\ \A q \in Req \ {r} : Talking(q) => arg[q].channel # arg[r].channel
      BY <3>1, <3>2 DEF HInv, Connections
    <3>3. ASSUME RequestsOver, NEW c \in Channel, conn[c] # NULL
          PROVE  ~Open(c)
      BY <3>1, <3>3 DEF HInv, Connections, RequestsOver, Uses
    <3> QED BY <3>2, <3>3, Zenon DEF ConnectionsOwned, Open, Chan, ChannelOf
  <2> QED BY <2>1, <2>2
<1> QED BY <1>1, <1>2, <1>3, PTL DEF Spec

-----------------------------------------------------------------------------
(***************************************************************************)
(* Uploads.  What the server has of a file is a beginning of it: at each   *)
(* moment the file is cut into what the server has read, what it has not   *)
(* read yet, what is still to be written and what the source has left.     *)
(***************************************************************************)
Piece(p, m, n) == [i \in 1..(n - m) |-> Unit("body", p, m + i)]

(* After n units a source of size units is at the end of a block.          *)
AtBlock(n, size) == n = size \/ \E k \in Nat : n = k * BlockSize

(* The connection d for the file of p, whose table is e, in state s.       *)
Sent(p, e, s, d) ==
  /\ DOMAIN d = DOMAIN NewConn
  /\ \E m, n \in Nat :
       /\ m <= n /\ n <= e.size /\ n - m <= Window
       /\ d.got = Piece(p, 0, m) /\ d.up = Piece(p, m, n)
       /\ s = "stor" => n = 0
       /\ s = "send" /\ ~d.fin =>
            /\ e.pos \in Nat /\ n < e.pos /\ e.pos <= e.size + 1
            /\ AtBlock(e.pos - 1, e.size)
            /\ e.out = Piece(p, n, e.pos - 1)
       /\ e.result = "sent" /\ ~d.fin => n = e.size

Stage(e, s) ==
  /\ DOMAIN e = DOMAIN NewPut
  /\ e.channel \in Channel \cup {NULL} /\ e.data_ioc \in Channel \cup {NULL}
  /\ e.size \in FileSize \cup {0}
  /\ s = "new" => e = NewPut
  /\ s = "connect" => e.channel = NULL
  /\ s \in {"send", "shut"} => e.data_ioc # NULL
  /\ s = "stor" => e.data_ioc # NULL /\ e.pos = 1
  /\ s \in {"stor", "send"} => e.result # "sent"
  /\ s \notin {"stor", "send", "shut", "over"} =>
       e.data_ioc = NULL /\ e.pos = 1 /\ e.result # "sent"
  /\ s \notin {"new", "connect", "over"} => e.channel # NULL

(* Each upload has its own connections, all different. *)
Apart ==
  /\ \A p \in Put : put[p].channel # NULL => conn[put[p].channel] # NULL
  /\ \A p \in Put : put[p].data_ioc # NULL => conn[put[p].data_ioc] # NULL
  /\ \A p, q \in Put : put[p].channel # NULL => put[p].channel # put[q].data_ioc
  /\ \A p, q \in Put : p # q /\ put[p].data_ioc # NULL => put[p].data_ioc # put[q].data_ioc

FieldsOK ==
  /\ DOMAIN at = Put /\ DOMAIN put = Put /\ DOMAIN conn = Channel
  /\ \A c \in Channel : conn[c] # NULL => DOMAIN conn[c] = DOMAIN NewConn

Parts ==
  /\ \A p \in Put : Stage(put[p], at[p])
  /\ \A p \in Put : put[p].data_ioc # NULL =>
       Sent(p, put[p], at[p], conn[put[p].data_ioc])

UInv == FieldsOK /\ Parts /\ Apart

(* Either no request has begun, or no upload ever does.                    *)
NoRequests == \A r \in Req : pc[r] = "new"

FInv ==
  /\ DOMAIN pc = Req
  /\ NoRequests => UInv
  /\ ~NoRequests => \A p \in Put : at[p] = "new" /\ put[p] = NewPut

-----------------------------------------------------------------------------
Units(p) == {Unit("body", p, i) : i \in Nat}

LEMMA PieceIs ==
  ASSUME NEW p, NEW m \in Nat, NEW n \in Nat, m <= n
  PROVE  /\ Piece(p, m, n) \in Seq(Units(p)) /\ Len(Piece(p, m, n)) = n - m
         /\ \A i \in 1..(n - m) : Piece(p, m, n)[i] = Unit("body", p, m + i)
<1>1. \A i \in 1..(n - m) : Unit("body", p, m + i) \in Units(p)
  BY DEF Units
<1>2. n - m \in Nat
  OBVIOUS
<1> QED BY <1>1, <1>2 DEF Piece

LEMMA PieceEmpty ==
  ASSUME NEW p, NEW m \in Nat
  PROVE  Piece(p, m, m) = <<>>
BY DEF Piece

LEMMA PieceJoin ==
  ASSUME NEW p, NEW a \in Nat, NEW b \in Nat, NEW c \in Nat, a <= b, b <= c
  PROVE  Piece(p, a, b) \o Piece(p, b, c) = Piece(p, a, c)
<1>1. PICK s, t, u : s = Piece(p, a, b) /\ t = Piece(p, b, c) /\ u = Piece(p, a, c)
  OBVIOUS
<1>2. PICK S : S = Units(p)
  OBVIOUS
<1>3. a <= c
  OBVIOUS
<1>4. s \in Seq(S) /\ Len(s) = b - a /\ \A i \in 1..(b - a) : s[i] = Unit("body", p, a + i)
  BY <1>1, <1>2, PieceIs
<1>5. t \in Seq(S) /\ Len(t) = c - b /\ \A i \in 1..(c - b) : t[i] = Unit("body", p, b + i)
  BY <1>1, <1>2, PieceIs
<1>6. u \in Seq(S) /\ Len(u) = c - a /\ \A i \in 1..(c - a) : u[i] = Unit("body", p, a + i)
  BY <1>1, <1>2, <1>3, PieceIs
<1>7. /\ s \o t \in Seq(S) /\ Len(s \o t) = Len(s) + Len(t)
      /\ \A i \in 1..(Len(s) + Len(t)) :
           (s \o t)[i] = IF i <= Len(s) THEN s[i] ELSE t[i - Len(s)]
  BY <1>4, <1>5, ConcatProperties
<1>8. PICK w : w = s \o t
  OBVIOUS
<1>9. w \in Seq(S) /\ Len(w) = c - a
  <2>1. (b - a) + (c - b) = c - a
    OBVIOUS
  <2>2. Len(w) = (b - a) + (c - b)
    BY <1>4, <1>5, <1>7, <1>8
  <2> QED BY <1>7, <1>8, <2>1, <2>2
<1>10. ASSUME NEW i \in 1..(c - a)
       PROVE  w[i] = u[i]
  <2>1. u[i] = Unit("body", p, a + i)
    BY <1>6
  <2>2. i \in Int /\ (i <= b - a \/ i > b - a) /\ i \in 1..(Len(s) + Len(t))
    BY <1>4, <1>5
  <2>3. CASE i <= b - a
    <3>1. w[i] = s[i] /\ i \in 1..(b - a)
      BY <1>4, <1>7, <1>8, <2>2, <2>3
    <3> QED BY <1>4, <2>1, <3>1
  <2>4. CASE i > b - a
    <3>1. PICK l : l = i - (b - a)
      OBVIOUS
    <3>2. l \in 1..(c - b) /\ b + l = a + i
      BY <2>2, <2>4, <3>1
    <3>3. w[i] = t[l]
      BY <1>4, <1>7, <1>8, <2>2, <2>4, <3>1
    <3>4. t[l] = Unit("body", p, b + l)
      BY <1>5, <3>2
    <3> QED BY <2>1, <3>2, <3>3, <3>4
  <2> QED BY <2>2, <2>3, <2>4
<1>11. w = u
  BY <1>6, <1>9, <1>10, SeqEqual
<1> QED BY <1>1, <1>8, <1>11

(* The units of Piece(p, a, b) from the g-th to the h-th are those after x, *)
(* up to y.                                                                *)
Within(a, b, g, h, x, y) ==
  /\ a \in Nat /\ b \in Nat /\ g \in Nat /\ h \in Nat
  /\ 1 <= g /\ g <= h + 1 /\ a + h <= b
  /\ x = a + g - 1 /\ y = a + h

LEMMA PieceSub ==
  ASSUME NEW p, NEW a, NEW b, NEW g, NEW h, NEW x, NEW y, Within(a, b, g, h, x, y)
  PROVE  SubSeq(Piece(p, a, b), g, h) = Piece(p, x, y)
<1>1. PICK s, t : s = Piece(p, a, b) /\ t = Piece(p, x, y)
  OBVIOUS
<1>2. /\ a \in Nat /\ b \in Nat /\ g \in Nat /\ h \in Nat /\ x \in Nat /\ y \in Nat
      /\ a <= b /\ y - x = h - g + 1 /\ h <= b - a /\ x - a = g - 1 /\ 1 <= g
  BY DEF Within
<1>3. \A k \in 1..(b - a) : s[k] = Unit("body", p, a + k)
  BY <1>1 DEF Piece
<1>4. t = [k \in 1..(h - g + 1) |-> Unit("body", p, x + k)]
  BY <1>1, <1>2 DEF Piece
<1>5. SubSeq(s, g, h) = [k \in 1..(1 + h - g) |-> s[g + k - 1]]
  BY <1>2 DEF SubSeq
<1>6. ASSUME NEW k \in 1..(h - g + 1)
      PROVE  s[g + k - 1] = Unit("body", p, x + k)
  <2>1. PICK l : l = g + k - 1
    OBVIOUS
  <2>2. l \in 1..(b - a) /\ a + l = x + k
    BY <1>2, <2>1
  <2> QED BY <1>3, <2>1, <2>2
<1>7. 1 + h - g = h - g + 1
  BY <1>2
<1> QED BY <1>1, <1>4, <1>5, <1>6, <1>7

LEMMA BodyPiece ==
  ASSUME NEW p, NEW n \in Nat
  PROVE  Body(p, n) = Piece(p, 0, n)
<1>1. n - 0 = n /\ \A i \in 1..n : 0 + i = i
  OBVIOUS
<1> QED BY <1>1 DEF Body, Piece

LEMMA PiecePrefix ==
  ASSUME NEW p, NEW n \in Nat, NEW h \in Nat, n <= h
  PROVE  IsPrefix(Piece(p, 0, n), Piece(p, 0, h))
<1>1. ASSUME NEW k \in Nat
      PROVE  Len(Piece(p, 0, k)) = k
  <2>1. PICK z \in Nat : z = 0
    OBVIOUS
  <2>2. z <= k /\ k - z = k
    BY <2>1
  <2>3. Len(Piece(p, z, k)) = k - z
    BY <2>2, PieceIs
  <2> QED BY <2>1, <2>2, <2>3
<1>2. ASSUME NEW k \in Nat, n <= k
      PROVE  SubSeq(Piece(p, 0, k), 1, n) = Piece(p, 0, n)
  <2>1. PICK z, g : z = 0 /\ g = 1
    OBVIOUS
  <2>2. Within(z, k, g, n, z, n)
    BY <1>2, <2>1 DEF Within
  <2>3. SubSeq(Piece(p, z, k), g, n) = Piece(p, z, n)
    BY <2>2, PieceSub
  <2> QED BY <2>1, <2>3
<1>3. SubSeq(Piece(p, 0, n), 1, n) = SubSeq(Piece(p, 0, h), 1, n)
  BY <1>2
<1> QED BY <1>1, <1>3 DEF IsPrefix

(* What the server has is a beginning of the file. *)
LEMMA SentExact ==
  ASSUME NEW p, NEW e, NEW s, NEW d, Sent(p, e, s, d), e.size \in Nat
  PROVE  LET has == d.got \o d.up
             file == Body(p, e.size)
         IN /\ IsPrefix(has, file)
            /\ e.result = "sent" /\ ~d.fin => has = file
<1>1. PICK m \in Nat, n \in Nat :
        /\ m <= n /\ n <= e.size
        /\ d.got = Piece(p, 0, m) /\ d.up = Piece(p, m, n)
        /\ e.result = "sent" /\ ~d.fin => n = e.size
  BY DEF Sent
<1>2. d.got \o d.up = Piece(p, 0, n)
  <2>1. 0 \in Nat /\ 0 <= m
    OBVIOUS
  <2>2. Piece(p, 0, m) \o Piece(p, m, n) = Piece(p, 0, n)
    BY <1>1, <2>1, PieceJoin
  <2> QED BY <1>1, <2>2
<1>3. Body(p, e.size) = Piece(p, 0, e.size)
  BY BodyPiece
<1>4. IsPrefix(Piece(p, 0, n), Piece(p, 0, e.size))
  BY <1>1, PiecePrefix
<1> QED BY <1>1, <1>2, <1>3, <1>4

-----------------------------------------------------------------------------
(***************************************************************************)
(* Steps of an upload.                                                     *)
(***************************************************************************)
LEMMA PutFields ==
  /\ DOMAIN NewPut = {"channel", "data_ioc", "pos", "size", "out", "code", "result"}
  /\ NewPut.channel = NULL /\ NewPut.data_ioc = NULL /\ NewPut.pos = 1
  /\ NewPut.size = 0 /\ NewPut.result = NULL
BY DEF NewPut

(* The upload p goes to s, with the table e. *)
Moves(p, s, e) ==
  /\ DOMAIN at' = Put /\ DOMAIN put' = Put
  /\ at'[p] = s /\ put'[p] = e
  /\ \A q \in Put \ {p} : at'[q] = at[q] /\ put'[q] = put[q]

(* One connection changes, or begins. *)
Touches(c) ==
  /\ DOMAIN conn' = Channel
  /\ DOMAIN conn'[c] = DOMAIN NewConn
  /\ \A d \in Channel \ {c} : conn'[d] = conn[d]

(* A connection that p has newly. *)
Fresh(c) == c \in Channel /\ conn[c] = NULL /\ Touches(c)

(* What p has: both connections as before, or one of them newly. *)
Has(p, e) ==
  \/ /\ e.channel = put[p].channel /\ e.data_ioc = put[p].data_ioc
     /\ \/ conn' = conn
        \/ e.channel # NULL /\ Touches(e.channel)
        \/ e.data_ioc # NULL /\ Touches(e.data_ioc)
  \/ e.channel = put[p].channel /\ put[p].data_ioc = NULL /\ Fresh(e.data_ioc)
  \/ e.data_ioc = put[p].data_ioc /\ put[p].channel = NULL /\ Fresh(e.channel)

LEMMA TouchesNotNull ==
  ASSUME "open" \notin DOMAIN NULL, NEW c, Touches(c)
  PROVE  conn'[c] # NULL
BY ConnFields DEF Touches

(* Nothing that is connected is lost.                                      *)
ConnStays ==
  /\ DOMAIN conn' = Channel
  /\ \A c \in Channel : /\ conn[c] # NULL => conn'[c] # NULL
                        /\ conn'[c] # NULL => DOMAIN conn'[c] = DOMAIN NewConn

LEMMA TouchesStays ==
  ASSUME "open" \notin DOMAIN NULL, FieldsOK, NEW c, Touches(c) \/ conn' = conn
  PROVE  ConnStays
<1>1. CASE Touches(c)
  <2>1. conn'[c] # NULL
    BY <1>1, TouchesNotNull
  <2> QED BY <1>1, <2>1 DEF FieldsOK, Touches, ConnStays
<1>2. CASE conn' = conn
  BY <1>2 DEF FieldsOK, ConnStays
<1> QED BY <1>1, <1>2

(* An upload goes on: the others keep their parts, and it has its own.     *)
LEMMA UploadMoves ==
  ASSUME "open" \notin DOMAIN NULL, NULL \notin Channel, UInv, NEW p \in Put, NEW s,
         NEW e, Moves(p, s, e), Stage(e, s), Has(p, e),
         e.data_ioc # NULL => Sent(p, e, s, conn'[e.data_ioc])
  PROVE  UInv'
<1>1. FieldsOK /\ Parts /\ Apart
  BY DEF UInv
<1>2. \A q \in Put : /\ put[q].channel \in Channel \cup {NULL}
                     /\ put[q].data_ioc \in Channel \cup {NULL}
  BY <1>1 DEF Parts, Stage
<1>3. ConnStays
  <2>1. \E c : Touches(c) \/ conn' = conn
    BY DEF Has, Fresh
  <2> QED BY <1>1, <2>1, TouchesStays
<1>4. ASSUME NEW q \in Put \ {p}, put[q].data_ioc # NULL
      PROVE  conn'[put[q].data_ioc] = conn[put[q].data_ioc]
  <2>1. PICK d \in Channel : d = put[q].data_ioc
    BY <1>2, <1>4
  <2>2. conn[d] # NULL /\ d # put[p].data_ioc /\ d # put[p].channel
    BY <1>1, <1>4, <2>1 DEF Apart
  <2>3. conn' = conn \/ \E c : c # d /\ Touches(c)
    BY <2>2 DEF Has, Fresh
  <2>4. conn'[d] = conn[d]
    BY <2>3 DEF Touches
  <2> QED BY <2>1, <2>4
<1>5. FieldsOK'
  BY <1>3 DEF FieldsOK, ConnStays, Moves
<1>6. Parts'
  <2>1. ASSUME NEW q \in Put
        PROVE  Stage(put'[q], at'[q])
    BY <1>1 DEF Moves, Parts
  <2>2. ASSUME NEW q \in Put, put'[q].data_ioc # NULL
        PROVE  Sent(q, put'[q], at'[q], conn'[put'[q].data_ioc])
    <3>1. CASE q = p
      BY <2>2, <3>1 DEF Moves
    <3>2. CASE q # p
      <4>1. put'[q] = put[q] /\ at'[q] = at[q]
        BY <3>2 DEF Moves
      <4> QED BY <1>1, <1>4, <2>2, <3>2, <4>1 DEF Parts
    <3> QED BY <3>1, <3>2
  <2> QED BY <2>1, <2>2 DEF Parts
<1>7. Apart'
  <2>1. \A q \in Put : \/ q # p /\ put'[q] = put[q]
                       \/ q = p /\ put'[q] = e
    BY DEF Moves
  <2>2. /\ e.channel \in Channel => conn'[e.channel] # NULL
        /\ e.data_ioc \in Channel => conn'[e.data_ioc] # NULL
    <3>1. ASSUME NEW c \in Channel, Fresh(c)
          PROVE  conn'[c] # NULL
      BY <3>1, TouchesNotNull DEF Fresh
    <3> QED BY <1>1, <1>3, <3>1 DEF Has, Apart, ConnStays
  <2>3. \/ e.channel = put[p].channel /\ e.data_ioc = put[p].data_ioc
        \/ /\ e.channel = put[p].channel /\ put[p].data_ioc = NULL
           /\ e.data_ioc \in Channel /\ conn[e.data_ioc] = NULL
        \/ /\ e.data_ioc = put[p].data_ioc /\ put[p].channel = NULL
           /\ e.channel \in Channel /\ conn[e.channel] = NULL
    BY DEF Has, Fresh
  <2>4. \A q \in Put : /\ put'[q].channel # NULL => conn'[put'[q].channel] # NULL
                       /\ put'[q].data_ioc # NULL => conn'[put'[q].data_ioc] # NULL
    BY <1>1, <1>2, <1>3, <2>1, <2>2, <2>3 DEF Apart, ConnStays
  <2>5. \A q, r \in Put :
          put'[q].channel # NULL => put'[q].channel # put'[r].data_ioc
    BY <1>1, <1>2, <2>1, <2>3 DEF Apart
  <2>6. \A q, r \in Put :
          q # r /\ put'[q].data_ioc # NULL => put'[q].data_ioc # put'[r].data_ioc
    BY <1>1, <1>2, <2>1, <2>3 DEF Apart
  <2> QED BY <2>4, <2>5, <2>6 DEF Apart
<1> QED BY <1>5, <1>6, <1>7 DEF UInv

LEMMA MovesIs ==
  ASSUME FieldsOK, NEW p \in Put, NEW s, NEW e,
         Does(p, s) \/ (at' = at /\ s = at[p]),
         put' = [put EXCEPT ![p] = e] \/ (put' = put /\ e = put[p])
  PROVE  Moves(p, s, e)
BY DEF FieldsOK, Does, Moves

LEMMA PutHas ==
  ASSUME UInv, NEW p \in Put
  PROVE  /\ Stage(put[p], at[p]) /\ DOMAIN put[p] = DOMAIN NewPut
         /\ put[p].size \in Nat
         /\ put[p].channel \in Channel \cup {NULL}
         /\ put[p].channel # NULL =>
              /\ conn[put[p].channel] # NULL /\ put[p].channel # put[p].data_ioc
              /\ DOMAIN conn[put[p].channel] = DOMAIN NewConn
         /\ put[p].data_ioc \in Channel \cup {NULL}
         /\ put[p].data_ioc # NULL =>
              /\ conn[put[p].data_ioc] # NULL
              /\ DOMAIN conn[put[p].data_ioc] = DOMAIN NewConn
              /\ Sent(p, put[p], at[p], conn[put[p].data_ioc])
<1>1. Stage(put[p], at[p])
  BY DEF UInv, Parts
<1>2. put[p].size \in Nat
  <2>1. put[p].size \in FileSize \cup {0}
    BY <1>1 DEF Stage
  <2>2. \A n \in FileSize : n \in Nat
    BY FtpAssumption
  <2> QED BY <2>1, <2>2
<1> QED BY <1>1, <1>2 DEF UInv, FieldsOK, Parts, Apart, Stage

(* What is done to a connection. *)
LEMMA FieldTouches ==
  ASSUME FieldsOK, NEW c \in Channel, conn[c] # NULL, NEW u, NEW v, NEW w, NEW x,
         \/ conn' = [conn EXCEPT ![c].down = v, ![c].flight = w]
         \/ conn' = [conn EXCEPT ![c].open = u, ![c].buf = v, ![c].down = w,
                                 ![c].flight = x]
  PROVE  /\ Touches(c) /\ conn'[c].got = conn[c].got /\ conn'[c].up = conn[c].up
         /\ conn'[c].fin = conn[c].fin
<1>1. DOMAIN conn[c] = DOMAIN NewConn /\ DOMAIN conn = Channel
  BY DEF FieldsOK
<1> QED BY <1>1, ConnFields DEF Touches

LEMMA DialogueTouches ==
  ASSUME FieldsOK, NEW c \in Channel, conn[c] # NULL, NEW p, NEW data,
         WriteChars(p, c, data) \/ TakeLine(c) \/ ReadMore(p, c)
  PROVE  conn' = conn \/ Touches(c)
<1>1. DOMAIN conn[c] = DOMAIN NewConn /\ DOMAIN conn = Channel
  BY DEF FieldsOK
<1>2. CASE WriteChars(p, c, data)
  <2>1. CASE conn' # conn
    <3>1. conn' = [conn EXCEPT ![c].up = @ \o SubSeq(data, 1, Accepted(c, data))]
      BY <1>2, <2>1, Zenon DEF WriteChars
    <3>2. PICK v : conn' = [conn EXCEPT ![c].up = v]
      BY <3>1
    <3> QED BY <1>1, <3>2, ConnFields DEF Touches
  <2> QED BY <2>1
<1>3. CASE TakeLine(c)
  <2>1. PICK v : conn' = [conn EXCEPT ![c].buf = v]
    BY <1>3 DEF TakeLine
  <2> QED BY <1>1, <2>1, ConnFields DEF Touches
<1>4. CASE ReadMore(p, c)
  <2>1. CASE conn' # conn
    <3>1. PICK v, w : conn' = [conn EXCEPT ![c].buf = v, ![c].down = w]
      BY <1>4, <2>1 DEF ReadMore
    <3> QED BY <1>1, <3>1, ConnFields DEF Touches
  <2> QED BY <2>1
<1> QED BY <1>2, <1>3, <1>4

-----------------------------------------------------------------------------
(* The dialogue of commands and replies.                                   *)
Dialogue == Command \cup {"greeting", "ready"}

(* Where it goes on from s; to "send" with nothing to write.               *)
GoesTo(s, t, e) ==
  \/ t = s
  \/ s = "stor" /\ (t = "shut" \/ (t = "send" /\ e.out = <<>>))
  \/ s # "stor" /\ t \in {"ready", "user", "pass", "type", "pasv", "data", "leave"}

SameParts(x, e) ==
  /\ DOMAIN e = DOMAIN NewPut
  /\ e.channel = x.channel /\ e.data_ioc = x.data_ioc /\ e.pos = x.pos
  /\ e.size = x.size /\ e.result = x.result

LEMMA DialogueKeeps ==
  ASSUME "open" \notin DOMAIN NULL, NULL \notin Channel, UInv, NEW p \in Put, NEW s,
         NEW e, Moves(p, s, e), at[p] \in Dialogue, GoesTo(at[p], s, e),
         SameParts(put[p], e), conn' = conn \/ Touches(put[p].channel)
  PROVE  UInv'
<1>1. /\ Stage(put[p], at[p]) /\ put[p].channel # NULL
      /\ put[p].channel # put[p].data_ioc
  BY PutHas DEF Stage, Dialogue, Command
<1>2. Stage(e, s)
  BY <1>1 DEF Stage, Dialogue, Command, GoesTo, SameParts
<1>3. Has(p, e)
  BY <1>1 DEF Has, SameParts
<1>4. ASSUME e.data_ioc # NULL
      PROVE  Sent(p, e, s, conn'[e.data_ioc])
  <2>1. at[p] = "stor" /\ put[p].pos = 1 /\ e.size \in Nat
    <3>1. at[p] = "stor"
      BY <1>1, <1>4 DEF Stage, SameParts, Dialogue, Command
    <3> QED BY <1>1, <3>1, PutHas DEF Stage, SameParts
  <2>2. PICK d : d = conn[put[p].data_ioc]
    OBVIOUS
  <2>3. conn'[e.data_ioc] = d
    BY <1>1, <1>4, <2>2, PutHas DEF Touches, SameParts
  <2>4. Sent(p, put[p], "stor", d)
    BY <1>4, <2>1, <2>2, PutHas DEF SameParts
  <2>5. PICK m \in Nat, n \in Nat :
          /\ DOMAIN d = DOMAIN NewConn
          /\ m <= n /\ n <= e.size /\ n - m <= Window
          /\ d.got = Piece(p, 0, m) /\ d.up = Piece(p, m, n)
          /\ n = 0
          /\ e.result = "sent" /\ ~d.fin => n = e.size
    BY <2>4 DEF Sent, SameParts
  <2>6. s = "send" => e.out = Piece(p, n, e.pos - 1)
    <3>1. e.pos - 1 = 0 /\ 0 \in Nat
      BY <2>1 DEF SameParts
    <3>2. Piece(p, 0, 0) = <<>>
      BY <3>1, PieceEmpty
    <3> QED BY <2>1, <2>5, <3>1, <3>2 DEF GoesTo
  <2>7. AtBlock(e.pos - 1, e.size)
    <3>1. 0 \in Nat /\ e.pos - 1 = 0 * BlockSize
      BY <2>1, ChannelsAssumption DEF SameParts
    <3> QED BY <3>1 DEF AtBlock
  <2>8. e.pos = 1 /\ e.pos <= e.size + 1
    BY <2>1 DEF SameParts
  <2>9. s = "send" /\ ~d.fin =>
          /\ e.pos \in Nat /\ n < e.pos /\ e.pos <= e.size + 1
            /\ AtBlock(e.pos - 1, e.size)
          /\ e.out = Piece(p, n, e.pos - 1)
    BY <2>5, <2>6, <2>7, <2>8
  <2>10. Sent(p, e, s, d)
    BY <2>5, <2>9 DEF Sent
  <2> QED BY <2>3, <2>10
<1> QED BY <1>2, <1>3, <1>4, UploadMoves

(* Where an upload goes in a dialogue. *)
Onward(s) == IF s = "stor" THEN {"send", "shut"}
             ELSE {"ready", "user", "pass", "type", "pasv", "data", "leave"}

LEMMA GoesOnward ==
  ASSUME NEW cmd \in Dialogue
  PROVE  /\ LeaveFrom(cmd) \in Onward(cmd)
         /\ \A rc : Allowed(cmd, rc) => After(cmd, rc) \in Onward(cmd)
<1>1. LeaveFrom(cmd) \in Onward(cmd)
  BY DEF LeaveFrom, Onward
<1>2. ASSUME NEW rc, Allowed(cmd, rc)
      PROVE  After(cmd, rc) \in Onward(cmd)
  <2>1. PICK d : d = rc \div 100
    OBVIOUS
  <2>2. cmd = "greeting" => d = 1 \/ d = 2
    BY <1>2, <2>1 DEF Allowed
  <2> QED BY <2>1, <2>2 DEF After, Dialogue, Command, Onward
<1> QED BY <1>1, <1>2

LEMMA EnterKeeps ==
  ASSUME "open" \notin DOMAIN NULL, NULL \notin Channel, UInv, NEW p \in Put,
         at[p] \in Dialogue, NEW s \in Onward(at[p]), Enter(p, s),
         conn' = conn \/ Touches(put[p].channel)
  PROVE  UInv'
<1>1. PICK e : e = [put[p] EXCEPT !.code = NULL, !.out = CommandLine(p, s)]
  OBVIOUS
<1>2. SameParts(put[p], e) /\ e.out = CommandLine(p, s)
  BY <1>1, PutHas, PutFields DEF SameParts
<1>3. Moves(p, s, e)
  <2>1. put' = [put EXCEPT ![p] = e]
    BY <1>1 DEF Enter
  <2>2. FieldsOK /\ Does(p, s)
    BY DEF UInv, Enter
  <2> QED BY <2>1, <2>2, MovesIs
<1>4. GoesTo(at[p], s, e)
  BY <1>2 DEF GoesTo, Onward, CommandLine, Command
<1> QED BY <1>2, <1>3, <1>4, DialogueKeeps

(* A field that does not matter changes. *)
LEMMA ReplyKeeps ==
  ASSUME "open" \notin DOMAIN NULL, NULL \notin Channel, UInv, NEW p \in Put,
         at[p] \in Dialogue, UNCHANGED at, NEW v,
         \/ put' = [put EXCEPT ![p].code = v]
         \/ put' = [put EXCEPT ![p].out = v]
         \/ put' = put,
         conn' = conn \/ Touches(put[p].channel)
  PROVE  UInv'
<1>1. DOMAIN put[p] = DOMAIN NewPut
  BY PutHas
<1>2. PICK e : /\ put' = [put EXCEPT ![p] = e] \/ (put' = put /\ e = put[p])
               /\ SameParts(put[p], e)
  <2>1. CASE put' = [put EXCEPT ![p].code = v]
    <3>1. PICK x : x = [put[p] EXCEPT !.code = v]
      OBVIOUS
    <3>2. SameParts(put[p], x)
      BY <1>1, <3>1, PutFields DEF SameParts
    <3>3. put' = [put EXCEPT ![p] = x]
      BY <2>1, <3>1
    <3> QED BY <3>2, <3>3
  <2>2. CASE put' = [put EXCEPT ![p].out = v]
    <3>1. PICK x : x = [put[p] EXCEPT !.out = v]
      OBVIOUS
    <3>2. SameParts(put[p], x)
      BY <1>1, <3>1, PutFields DEF SameParts
    <3>3. put' = [put EXCEPT ![p] = x]
      BY <2>2, <3>1
    <3> QED BY <3>2, <3>3
  <2>3. CASE put' = put
    BY <1>1, <2>3 DEF SameParts
  <2> QED BY <2>1, <2>2, <2>3
<1>3. PICK s : s = at[p]
  OBVIOUS
<1>4. Moves(p, s, e) /\ GoesTo(at[p], s, e)
  <2>1. FieldsOK
    BY DEF UInv
  <2>2. Moves(p, s, e)
    BY <1>2, <1>3, <2>1, MovesIs
  <2> QED BY <1>3, <2>2 DEF GoesTo
<1> QED BY <1>2, <1>4, DialogueKeeps

LEMMA DialogueChannel ==
  ASSUME UInv, NEW p \in Put, at[p] \in Dialogue
  PROVE  /\ put[p].channel \in Channel /\ conn[put[p].channel] # NULL
         /\ FieldsOK
BY PutHas DEF Stage, Dialogue, Command, UInv

LEMMA WriteCommandKeeps ==
  ASSUME "open" \notin DOMAIN NULL, NULL \notin Channel, UInv, NEW p \in Put,
         WriteCommand(p) \/ WriteCommandFails(p)
  PROVE  UInv'
<1>1. at[p] \in Dialogue
  BY DEF WriteCommand, WriteCommandFails, Puts, Dialogue
<1>2. PICK c \in Channel : c = put[p].channel /\ conn[c] # NULL /\ FieldsOK
  BY <1>1, DialogueChannel
<1>3. CASE WriteCommand(p)
  <2>1. conn' = conn \/ Touches(c)
    BY <1>2, <1>3, DialogueTouches DEF WriteCommand
  <2>2. PICK v : put' = [put EXCEPT ![p].out = v]
    BY <1>3 DEF WriteCommand
  <2> QED BY <1>1, <1>2, <1>3, <2>1, <2>2, ReplyKeeps DEF WriteCommand
<1>4. CASE WriteCommandFails(p)
  <2>1. PICK v : put' = [put EXCEPT ![p].out = v] /\ v = <<>>
    BY <1>4 DEF WriteCommandFails
  <2>2. CASE UNCHANGED at
    BY <1>1, <1>4, <2>1, <2>2, ReplyKeeps DEF WriteCommandFails
  <2>3. CASE Does(p, LeaveFrom(at[p]))
    <3>1. PICK s \in Onward(at[p]) : s = LeaveFrom(at[p])
      BY <1>1, GoesOnward
    <3>2. PICK e : e = [put[p] EXCEPT !.out = v]
      OBVIOUS
    <3>3. SameParts(put[p], e) /\ e.out = <<>>
      BY <2>1, <3>2, PutHas, PutFields DEF SameParts
    <3>4. Moves(p, s, e)
      BY <1>2, <2>1, <2>3, <3>1, <3>2, MovesIs
    <3>5. GoesTo(at[p], s, e) /\ conn' = conn
      BY <1>4, <3>1, <3>3 DEF GoesTo, Onward, WriteCommandFails
    <3> QED BY <1>1, <3>3, <3>4, <3>5, DialogueKeeps
  <2> QED BY <1>4, <2>2, <2>3 DEF WriteCommandFails
<1> QED BY <1>3, <1>4

LEMMA GetReplyKeeps ==
  ASSUME "open" \notin DOMAIN NULL, NULL \notin Channel, UInv, NEW p \in Put,
         GetReply(p) \/ AwaitReply(p)
  PROVE  UInv'
<1>1. at[p] \in Dialogue
  BY DEF GetReply, AwaitReply, Awaits, Puts, Dialogue
<1>2. PICK c \in Channel : c = put[p].channel /\ conn[c] # NULL /\ FieldsOK
  BY <1>1, DialogueChannel
<1>3. CASE GetReply(p)
  <2>1. conn' = conn \/ Touches(c)
    BY <1>2, <1>3, DialogueTouches DEF GetReply
  <2>2. \/ \E s \in Onward(at[p]) : Enter(p, s)
        \/ UNCHANGED at /\ \E v : put' = [put EXCEPT ![p].code = v]
    <3>1. \/ Enter(p, LeaveFrom(at[p]))
          \/ \E rc : Allowed(at[p], rc) /\ Enter(p, After(at[p], rc))
          \/ UNCHANGED at /\ \E v : put' = [put EXCEPT ![p].code = v]
      BY <1>3, Zenon DEF GetReply
    <3> QED BY <1>1, <3>1, GoesOnward
  <2>3. CASE \E s \in Onward(at[p]) : Enter(p, s)
    BY <1>1, <1>2, <2>1, <2>3, EnterKeeps
  <2>4. CASE UNCHANGED at /\ \E v : put' = [put EXCEPT ![p].code = v]
    BY <1>1, <1>2, <2>1, <2>4, ReplyKeeps
  <2> QED BY <2>2, <2>3, <2>4
<1>4. CASE AwaitReply(p)
  <2>1. CASE ReadMore(p, c) /\ UNCHANGED putVars
    <3>1. conn' = conn \/ Touches(c)
      BY <1>2, <2>1, DialogueTouches
    <3> QED BY <1>1, <1>2, <2>1, <3>1, ReplyKeeps DEF putVars
  <2>2. CASE Enter(p, LeaveFrom(at[p])) /\ UNCHANGED conn
    BY <1>1, <2>2, GoesOnward, EnterKeeps
  <2> QED BY <1>2, <1>4, <2>1, <2>2 DEF AwaitReply
<1> QED BY <1>3, <1>4

-----------------------------------------------------------------------------
(* Begin and end of an upload, and its connections.                        *)
LEMMA SentEnds ==
  ASSUME NEW p, NEW x, NEW s, NEW d, Sent(p, x, s, d), NEW e, NEW t, NEW b,
         t \notin {"stor", "send"}, e.size = x.size, e.result = x.result,
         DOMAIN b = DOMAIN NewConn, b.got = d.got, b.up = d.up, b.fin = d.fin
  PROVE  Sent(p, e, t, b)
BY DEF Sent

LEMMA PutCoKeeps ==
  ASSUME "open" \notin DOMAIN NULL, NULL \notin Channel, UInv, NEW p \in Put,
         NEW n \in FileSize, PutCo(p, n)
  PROVE  UInv'
<1>1. FieldsOK /\ Stage(put[p], "new") /\ put[p] = NewPut
  BY PutHas DEF UInv, PutCo, Stage
<1>2. PICK e : e = [put[p] EXCEPT !.size = n]
  OBVIOUS
<1>3. /\ DOMAIN e = DOMAIN NewPut /\ e.channel = NULL /\ e.data_ioc = NULL
      /\ e.pos = 1 /\ e.size = n /\ e.result = put[p].result
  BY <1>1, <1>2, PutFields
<1>4. put[p].result # "sent" /\ put[p].channel = NULL /\ put[p].data_ioc = NULL
  BY <1>1 DEF Stage, NewPut
<1>5. Moves(p, "connect", e)
  BY <1>1, <1>2, MovesIs DEF PutCo
<1>6. Stage(e, "connect") /\ Has(p, e)
  BY <1>3, <1>4 DEF Stage, Has, PutCo
<1> QED BY <1>3, <1>5, <1>6, UploadMoves

LEMMA FailsKeeps ==
  ASSUME "open" \notin DOMAIN NULL, NULL \notin Channel, UInv, NEW p \in Put, Fails(p)
  PROVE  UInv'
<1>1. /\ FieldsOK /\ at[p] = "connect" /\ Stage(put[p], at[p])
      /\ Does(p, "over") /\ conn' = conn /\ put' = [put EXCEPT ![p] = NewPut]
  BY PutHas DEF UInv, Fails, Puts
<1>2. PICK e : e = NewPut
  OBVIOUS
<1>3. Stage(e, "over") /\ Has(p, e) /\ e.data_ioc = NULL
  BY <1>1, <1>2, PutFields DEF Stage, Has
<1>4. Moves(p, "over", e)
  BY <1>1, <1>2, MovesIs
<1> QED BY <1>3, <1>4, UploadMoves

LEMMA NextIsFresh ==
  ASSUME FieldsOK, Unused # {}, NEW v, NEW w, DOMAIN w = DOMAIN NewConn,
         conn' = [conn EXCEPT ![NextChannel] = w]
  PROVE  Fresh(NextChannel) /\ conn'[NextChannel] = w
<1>1. NextChannel \in Unused
  BY DEF NextChannel
<1> QED BY <1>1 DEF Unused, Fresh, Touches, FieldsOK

LEMMA ConnectControlKeeps ==
  ASSUME "open" \notin DOMAIN NULL, NULL \notin Channel, UInv, NEW p \in Put,
         ConnectControl(p)
  PROVE  UInv'
<1>1. /\ FieldsOK /\ at[p] = "connect" /\ Stage(put[p], at[p])
      /\ DOMAIN put[p] = DOMAIN NewPut
  BY PutHas DEF UInv, ConnectControl, Puts
<1>2. PICK c : c = NextChannel
  OBVIOUS
<1>3. Fresh(c)
  <2>1. PICK v : conn' = [conn EXCEPT ![NextChannel] = [NewConn EXCEPT !.flight = v]]
    BY DEF ConnectControl
  <2>2. PICK w : w = [NewConn EXCEPT !.flight = v] /\ DOMAIN w = DOMAIN NewConn
    BY ConnFields
  <2>3. conn' = [conn EXCEPT ![NextChannel] = w] /\ Unused # {}
    BY <2>1, <2>2 DEF ConnectControl
  <2> QED BY <1>1, <1>2, <2>2, <2>3, NextIsFresh
<1>4. PICK e : e = [put[p] EXCEPT !.channel = c]
  OBVIOUS
<1>5. /\ DOMAIN e = DOMAIN NewPut /\ e.channel = c /\ e.data_ioc = put[p].data_ioc
      /\ e.pos = put[p].pos /\ e.size = put[p].size /\ e.result = put[p].result
  BY <1>1, <1>4, PutFields
<1>6. Moves(p, "greeting", e)
  <2>1. put' = [put EXCEPT ![p] = e] /\ Does(p, "greeting")
    BY <1>2, <1>4 DEF ConnectControl
  <2> QED BY <1>1, <2>1, MovesIs
<1>7. Stage(e, "greeting") /\ Has(p, e) /\ e.data_ioc = NULL
  BY <1>1, <1>3, <1>5 DEF Stage, Has, Fresh
<1> QED BY <1>6, <1>7, UploadMoves

LEMMA ConnectDataKeeps ==
  ASSUME "open" \notin DOMAIN NULL, NULL \notin Channel, UInv, NEW p \in Put,
         ConnectData(p)
  PROVE  UInv'
<1>1. /\ FieldsOK /\ at[p] = "data" /\ Stage(put[p], at[p])
      /\ DOMAIN put[p] = DOMAIN NewPut /\ put[p].size \in Nat
  BY PutHas DEF UInv, ConnectData, Puts
<1>2. PICK c : c = NextChannel
  OBVIOUS
<1>3. Fresh(c) /\ conn'[c] = NewConn
  <2>1. conn' = [conn EXCEPT ![NextChannel] = NewConn] /\ Unused # {}
    BY DEF ConnectData
  <2> QED BY <1>1, <1>2, <2>1, NextIsFresh
<1>4. PICK e : e = [put[p] EXCEPT !.data_ioc = c, !.out = CommandLine(p, "stor")]
  OBVIOUS
<1>5. /\ DOMAIN e = DOMAIN NewPut /\ e.channel = put[p].channel /\ e.data_ioc = c
      /\ e.pos = put[p].pos /\ e.size = put[p].size /\ e.result = put[p].result
  BY <1>1, <1>4, PutFields
<1>6. Moves(p, "stor", e)
  <2>1. put' = [put EXCEPT ![p] = e] /\ Does(p, "stor")
    BY <1>2, <1>4 DEF ConnectData
  <2> QED BY <1>1, <2>1, MovesIs
<1>7. Stage(e, "stor") /\ Has(p, e) /\ e.result # "sent"
  BY <1>1, <1>3, <1>5 DEF Stage, Has, Fresh
<1>8. Sent(p, e, "stor", NewConn)
  <2>1. PICK z \in Nat : z = 0
    OBVIOUS
  <2>2. Piece(p, z, z) = <<>> /\ z <= z /\ z <= e.size /\ z - z <= Window
    BY <1>1, <1>5, <2>1, PieceEmpty, ChannelsAssumption
  <2>3. NewConn.got = Piece(p, z, z) /\ NewConn.up = Piece(p, z, z)
    BY <2>2 DEF NewConn
  <2> QED BY <1>7, <2>1, <2>2, <2>3 DEF Sent
<1> QED BY <1>3, <1>5, <1>6, <1>7, <1>8, UploadMoves

LEMMA ConnectDataFailsKeeps ==
  ASSUME "open" \notin DOMAIN NULL, NULL \notin Channel, UInv, NEW p \in Put,
         ConnectDataFails(p)
  PROVE  UInv'
<1>1. /\ FieldsOK /\ at[p] = "data" /\ Stage(put[p], at[p])
      /\ DOMAIN put[p] = DOMAIN NewPut /\ conn' = conn
  BY PutHas DEF UInv, ConnectDataFails, Puts
<1>2. PICK e : e = [put[p] EXCEPT !.code = NULL, !.out = CommandLine(p, "leave")]
  OBVIOUS
<1>3. SameParts(put[p], e)
  BY <1>1, <1>2, PutFields DEF SameParts
<1>4. Moves(p, "leave", e)
  <2>1. put' = [put EXCEPT ![p] = e] /\ Does(p, "leave")
    BY <1>2 DEF ConnectDataFails, Enter
  <2> QED BY <1>1, <2>1, MovesIs
<1>5. Stage(e, "leave") /\ Has(p, e) /\ e.data_ioc = NULL
  BY <1>1, <1>3 DEF Stage, Has, SameParts
<1> QED BY <1>4, <1>5, UploadMoves

LEMMA DiesKeeps ==
  ASSUME "open" \notin DOMAIN NULL, NULL \notin Channel, UInv, NEW p \in Put, Dies(p)
  PROVE  UInv'
<1>1. /\ FieldsOK /\ at[p] \in {"leave", "shut"} /\ Stage(put[p], at[p])
      /\ DOMAIN put[p] = DOMAIN NewPut /\ Does(p, "over") /\ put' = put
  BY PutHas DEF UInv, Dies, Puts
<1>2. PICK c : /\ \/ c = put[p].channel /\ at[p] = "leave"
                  \/ c = put[p].data_ioc /\ at[p] = "shut"
               /\ conn' = ShutDown(c)
  <2>1. \/ at[p] = "leave" /\ conn' = ShutDown(put[p].channel)
        \/ at[p] = "shut" /\ conn' = ShutDown(put[p].data_ioc)
    BY DEF Dies, Puts
  <2> QED BY <2>1
<1>3. c \in Channel /\ conn[c] # NULL
  BY <1>1, <1>2, PutHas DEF Stage
<1>4. /\ Touches(c) /\ conn'[c].got = conn[c].got /\ conn'[c].up = conn[c].up
      /\ conn'[c].fin = conn[c].fin
  BY <1>1, <1>2, <1>3, FieldTouches DEF ShutDown
<1>5. PICK e : e = put[p]
  OBVIOUS
<1>6. Moves(p, "over", e)
  BY <1>1, <1>5, MovesIs
<1>7. Stage(e, "over") /\ Has(p, e)
  BY <1>1, <1>2, <1>3, <1>4, <1>5 DEF Stage, Has
<1>8. ASSUME e.data_ioc # NULL
      PROVE  Sent(p, e, "over", conn'[e.data_ioc])
  <2>1. c = e.data_ioc
    BY <1>1, <1>2, <1>5, <1>8 DEF Stage
  <2>2. PICK x, b, d : x = put[p] /\ b = conn'[c] /\ d = conn[c]
    OBVIOUS
  <2>3. Sent(p, x, at[p], d)
    BY <1>5, <1>8, <2>1, <2>2, PutHas
  <2>4. DOMAIN b = DOMAIN NewConn /\ b.got = d.got /\ b.up = d.up /\ b.fin = d.fin
    BY <1>4, <2>2 DEF Touches
  <2>5. Sent(p, e, "over", b)
    BY <1>5, <2>2, <2>3, <2>4, SentEnds
  <2> QED BY <2>1, <2>2, <2>5
<1> QED BY <1>6, <1>7, <1>8, UploadMoves

-----------------------------------------------------------------------------
(* The blocks of a file.                                                   *)
LEMMA BlockFailsKeeps ==
  ASSUME "open" \notin DOMAIN NULL, NULL \notin Channel, UInv, NEW p \in Put,
         BlockFails(p)
  PROVE  UInv'
<1>1. /\ FieldsOK /\ at[p] = "send" /\ Stage(put[p], at[p])
      /\ DOMAIN put[p] = DOMAIN NewPut /\ Enter(p, "shut") /\ conn' = conn
  BY PutHas DEF UInv, BlockFails, Puts
<1>2. PICK e : e = [put[p] EXCEPT !.code = NULL, !.out = CommandLine(p, "shut")]
  OBVIOUS
<1>3. SameParts(put[p], e)
  BY <1>1, <1>2, PutFields DEF SameParts
<1>4. Moves(p, "shut", e)
  <2>1. put' = [put EXCEPT ![p] = e] /\ Does(p, "shut")
    BY <1>1, <1>2 DEF Enter
  <2> QED BY <1>1, <2>1, MovesIs
<1>5. Stage(e, "shut") /\ Has(p, e)
  BY <1>1, <1>3 DEF Stage, Has, SameParts
<1>6. Sent(p, e, "shut", conn'[e.data_ioc])
  <2>1. PICK x, d : x = put[p] /\ d = conn[put[p].data_ioc]
    OBVIOUS
  <2>2. Sent(p, x, "send", d) /\ DOMAIN d = DOMAIN NewConn
    BY <1>1, <2>1, PutHas DEF Stage
  <2>3. Sent(p, e, "shut", d)
    BY <1>3, <2>1, <2>2, SentEnds DEF SameParts
  <2> QED BY <1>1, <1>3, <2>1, <2>3 DEF SameParts
<1> QED BY <1>4, <1>5, <1>6, UploadMoves

(* The blocks of a source of n units end before its last unit is all that  *)
(* is left: source_buffer takes "one is left" for its end.                 *)
Sendable(n) == \A k \in Nat : n # k * BlockSize + 1

(* A source of size units is at pos, after n units.                        *)
Source(pos, n, size) ==
  /\ n \in Nat /\ size \in Nat /\ n <= size /\ pos = n + 1
  /\ AtBlock(n, size) /\ Sendable(size)

(* What is read next: a block, or the end. *)
Follows(p, block, n, size) ==
  IF block = NULL THEN n = size
  ELSE \E l \in Nat : /\ block = Piece(p, n, l)
                      /\ n <= l /\ l <= size /\ AtBlock(l, size)

LEMMA BlockIs ==
  ASSUME NEW p, NULL \notin Seq(Units(p)), NEW pos, NEW n, NEW size,
         Source(pos, n, size)
  PROVE  Follows(p, SourceBuffer(p, pos, size), n, size)
<1> USE DEF Source
<1>1. pos >= size => n = size
  BY DEF Sendable, AtBlock
<1>2. ASSUME pos < size
      PROVE  \E l \in Nat : /\ SourceBuffer(p, pos, size) = Piece(p, n, l)
                            /\ n <= l /\ l <= size /\ AtBlock(l, size)
  <2>1. PICK l : l = BlockEnd(pos, size)
    OBVIOUS
  <2>2. PICK k \in Nat : n = k * BlockSize
    BY <1>2 DEF AtBlock
  <2>3. n + BlockSize = (k + 1) * BlockSize
    BY <2>2, ChannelsAssumption
  <2>4. BlockSize \in Nat /\ BlockSize > 0
    BY ChannelsAssumption
  <2>5. l \in Nat /\ pos <= l /\ l <= size /\ (l = size \/ l = n + BlockSize)
    BY <1>2, <2>1, <2>4 DEF BlockEnd
  <2>6. SourceBuffer(p, pos, size) = Piece(p, n, l)
    <3>1. PICK z \in Nat : z = 0
      OBVIOUS
    <3>2. SourceBuffer(p, pos, size) = SubSeq(Piece(p, z, size), pos, l)
      <4>1. Body(p, size) = Piece(p, z, size)
        BY <3>1, BodyPiece
      <4>2. ~(pos >= size)
        BY <1>2
      <4> QED BY <2>1, <4>1, <4>2 DEF SourceBuffer
    <3>3. Within(z, size, pos, l, n, l)
      BY <2>5, <3>1 DEF Within
    <3>4. SubSeq(Piece(p, z, size), pos, l) = Piece(p, n, l)
      BY <3>3, PieceSub
    <3> QED BY <3>2, <3>4
  <2>7. AtBlock(l, size)
    <3>1. k + 1 \in Nat
      OBVIOUS
    <3> QED BY <2>3, <2>5, <3>1 DEF AtBlock
  <2> QED BY <2>5, <2>6, <2>7
<1>3. CASE pos >= size
  <2>1. SourceBuffer(p, pos, size) = NULL
    BY <1>3 DEF SourceBuffer
  <2> QED BY <1>1, <1>3, <2>1 DEF Follows
<1>4. CASE pos < size
  <2>1. PICK l \in Nat : /\ SourceBuffer(p, pos, size) = Piece(p, n, l)
                         /\ n <= l /\ l <= size /\ AtBlock(l, size)
    BY <1>2, <1>4
  <2>2. Piece(p, n, l) \in Seq(Units(p))
    BY <2>1, PieceIs
  <2> QED BY <2>1, <2>2 DEF Follows
<1>5. pos \in Nat /\ size \in Nat
  OBVIOUS
<1> QED BY <1>3, <1>4, <1>5

LEMMA ReadSourceKeeps ==
  ASSUME "open" \notin DOMAIN NULL, NULL \notin Channel,
         \A p \in Put : NULL \notin Seq(Units(p)), \A n \in FileSize : Sendable(n),
         UInv, NEW p \in Put, ReadSource(p)
  PROVE  UInv'
<1>1. /\ FieldsOK /\ at[p] = "send" /\ Stage(put[p], at[p])
      /\ DOMAIN put[p] = DOMAIN NewPut /\ put[p].out = <<>> /\ conn' = conn
      /\ put[p].data_ioc # NULL /\ put[p].result # "sent"
  BY PutHas DEF UInv, ReadSource, Puts, Stage
<1>2. PICK x, d : x = put[p] /\ d = conn[put[p].data_ioc]
  OBVIOUS
<1>3. PICK size \in Nat : size = x.size /\ Sendable(size)
  <2>1. x.size \in FileSize \cup {0} /\ x.size \in Nat
    BY <1>1, <1>2, PutHas DEF Stage
  <2>2. Sendable(0)
    <3>1. \A k \in Nat : k * BlockSize \in Nat
      BY ChannelsAssumption
    <3> QED BY <3>1 DEF Sendable
  <2> QED BY <2>1, <2>2
<1>4. PICK m \in Nat, n \in Nat :
        /\ DOMAIN d = DOMAIN NewConn
        /\ m <= n /\ n <= size /\ n - m <= Window
        /\ d.got = Piece(p, 0, m) /\ d.up = Piece(p, m, n)
        /\ ~d.fin => /\ x.pos \in Nat /\ n < x.pos /\ x.pos <= size + 1
                     /\ AtBlock(x.pos - 1, size) /\ x.out = Piece(p, n, x.pos - 1)
  BY <1>1, <1>2, <1>3, PutHas DEF Sent
<1>5. PICK block : block = SourceBuffer(p, x.pos, x.size)
  OBVIOUS
<1>6. ASSUME ~d.fin
      PROVE  x.pos \in Nat /\ n = x.pos - 1 /\ Follows(p, block, n, size)
  <2>1. PICK pos \in Nat, l \in Nat :
          /\ pos = x.pos /\ l = pos - 1 /\ n <= l /\ l <= size
          /\ AtBlock(l, size) /\ x.out = Piece(p, n, l)
    <3>1. /\ x.pos \in Nat /\ n < x.pos /\ x.pos <= size + 1
          /\ AtBlock(x.pos - 1, size) /\ x.out = Piece(p, n, x.pos - 1)
      BY <1>4, <1>6, Zenon
    <3>2. PICK q \in Nat : q = x.pos
      BY <3>1, Zenon
    <3>3. n < q /\ q <= size + 1
      BY <3>1, <3>2, Zenon
    <3>4. PICK k \in Nat : k = q - 1 /\ n <= k /\ k <= size
      <4>1. q - 1 \in Nat /\ n <= q - 1 /\ q - 1 <= size
        BY <3>3
      <4> QED BY <4>1, Zenon
    <3>5. k = x.pos - 1
      BY <3>2, <3>4, Zenon
    <3>6. AtBlock(k, size) /\ x.out = Piece(p, n, k)
      BY <3>1, <3>5, Zenon
    <3> QED BY <3>1, <3>4, <3>5, <3>6, Zenon
  <2>2. n = l
    <3>1. Piece(p, n, l) = <<>>
      BY <1>1, <1>2, <2>1
    <3>2. n <= l
      BY <2>1
    <3>3. Len(Piece(p, n, l)) = l - n
      BY <3>2, PieceIs
    <3> QED BY <2>1, <3>1, <3>3
  <2>3. Source(pos, n, size)
    BY <1>3, <2>1, <2>2 DEF Source
  <2>4. block = SourceBuffer(p, pos, size)
    BY <1>3, <1>5, <2>1
  <2> QED BY <2>1, <2>2, <2>3, <2>4, BlockIs
<1>7. CASE block = NULL
  <2>1. PICK e : e = [put[p] EXCEPT !.result = "sent"]
    OBVIOUS
  <2>2. /\ DOMAIN e = DOMAIN NewPut /\ e.channel = x.channel /\ e.data_ioc = x.data_ioc
        /\ e.size = x.size
    BY <1>1, <1>2, <2>1, PutFields
  <2>3. Moves(p, "shut", e)
    <3>1. put' = [put EXCEPT ![p] = e] /\ Does(p, "shut")
      BY <1>2, <1>5, <1>7, <2>1 DEF ReadSource
    <3> QED BY <1>1, <3>1, MovesIs
  <2>4. Stage(e, "shut") /\ Has(p, e)
    BY <1>1, <1>2, <2>2 DEF Stage, Has
  <2>5. ~d.fin => n = e.size
    BY <1>3, <1>6, <1>7, <2>2 DEF Follows
  <2>6. Sent(p, e, "shut", d)
    BY <1>3, <1>4, <2>2, <2>5 DEF Sent
  <2> QED BY <1>1, <1>2, <2>2, <2>3, <2>4, <2>6, UploadMoves
<1>8. CASE block # NULL
  <2>1. PICK pos : pos = x.pos + Len(block)
    OBVIOUS
  <2>2. PICK e : e = [put[p] EXCEPT !.out = block, !.pos = pos]
    OBVIOUS
  <2>3. /\ DOMAIN e = DOMAIN NewPut /\ e.channel = x.channel /\ e.data_ioc = x.data_ioc
        /\ e.size = x.size /\ e.result = x.result /\ e.out = block /\ e.pos = pos
    BY <1>1, <1>2, <2>2, PutFields
  <2>4. Moves(p, "send", e)
    <3>1. put' = [put EXCEPT ![p] = e] /\ at' = at
      BY <1>2, <1>5, <1>8, <2>1, <2>2 DEF ReadSource
    <3> QED BY <1>1, <3>1, MovesIs
  <2>5. Stage(e, "send") /\ Has(p, e)
    BY <1>1, <1>2, <2>3 DEF Stage, Has
  <2>6. ASSUME ~d.fin
        PROVE  /\ e.pos \in Nat /\ n < e.pos /\ e.pos <= size + 1
               /\ AtBlock(e.pos - 1, size) /\ e.out = Piece(p, n, e.pos - 1)
    <3>1. PICK l \in Nat : /\ block = Piece(p, n, l) /\ n <= l /\ l <= size
                           /\ AtBlock(l, size)
      BY <1>6, <1>8, <2>6 DEF Follows
    <3>2. pos = l + 1
      <4>1. Len(block) = l - n
        BY <3>1, PieceIs
      <4> QED BY <1>6, <2>1, <2>6, <3>1, <4>1
    <3>3. pos - 1 = l
      BY <3>1, <3>2
    <3> QED BY <2>3, <3>1, <3>2, <3>3
  <2>7. Sent(p, e, "send", d)
    BY <1>1, <1>2, <1>3, <1>4, <2>3, <2>6 DEF Sent
  <2> QED BY <1>1, <1>2, <2>3, <2>4, <2>5, <2>7, UploadMoves
<1> QED BY <1>7, <1>8

LEMMA WriteBlockKeeps ==
  ASSUME "open" \notin DOMAIN NULL, NULL \notin Channel, UInv, NEW p \in Put,
         WriteBlock(p)
  PROVE  UInv'
<1>1. /\ FieldsOK /\ at[p] = "send" /\ Stage(put[p], at[p]) /\ at' = at
      /\ DOMAIN put[p] = DOMAIN NewPut /\ put[p].size \in Nat
      /\ put[p].data_ioc # NULL /\ put[p].result # "sent"
  BY PutHas DEF UInv, WriteBlock, Puts, Stage
<1>2. PICK c \in Channel : c = put[p].data_ioc /\ conn[c] # NULL
  BY <1>1, PutHas
<1>3. PICK x, d, u, v :
        /\ x = put[p] /\ d = conn[c] /\ u = Unwritten(c, x.out)
        /\ v = d.up \o SubSeq(x.out, 1, Accepted(c, x.out))
  OBVIOUS
<1>4. PICK m \in Nat, n \in Nat :
        /\ DOMAIN d = DOMAIN NewConn
        /\ m <= n /\ n <= x.size /\ n - m <= Window
        /\ d.got = Piece(p, 0, m) /\ d.up = Piece(p, m, n)
        /\ ~d.fin => /\ x.pos \in Nat /\ n < x.pos /\ x.pos <= x.size + 1
                     /\ AtBlock(x.pos - 1, x.size) /\ x.out = Piece(p, n, x.pos - 1)
  BY <1>1, <1>2, <1>3, PutHas DEF Sent
<1>5. PICK e : e = [put[p] EXCEPT !.out = u]
  OBVIOUS
<1>6. /\ DOMAIN e = DOMAIN NewPut /\ e.channel = x.channel /\ e.data_ioc = x.data_ioc
      /\ e.size = x.size /\ e.result = x.result /\ e.out = u /\ e.pos = x.pos
  BY <1>1, <1>3, <1>5, PutFields
<1>7. Moves(p, "send", e)
  <2>1. put' = [put EXCEPT ![p] = e]
    BY <1>2, <1>3, <1>5 DEF WriteBlock
  <2> QED BY <1>1, <2>1, MovesIs
<1>8. Stage(e, "send")
  BY <1>1, <1>3, <1>6 DEF Stage
<1>9. /\ d.fin => conn' = conn
      /\ ~d.fin => conn' = [conn EXCEPT ![c].up = v]
  BY <1>2, <1>3, Zenon DEF WriteBlock, WriteChars
<1>10. CASE d.fin
  <2>1. Has(p, e)
    BY <1>3, <1>6, <1>9, <1>10 DEF Has
  <2>2. Sent(p, e, "send", d)
    BY <1>1, <1>3, <1>4, <1>6, <1>10 DEF Sent
  <2> QED BY <1>2, <1>3, <1>6, <1>7, <1>8, <1>9, <1>10, <2>1, <2>2, UploadMoves
<1>11. CASE ~d.fin
  <2>1. PICK b : b = conn'[c]
    OBVIOUS
  <2>2. /\ Touches(c) /\ DOMAIN b = DOMAIN NewConn /\ b.got = d.got /\ b.up = v
        /\ b.fin = d.fin
    <3>1. DOMAIN conn = Channel /\ DOMAIN conn[c] = DOMAIN NewConn
      BY <1>1, <1>2 DEF FieldsOK
    <3>2. conn' = [conn EXCEPT ![c].up = v]
      BY <1>9, <1>11, Zenon
    <3>3. /\ Touches(c) /\ DOMAIN conn'[c] = DOMAIN NewConn
          /\ conn'[c].got = conn[c].got /\ conn'[c].up = v
          /\ conn'[c].fin = conn[c].fin
      BY <3>1, <3>2, ConnFields DEF Touches
    <3>4. d = conn[c]
      BY <1>3
    <3> QED BY <2>1, <3>3, <3>4
  <2>3. Has(p, e)
    BY <1>1, <1>2, <1>3, <1>6, <2>2 DEF Has
  <2>4. PICK l \in Nat : /\ l = x.pos - 1 /\ x.out = Piece(p, n, l) /\ n <= l
                         /\ l <= x.size
    <3>1. x.size \in Nat
      BY <1>1, <1>3
    <3>2. /\ x.pos \in Nat /\ n < x.pos /\ x.pos <= x.size + 1
          /\ x.out = Piece(p, n, x.pos - 1)
      BY <1>4, <1>11, Zenon
    <3>3. PICK q \in Nat, z \in Nat : q = x.pos /\ z = x.size
      BY <3>1, <3>2, Zenon
    <3>4. n < q /\ q <= z + 1
      BY <3>2, <3>3, Zenon
    <3>5. PICK l \in Nat : l = q - 1 /\ n <= l /\ l <= z
      <4>1. q - 1 \in Nat /\ n <= q - 1 /\ q - 1 <= z
        BY <3>4
      <4> QED BY <4>1, Zenon
    <3>6. l = x.pos - 1 /\ l <= x.size /\ x.out = Piece(p, n, l)
      BY <3>2, <3>3, <3>5, Zenon
    <3> QED BY <3>5, <3>6, Zenon
  <2>5. PICK a \in Nat : a = Accepted(c, x.out) /\ a <= l - n /\ a <= Window - (n - m)
    <3>1. Len(x.out) = l - n
      <4>1. n <= l
        BY <2>4
      <4>2. Len(Piece(p, n, l)) = l - n
        BY <4>1, PieceIs
      <4> QED BY <2>4, <4>2
    <3>2. Len(d.up) = n - m
      <4>1. m <= n
        BY <1>4
      <4>2. Len(Piece(p, m, n)) = n - m
        BY <4>1, PieceIs
      <4> QED BY <1>4, <4>2
    <3>3. Accepted(c, x.out) = IF Window - (n - m) < l - n THEN Window - (n - m) ELSE l - n
      BY <1>3, <1>11, <3>1, <3>2 DEF Accepted
    <3> QED BY <1>4, <2>4, <3>3, ChannelsAssumption
  <2>6. PICK k : k = n + a
    OBVIOUS
  <2>7. k \in Nat /\ n <= k /\ k <= l
    BY <2>4, <2>5, <2>6
  <2>8. v = Piece(p, m, k)
    <3>1. PICK g : g = 1
      OBVIOUS
    <3>2. SubSeq(Piece(p, n, l), 1, a) = Piece(p, n, k)
      <4>1. Within(n, l, g, a, n, k)
        BY <2>4, <2>5, <2>6, <3>1 DEF Within
      <4>2. SubSeq(Piece(p, n, l), g, a) = Piece(p, n, k)
        BY <4>1, PieceSub
      <4> QED BY <3>1, <4>2
    <3>3. m <= n /\ n <= k
      BY <1>4, <2>7
    <3>4. Piece(p, m, n) \o Piece(p, n, k) = Piece(p, m, k)
      BY <2>7, <3>3, PieceJoin
    <3> QED BY <1>3, <1>4, <2>4, <2>5, <3>2, <3>4
  <2>9. u = Piece(p, k, l)
    <3>1. PICK g, h : g = a + 1 /\ h = l - n
      OBVIOUS
    <3>2. Within(n, l, g, h, k, l)
      BY <2>4, <2>5, <2>6, <3>1 DEF Within
    <3>3. SubSeq(Piece(p, n, l), g, h) = Piece(p, k, l)
      BY <3>2, PieceSub
    <3>4. Len(Piece(p, n, l)) = h
      <4>1. n <= l
        BY <2>4
      <4>2. Len(Piece(p, n, l)) = l - n
        BY <4>1, PieceIs
      <4> QED BY <3>1, <4>2
    <3> QED BY <1>3, <2>4, <2>5, <3>1, <3>3, <3>4 DEF Unwritten
  <2>10. /\ m <= k /\ k <= e.size /\ k - m <= Window
         /\ e.pos \in Nat /\ k < e.pos /\ e.pos <= e.size + 1
         /\ AtBlock(e.pos - 1, e.size) /\ e.out = Piece(p, k, e.pos - 1)
    <3>1. k - m <= Window /\ m <= k
      BY <1>4, <2>5, <2>6, <2>7, ChannelsAssumption
    <3>2. k < e.pos /\ k <= e.size
      <4>1. /\ x.pos \in Nat /\ x.size \in Nat
            /\ e.pos = x.pos /\ e.size = x.size
        BY <1>1, <1>3, <1>4, <1>6, <1>11, Zenon
      <4>2. PICK q \in Nat, z \in Nat : q = x.pos /\ z = x.size
        BY <4>1, Zenon
      <4>3. l = q - 1 /\ l <= z
        BY <2>4, <4>2, Zenon
      <4>4. k < q /\ k <= z
        BY <2>4, <2>7, <4>3
      <4> QED BY <4>1, <4>2, <4>4, Zenon
    <3> QED BY <1>4, <1>6, <1>11, <2>4, <2>9, <3>1, <3>2
  <2>11. Sent(p, e, "send", b)
    BY <1>1, <1>3, <1>4, <1>6, <2>2, <2>7, <2>8, <2>10 DEF Sent
  <2> QED BY <1>2, <1>3, <1>6, <1>7, <1>8, <2>1, <2>3, <2>11, UploadMoves
<1> QED BY <1>10, <1>11

-----------------------------------------------------------------------------
(* Server and network.                                                     *)
LEMMA NetMoves ==
  ASSUME "open" \notin DOMAIN NULL, NULL \notin Channel, UInv, NEW c \in Channel,
         conn' = conn \/ Touches(c), at' = at, put' = put,
         \A p \in Put : put[p].data_ioc = c => Sent(p, put[p], at[p], conn'[c])
  PROVE  UInv'
<1>1. FieldsOK /\ Parts /\ Apart
  BY DEF UInv
<1>2. ConnStays
  BY <1>1, TouchesStays
<1>3. \A p \in Put : /\ put[p].channel \in Channel \cup {NULL}
                     /\ put[p].data_ioc \in Channel \cup {NULL}
  BY PutHas
<1>4. FieldsOK'
  BY <1>1, <1>2 DEF FieldsOK, ConnStays
<1>5. Parts'
  <2>1. ASSUME NEW p \in Put, put[p].data_ioc # NULL
        PROVE  Sent(p, put[p], at[p], conn'[put[p].data_ioc])
    <3>1. PICK d \in Channel : d = put[p].data_ioc
      BY <1>3, <2>1
    <3>2. CASE d = c
      BY <3>1, <3>2
    <3>3. CASE d # c
      <4>1. conn'[d] = conn[d]
        BY <3>3 DEF Touches
      <4> QED BY <1>1, <2>1, <3>1, <4>1 DEF Parts
    <3> QED BY <3>2, <3>3
  <2> QED BY <1>1, <2>1 DEF Parts
<1>6. Apart'
  BY <1>1, <1>2, <1>3 DEF Apart, ConnStays
<1> QED BY <1>4, <1>5, <1>6 DEF UInv

LEMMA ServerReadsKeeps ==
  ASSUME "open" \notin DOMAIN NULL, NULL \notin Channel, UInv, NEW c \in Channel,
         ServerReads(c), at' = at, put' = put
  PROVE  UInv'
<1>1. conn[c] # NULL /\ DOMAIN conn = Channel /\ DOMAIN conn[c] = DOMAIN NewConn
  BY DEF ServerReads, Alive, UInv, FieldsOK
<1>2. PICK d, v : d = conn[c] /\ v = d.got \o d.up
  OBVIOUS
<1>3. conn' = [conn EXCEPT ![c].got = v, ![c].up = <<>>]
  BY <1>2 DEF ServerReads
<1>4. /\ Touches(c) /\ conn'[c].got = v /\ conn'[c].up = <<>>
      /\ conn'[c].fin = conn[c].fin
  BY <1>1, <1>3, ConnFields DEF Touches
<1>5. PICK b : b = conn'[c]
  OBVIOUS
<1>6. ASSUME NEW p \in Put, put[p].data_ioc = c
      PROVE  Sent(p, put[p], at[p], b)
  <2>1. Sent(p, put[p], at[p], d)
    BY <1>2, <1>6, PutHas
  <2>2. PICK e, s : e = put[p] /\ s = at[p]
    OBVIOUS
  <2>3. PICK m \in Nat, n \in Nat :
          /\ m <= n /\ n <= e.size /\ n - m <= Window
          /\ d.got = Piece(p, 0, m) /\ d.up = Piece(p, m, n)
          /\ s = "stor" => n = 0
          /\ s = "send" /\ ~d.fin =>
               /\ e.pos \in Nat /\ n < e.pos /\ e.pos <= e.size + 1
               /\ AtBlock(e.pos - 1, e.size)
               /\ e.out = Piece(p, n, e.pos - 1)
          /\ e.result = "sent" /\ ~d.fin => n = e.size
    BY <2>1, <2>2 DEF Sent
  <2>4. v = Piece(p, 0, n)
    <3>1. PICK z \in Nat : z = 0
      OBVIOUS
    <3>2. z <= m /\ m <= n
      BY <2>3, <3>1
    <3>3. Piece(p, z, m) \o Piece(p, m, n) = Piece(p, z, n)
      BY <3>2, PieceJoin
    <3> QED BY <1>2, <2>3, <3>1, <3>3
  <2>5. n <= n /\ n - n <= Window /\ Piece(p, n, n) = <<>>
    BY PieceEmpty, ChannelsAssumption
  <2>6. /\ DOMAIN b = DOMAIN NewConn /\ b.fin = d.fin
        /\ b.got = Piece(p, 0, n) /\ b.up = Piece(p, n, n)
    BY <1>2, <1>4, <1>5, <2>4, <2>5 DEF Touches
  <2>7. Sent(p, e, s, b)
    BY <2>3, <2>5, <2>6 DEF Sent
  <2> QED BY <2>2, <2>7
<1> QED BY <1>4, <1>5, <1>6, NetMoves

LEMMA DeliverKeeps ==
  ASSUME "open" \notin DOMAIN NULL, NULL \notin Channel, UInv, NEW c \in Channel,
         Deliver(c) \/ Break(c), at' = at, put' = put
  PROVE  UInv'
<1>1. /\ conn[c] # NULL /\ DOMAIN conn = Channel /\ DOMAIN conn[c] = DOMAIN NewConn
      /\ FieldsOK
  BY DEF Deliver, Break, Alive, UInv, FieldsOK
<1>2. /\ Touches(c) /\ conn'[c].got = conn[c].got /\ conn'[c].up = conn[c].up
      /\ conn'[c].fin = conn[c].fin \/ conn'[c].fin = TRUE
  <2>1. CASE Deliver(c)
    <3>1. PICK v, w : conn' = [conn EXCEPT ![c].down = v, ![c].flight = w]
      BY <2>1 DEF Deliver
    <3> QED BY <1>1, <3>1, ConnFields DEF Touches
  <2>2. CASE Break(c)
    <3>1. conn' = [conn EXCEPT ![c].fin = TRUE, ![c].flight = <<>>]
      BY <2>2 DEF Break
    <3> QED BY <1>1, <3>1, ConnFields DEF Touches
  <2> QED BY <2>1, <2>2
<1>3. PICK b, d : b = conn'[c] /\ d = conn[c]
  OBVIOUS
<1>4. /\ DOMAIN b = DOMAIN NewConn /\ b.got = d.got /\ b.up = d.up
      /\ ~b.fin => ~d.fin
  BY <1>2, <1>3 DEF Touches
<1>5. ASSUME NEW p \in Put, put[p].data_ioc = c
      PROVE  Sent(p, put[p], at[p], b)
  <2>1. Sent(p, put[p], at[p], d)
    BY <1>3, <1>5, PutHas
  <2>2. PICK e, s : e = put[p] /\ s = at[p]
    OBVIOUS
  <2>3. Sent(p, e, s, b)
    BY <1>4, <2>1, <2>2 DEF Sent
  <2> QED BY <2>2, <2>3
<1> QED BY <1>2, <1>3, <1>5, NetMoves

(* A command comes on no connection for a file. *)
LEMMA AnswerCommandKeeps ==
  ASSUME "open" \notin DOMAIN NULL, NULL \notin Channel, UInv, NEW c \in Channel,
         AnswerCommand(c)
  PROVE  UInv'
<1>1. conn[c] # NULL /\ DOMAIN conn = Channel /\ DOMAIN conn[c] = DOMAIN NewConn
  BY DEF AnswerCommand, Alive, UInv, FieldsOK
<1>2. at' = at /\ put' = put
  BY DEF AnswerCommand, putVars
<1>3. Touches(c)
  <2>1. PICK v, w : conn' = [conn EXCEPT ![c].got = v, ![c].flight = w]
    BY Zenon DEF AnswerCommand
  <2> QED BY <1>1, <2>1, ConnFields DEF Touches
<1>4. ASSUME NEW p \in Put, put[p].data_ioc = c
      PROVE  FALSE
  <2>1. PICK g : g = conn[c].got /\ Len(g) = 2 /\ g[1][1] = "command"
    BY DEF AnswerCommand
  <2>2. PICK m \in Nat : g = Piece(p, 0, m)
    BY <1>4, <2>1, PutHas DEF Sent
  <2>3. PICK z \in Nat : z = 0
    OBVIOUS
  <2>4. z <= m /\ m - z = m
    BY <2>3
  <2>5. Len(Piece(p, z, m)) = m - z
    BY <2>4, PieceIs
  <2>6. g[1] = Unit("body", p, z + 1)
    BY <2>1, <2>2, <2>3, <2>4, <2>5 DEF Piece
  <2> QED BY <2>1, <2>6 DEF Unit
<1> QED BY <1>2, <1>3, <1>4, NetMoves

LEMMA UploadSame ==
  ASSUME UInv, at' = at, put' = put, conn' = conn
  PROVE  UInv'
<1>1. FieldsOK' /\ Apart'
  BY DEF UInv, FieldsOK, Apart
<1>2. Parts'
  BY DEF UInv, Parts
<1> QED BY <1>1, <1>2 DEF UInv

LEMMA UploadKeeps ==
  ASSUME "open" \notin DOMAIN NULL, NULL \notin Channel,
         \A p \in Put : NULL \notin Seq(Units(p)), \A n \in FileSize : Sendable(n),
         UInv, FtpNext
  PROVE  UInv'
<1>1. ASSUME NEW p \in Put, PutStep(p)
      PROVE  UInv'
  BY <1>1, FailsKeeps, ConnectControlKeeps, WriteCommandKeeps, GetReplyKeeps,
     ConnectDataKeeps, ConnectDataFailsKeeps, ReadSourceKeeps, WriteBlockKeeps,
     BlockFailsKeeps, DiesKeeps DEF PutStep
<1>2. ASSUME NEW p \in Put, ResumePut(p)
      PROVE  UInv'
  BY <1>2, UploadSame DEF ResumePut, Resumed, putVars
<1> QED BY <1>1, <1>2, PutCoKeeps, AnswerCommandKeeps DEF FtpNext

-----------------------------------------------------------------------------
(* Requests, while there are no uploads.  One that has begun is never new  *)
(* again.                                                                  *)
LEMMA RequestOn ==
  ASSUME DOMAIN pc = Req, NEW r \in Req, Step(r) \/ ConnectFails(r)
  PROVE  /\ DOMAIN pc' = Req /\ pc[r] # "new" /\ pc'[r] # "new"
         /\ \A q \in Req \ {r} : pc'[q] = pc[q]
<1>1. ASSUME NEW s, s # "new", Goto(r, s), pc[r] # "new"
      PROVE  /\ DOMAIN pc' = Req /\ pc[r] # "new" /\ pc'[r] # "new"
             /\ \A q \in Req \ {r} : pc'[q] = pc[q]
  BY <1>1 DEF Goto
<1>2. ASSUME NEW rc, Leave(r, rc), pc[r] # "new"
      PROVE  /\ DOMAIN pc' = Req /\ pc[r] # "new" /\ pc'[r] # "new"
             /\ \A q \in Req \ {r} : pc'[q] = pc[q]
  BY <1>1, <1>2 DEF Leave
<1>3. pc[r] # "new"
  <2>1. CASE Step(r)
    BY <2>1 DEF Step, Connect, Write, WriteFails, SendBody, NeedMore, StatusLineOf,
       HeaderLineOf, HeadersEnd, ReadChars, ReadNothing, ReadAll, ChunkSize, ChunkEnd,
       Trailer, RequestOk, Cleanup, Finish, HasLine, Running, LineStates
  <2>2. CASE ConnectFails(r)
    BY <2>2 DEF ConnectFails, Running
  <2> QED BY <2>1, <2>2
<1>4. \/ pc' = pc
      \/ \E s : s # "new" /\ Goto(r, s)
      \/ \E rc : Leave(r, rc)
  <2>1. CASE Connect(r) \/ Write(r) \/ WriteFails(r) \/ SendBody(r)
    BY <2>1 DEF Connect, StartSending, Write, WriteFails, Failed, SendBody
  <2>2. CASE NeedMore(r) \/ StatusLineOf(r) \/ HeaderLineOf(r)
    BY <2>2, Zenon DEF NeedMore, requestVars, StatusLineOf, HeaderLineOf, Failed
  <2>3. CASE HeadersEnd(r)
    <3>1. Decoder(r) # "new"
      BY DEF Decoder
    <3> QED BY <2>3, <3>1 DEF HeadersEnd
  <2>4. CASE ReadChars(r) \/ ReadNothing(r) \/ ReadAll(r)
    <3>1. (IF pc[r] = "length" THEN "ok" ELSE "chunkend") # "new"
      OBVIOUS
    <3> QED BY <2>4, <3>1, Zenon DEF ReadChars, ReadNothing, ReadAll, Failed
  <2>5. CASE ChunkSize(r) \/ ChunkEnd(r) \/ Trailer(r)
    <3>1. (IF LineOf(r)[1][3] = 0 THEN "trailer" ELSE "chunkdata") # "new"
      OBVIOUS
    <3> QED BY <2>5, <3>1, Zenon DEF ChunkSize, ChunkEnd, Trailer, Failed
  <2>6. CASE RequestOk(r) \/ Cleanup(r) \/ Finish(r) \/ ConnectFails(r)
    BY <2>6 DEF RequestOk, Cleanup, Finish, ConnectFails
  <2> QED BY <2>1, <2>2, <2>3, <2>4, <2>5, <2>6 DEF Step
<1> QED BY <1>1, <1>2, <1>3, <1>4

LEMMA HttpOn ==
  ASSUME "open" \notin DOMAIN NULL, DOMAIN pc = Req, HttpNext
  PROVE  /\ DOMAIN pc' = Req
         /\ NoRequests' =>
              /\ NoRequests
              /\ conn' = conn \/ \E c \in Channel, a \in Replies : ServerAnswers(c, a)
<1>1. CASE \E r \in Req : Begin(r)
  <2>1. PICK r \in Req : Begin(r)
    BY <1>1
  <2>2. \E s : s # "new" /\ Goto(r, s)
    BY <2>1 DEF Begin, RequestCo, OpenFails
  <2> QED BY <2>2 DEF Goto, NoRequests
<1>2. CASE \E r \in Req : Step(r) \/ ConnectFails(r)
  BY <1>2, RequestOn DEF NoRequests
<1>3. CASE \E r \in Req : Resume(r)
  BY <1>3 DEF Resume, Resumed, requestVars, NoRequests
<1>4. CASE \E c \in Channel, a \in Replies : ServerAnswers(c, a)
  <2>1. pc' = pc
    BY <1>4 DEF ServerAnswers
  <2> QED BY <1>4, <2>1 DEF NoRequests
<1> QED BY <1>1, <1>2, <1>3, <1>4 DEF HttpNext

LEMMA AnswerTouches ==
  ASSUME FieldsOK, NEW c \in Channel, NEW a, ServerAnswers(c, a)
  PROVE  Touches(c)
<1>1. conn[c] # NULL /\ DOMAIN conn = Channel /\ DOMAIN conn[c] = DOMAIN NewConn
  BY DEF ServerAnswers, Alive, FieldsOK
<1>2. PICK u, v, w : conn' = [conn EXCEPT ![c].flight = u, ![c].got = v, ![c].fin = w]
  <2> DEFINE g == conn[c].got
             r == g[1][2]
             s == SubSeq(g, 3 + g[2][3], Len(g))
             n == a.close \/ a.framing = "identity"
  <2>1. conn' = [conn EXCEPT ![c].flight = @ \o Response(r, a), ![c].got = s,
                             ![c].fin = n]
    BY Zenon DEF ServerAnswers
  <2>2. conn' = [conn EXCEPT ![c].flight = conn[c].flight \o Response(r, a),
                             ![c].got = s, ![c].fin = n]
    BY <2>1, Zenon
  <2> QED BY <2>2, Zenon
<1> QED BY <1>1, <1>2, ConnFields DEF Touches

-----------------------------------------------------------------------------
LEMMA FInvInit ==
  ASSUME NULL # "sent"
  PROVE  Init => FInv
<1> SUFFICES ASSUME Init
             PROVE  FInv
  OBVIOUS
<1>1. /\ pc = [r \in Req |-> "new"] /\ conn = [c \in Channel |-> NULL]
      /\ at = [p \in Put |-> "new"] /\ put = [p \in Put |-> NewPut]
  BY DEF Init, ChannelsInit, HttpInit, FtpInit
<1>2. Stage(NewPut, "new")
  BY DEF Stage, NewPut
<1>3. Parts
  BY <1>1, <1>2, PutFields DEF Parts
<1>4. FieldsOK /\ Apart
  BY <1>1, PutFields DEF FieldsOK, Apart
<1> QED BY <1>1, <1>3, <1>4 DEF FInv, UInv, NoRequests

LEMMA FInvKeeps ==
  ASSUME "open" \notin DOMAIN NULL, NULL \notin Channel,
         \A p \in Put : NULL \notin Seq(Units(p)), \A n \in FileSize : Sendable(n),
         FInv, [Next]_vars
  PROVE  FInv'
<1>1. CASE HttpStep
  <2>1. (\A p \in Put : at[p] = "new") /\ at' = at /\ put' = put /\ HttpNext
    BY <1>1 DEF HttpStep, putVars
  <2>2. /\ DOMAIN pc' = Req
        /\ NoRequests' =>
              /\ NoRequests
              /\ conn' = conn \/ \E c \in Channel, a \in Replies : ServerAnswers(c, a)
    BY <2>1, HttpOn DEF FInv
  <2>3. NoRequests => UInv /\ \A p \in Put : at[p] = "new" /\ put[p] = NewPut
    BY <2>1, PutHas DEF FInv, Stage
  <2>4. CASE NoRequests'
    <3>1. CASE conn' = conn
      BY <2>1, <2>2, <2>3, <2>4, <3>1, UploadSame DEF FInv
    <3>2. CASE \E c \in Channel, a \in Replies : ServerAnswers(c, a)
      <4>1. PICK c \in Channel, a \in Replies : ServerAnswers(c, a)
        BY <3>2
      <4>2. UInv /\ \A p \in Put : put[p].data_ioc # c
        BY <2>2, <2>3, <2>4, PutFields
      <4>3. Touches(c)
        BY <4>1, <4>2, AnswerTouches DEF UInv
      <4>4. UInv'
        BY <2>1, <4>2, <4>3, NetMoves
      <4> QED BY <2>2, <2>4, <4>4 DEF FInv
    <3> QED BY <2>2, <2>4, <3>1, <3>2
  <2>5. CASE ~NoRequests'
    <3>1. \A p \in Put : at[p] = "new" /\ put[p] = NewPut
      BY <2>3 DEF FInv
    <3> QED BY <2>1, <2>2, <2>5, <3>1 DEF FInv
  <2> QED BY <2>4, <2>5
<1>2. CASE FtpStep
  <2>1. NoRequests /\ UInv /\ pc' = pc /\ FtpNext
    BY <1>2 DEF FtpStep, requestVars, FInv, NoRequests
  <2>2. UInv'
    BY <2>1, UploadKeeps
  <2> QED BY <2>1, <2>2 DEF FInv, NoRequests
<1>3. ASSUME pc' = pc, at' = at, put' = put,
             conn' = conn \/ \E c \in Channel : ServerReads(c) \/ Deliver(c) \/ Break(c)
      PROVE  FInv'
  <2>1. CASE NoRequests
    <3>1. UInv
      BY <2>1 DEF FInv
    <3>2. UInv'
      BY <1>3, <3>1, UploadSame, ServerReadsKeeps, DeliverKeeps
    <3> QED BY <1>3, <2>1, <3>2 DEF FInv, NoRequests
  <2>2. CASE ~NoRequests
    BY <1>3, <2>2 DEF FInv, NoRequests
  <2> QED BY <2>1, <2>2
<1>4. CASE \E c \in Channel : ConnStep(c)
  BY <1>3, <1>4 DEF ConnStep, requestVars, putVars
<1>5. CASE UNCHANGED vars
  BY <1>3, <1>5 DEF vars, channelVars, requestVars, putVars
<1> QED BY <1>1, <1>2, <1>4, <1>5 DEF Next

(* What the server has of a file is always a beginning of it, and the      *)
(* whole file when the upload has found its source at the end: whatever    *)
(* blocks it is cut into, whatever part of one the kernel takes at a time, *)
(* for lengths that source_buffer can send (put_3, ftp_co.lua, with        *)
(* write_chars and source_buffer, socket_co.lua).  NULL is a value of its  *)
(* own: no record with a field open, no sequence and no string.            *)
THEOREM Uploads_Exact ==
  ASSUME NULL # "sent", "open" \notin DOMAIN NULL, \A p \in Put : NULL \notin Seq(Units(p)),
         \A n \in FileSize : Sendable(n)
  PROVE  Spec => []UploadExact
<1>1. Init => FInv
  BY FInvInit
<1>2. FInv /\ [Next]_vars => FInv'
  <2>1. NULL \notin Channel
    BY NamesAssumption
  <2> QED BY <2>1, FInvKeeps
<1>3. FInv => UploadExact
  <2> SUFFICES ASSUME FInv, NEW p \in Put, put[p].data_ioc # NULL
               PROVE  LET d    == conn[put[p].data_ioc]
                          has  == d.got \o d.up
                          file == Body(p, put[p].size)
                      IN /\ IsPrefix(has, file)
                         /\ put[p].result = "sent" /\ ~d.fin => has = file
    BY DEF UploadExact
  <2>1. UInv
    BY PutFields DEF FInv
  <2>2. /\ Sent(p, put[p], at[p], conn[put[p].data_ioc]) /\ put[p].size \in Nat
    BY <2>1, PutHas
  <2> QED BY <2>2, SentExact
<1> QED BY <1>1, <1>2, <1>3, PTL DEF Spec
-----------------------------------------------------------------------------
(***************************************************************************)
(* Downloads.  What is still to come on the connection of a request is, at *)
(* each moment, the rest of the response to it: all of it, or what a       *)
(* broken connection leaves of it.                                         *)
(***************************************************************************)
Value == Nat \cup (Name \X (Nat \cup {"close", "chunked"}))
Keys == Command \cup {"greeting"}
Said == Keys \X Nat \X {"-", " ", ""}
Words == ({"request", "header", "status", "chunk", "nl", "body"} \X Req \X Value)
         \cup ({"reply", "command"} \X Put \X (Said \cup Command))
         \cup {NL(p) : p \in Put}

Stream(x) == x.buf \o (x.down \o x.flight)

(* Nothing is left; nothing more comes, and no line is complete; a         *)
(* connection that another request may take over.                          *)
Silent(x) == x.buf = <<>> /\ x.down = <<>> /\ x.flight = <<>>
Dead(x) == /\ x.fin /\ x.down = <<>> /\ x.flight = <<>>
           /\ x.buf \in Seq(Words) /\ \A i \in DOMAIN x.buf : ~IsNL(x.buf[i])
Idle(x) == Dead(x) \/ (Silent(x) /\ x.got = <<>> /\ x.up = <<>>)

(* rest is what is still to come.                                          *)
Broken(x) == Breaks /\ x.fin /\ x.flight = <<>>
Agrees(s, rest) == Len(s) <= Len(rest) /\ \A i \in 1..Len(s) : s[i] = rest[i]
Ahead(x, rest) ==
  /\ x.buf \in Seq(Words) /\ x.down \in Seq(Words) /\ x.flight \in Seq(Words)
  /\ rest \in Seq(Words)
  /\ Agrees(Stream(x), rest)
  /\ Len(Stream(x)) = Len(rest) \/ Broken(x)

-----------------------------------------------------------------------------
(* A response, from behind: its body, the end of its headers, ...          *)
TrailerEnd(r, a) ==
  IF a.close THEN Header(r, "connection", "close") \o <<NL(r)>> ELSE <<NL(r)>>
LastChunk(r, a) == <<Unit("chunk", r, 0), NL(r)>> \o TrailerEnd(r, a)
ChunkThen(r, m, k, rest) ==
  <<Unit("chunk", r, k), NL(r)>> \o (Piece(r, m, m + k) \o (<<NL(r)>> \o rest))
SecondChunk(r, a, m) == ChunkThen(r, m, a.n - m, LastChunk(r, a))

(* What comes after m units of a chunked body.                             *)
ChunksAfter(r, a, m, rest) ==
  \/ m = a.n /\ rest = LastChunk(r, a)
  \/ m < a.n /\ rest = SecondChunk(r, a, m)
  \/ m = 0 /\ 1 < a.n /\ rest = ChunkThen(r, 0, 1, SecondChunk(r, a, 1))

BodyPart(r, a, rest) ==
  IF a.framing = "chunked"
  THEN IF 1 < a.n THEN rest = ChunkThen(r, 0, 1, SecondChunk(r, a, 1))
       ELSE IF a.n = 0 THEN rest = LastChunk(r, a) ELSE rest = SecondChunk(r, a, 0)
  ELSE rest = Piece(r, 0, a.n)

Framed(a) == a.framing \in {"length", "chunked"}
FrameHeader(r, a) ==
  IF a.framing = "length" THEN Header(r, "content-length", a.n)
                          ELSE Header(r, "transfer-encoding", "chunked")
(* ... its headers, after and before "Connection: close", and all of it.   *)
EndOf(r, rest) == <<NL(r)>> \o rest
FrameThen(r, a, rest) ==
  IF Framed(a) THEN FrameHeader(r, a) \o EndOf(r, rest) ELSE EndOf(r, rest)
CloseThen(r, a, rest) ==
  IF a.close /\ a.framing # "chunked"
  THEN Header(r, "connection", "close") \o FrameThen(r, a, rest)
  ELSE FrameThen(r, a, rest)
Code(a) == IF a.framing = "none" THEN 204 ELSE 200
Final(r, a, rest) == Status(r, Code(a)) \o CloseThen(r, a, rest)
Whole(r, a, rest) ==
  IF a.interim THEN Status(r, 100) \o EndOf(r, Final(r, a, rest)) ELSE Final(r, a, rest)

(* The headers read so far tell nothing of the length of the body; or all. *)
Plain(h) == /\ DOMAIN h = Name
            /\ h["content-length"] = NULL /\ h["transfer-encoding"] = NULL
Tells(h, a) ==
  /\ DOMAIN h = Name
  /\ h["content-length"] = IF a.framing = "length" THEN a.n ELSE NULL
  /\ h["transfer-encoding"] = IF a.framing = "chunked" THEN "chunked" ELSE NULL

(* The request r in state s, with the arguments e, when rest is to come:   *)
(* it has not begun to read, reads the status, headers, ...                *)
BeforeStatus(r, a, s, e, rest, b) ==
  /\ s \in {"send", "status"} /\ Plain(e.headers)
  /\ rest = Whole(r, a, b) \/ (s = "status" /\ rest = Final(r, a, b))
  /\ s = "send" => e.data = <<>> /\ e.pos >= e.size

InHeaders(r, a, s, e, rest, b) ==
  /\ s = "headers"
  /\ \/ e.code = 100 /\ Plain(e.headers) /\ rest = EndOf(r, Final(r, a, b))
     \/ /\ e.code = Code(a)
        /\ \/ Plain(e.headers) /\ rest \in {CloseThen(r, a, b), FrameThen(r, a, b)}
           \/ Tells(e.headers, a) /\ rest = EndOf(r, b)

InHead(r, a, s, e, rest) ==
  /\ e.sink = <<>> /\ e.count = 0 /\ e.response_headers = NULL
  /\ \E b \in Seq(Words) :
       /\ BodyPart(r, a, b)
       /\ BeforeStatus(r, a, s, e, rest, b) \/ InHeaders(r, a, s, e, rest, b)

(* ... a body with a length or without, and one in chunks.                 *)
InPlainBody(r, a, s, e, rest) ==
  \E m \in 0..a.n :
    /\ e.sink = Piece(r, 0, m) /\ rest = Piece(r, m, a.n)
    /\ \/ s = "length" /\ e.length = a.n /\ e.count = m
       \/ s = "identity" /\ a.framing = "identity"

InChunks(r, a, s, e, rest) ==
  \E m \in 0..a.n :
    /\ e.sink = Piece(r, 0, m)
    /\ \/ s = "chunksize" /\ ChunksAfter(r, a, m, rest)
       \/ \E k \in 1..(a.n - m), z \in Seq(Words) :
            /\ ChunksAfter(r, a, m + k, z)
            /\ \/ /\ s = "chunkdata" /\ e.length = k
                  /\ \E j \in 0..k :
                       /\ e.chunk = Piece(r, m, m + j)
                       /\ rest = Piece(r, m + j, m + k) \o (<<NL(r)>> \o z)
               \/ /\ s = "chunkend" /\ e.chunk = Piece(r, m, m + k)
                  /\ rest = <<NL(r)>> \o z
       \/ s = "trailer" /\ m = a.n /\ rest \in {TrailerEnd(r, a), <<NL(r)>>}

(* All of the body, or what a broken connection left of one without length.*)
Received(r, a, e) ==
  \E m \in 0..a.n : /\ e.sink = Piece(r, 0, m)
                    /\ m = a.n \/ (Breaks /\ a.framing = "identity")

Coming(r, a, s, e, rest) ==
  InHead(r, a, s, e, rest) \/ InPlainBody(r, a, s, e, rest) \/ InChunks(r, a, s, e, rest)

AnswerTo(r, a) == [body |-> Body(r, a.n), framing |-> a.framing]

Answered(r, s, e, v, x) ==
  /\ x.got = <<>> /\ x.up = <<>>
  /\ \E a \in Replies :
       /\ v = AnswerTo(r, a)
       /\ \/ \E rest \in Seq(Words) : Coming(r, a, s, e, rest) /\ Ahead(x, rest)
          \/ s = "ok" /\ Silent(x) /\ Received(r, a, e)

(* Of a request of n units, the lines and k units of its body.             *)
Asked(r, n, k) == <<Unit("request", r, 0), Unit("header", r, n)>> \o Piece(r, 0, k)

Asking(r, s, e, v, x) ==
  /\ v = NULL /\ s \in {"send", "status"}
  /\ e.sink = <<>> /\ e.count = 0 /\ e.response_headers = NULL /\ Plain(e.headers)
  /\ \/ Dead(x)
     \/ /\ Silent(x) /\ x.got \in Seq(Words) /\ x.up \in Seq(Words)
        /\ e.data \in Seq(Words) /\ e.size \in Nat /\ Len(x.up) <= Window
        /\ \E k \in 0..e.size : /\ e.pos = k + 1
                                /\ x.got \o (x.up \o e.data) = Asked(r, e.size, k)
        /\ s = "status" => e.data = <<>>

(* request_2 is left; it fails at the end of the connection only.          *)
Leaving(r, e, v, x) ==
  /\ (e.response_headers = NULL /\ x.fin) \/ Idle(x)
  /\ \/ e.rc = "error" /\ e.sink = <<>>
     \/ \E a \in Replies : \E m \in 0..a.n :
          /\ v = AnswerTo(r, a) /\ e.sink = Piece(r, 0, m)
          /\ e.rc = "http ok" => Silent(x) /\ Idle(x) /\ Received(r, a, e)

(* The argument table is new.                                              *)
Beginning(e) ==
  /\ e.count = 0 /\ e.response_headers = NULL /\ Plain(e.headers)
  /\ e.size \in Nat /\ e.pos = 1

(* Nothing is received, as far as the argument table goes.                 *)
Quiet(e, v) == e.sink = <<>> /\ v = NULL

(* A request that uses a connection.                                       *)
Right(r, s, e, v, x) ==
  /\ s # "cleanup" => e.rc = ""
  /\ \/ s \in {"connect", "done"} /\ Quiet(e, v) /\ Idle(x)
     \/ s = "cleanup" /\ Leaving(r, e, v, x)
     \/ Asking(r, s, e, v, x)
     \/ Answered(r, s, e, v, x)

(* A connection that is closed is at its end. *)
Held(x) == x.open \/ x.fin

RInv ==
  /\ DOMAIN answer = Req
  /\ \A r \in Req :
       IF Uses(r) THEN Right(r, pc[r], arg[r], answer[r], conn[arg[r].channel])
       ELSE Quiet(arg[r], answer[r]) /\ arg[r].rc = ""
  /\ \A r \in Req : pc[r] = "connect" => Beginning(arg[r])
  /\ ~Uploading => \A c \in Channel : conn[c] # NULL => Held(conn[c])

-----------------------------------------------------------------------------
(***************************************************************************)
(* Streams: taking from the front, adding at the end.                      *)
(***************************************************************************)
LEMMA StreamIs ==
  ASSUME NEW W, NEW b \in Seq(W), NEW d \in Seq(W), NEW f \in Seq(W)
  PROVE  /\ b \o (d \o f) \in Seq(W)
         /\ Len(b \o (d \o f)) = Len(b) + Len(d) + Len(f)
         /\ Len(b) \in Nat /\ Len(d) \in Nat /\ Len(f) \in Nat
<1>1. /\ d \o f \in Seq(W) /\ Len(d \o f) = Len(d) + Len(f)
  BY ConcatProperties
<1>2. PICK z \in Seq(W) : z = d \o f
  BY <1>1
<1>3. /\ b \o z \in Seq(W) /\ Len(b \o z) = Len(b) + Len(z)
  BY ConcatProperties
<1>4. Len(b) \in Nat /\ Len(d) \in Nat /\ Len(f) \in Nat
  BY LenProperties
<1> QED BY <1>1, <1>2, <1>3, <1>4

(* The first k of s are taken.                                             *)
Rest(s, k) == SubSeq(s, k + 1, Len(s))

LEMMA RestIs ==
  ASSUME NEW W, NEW s \in Seq(W), NEW k \in Nat, k <= Len(s)
  PROVE  /\ Rest(s, k) \in Seq(W) /\ Len(Rest(s, k)) = Len(s) - k
         /\ \A i \in 1..(Len(s) - k) : Rest(s, k)[i] = s[k + i]
         /\ SubSeq(s, 1, k) \in Seq(W) /\ Len(SubSeq(s, 1, k)) = k
         /\ \A i \in 1..k : SubSeq(s, 1, k)[i] = s[i]
<1>1. Len(s) \in Nat /\ \A i \in 1..Len(s) : s[i] \in W
  BY LenProperties, ElementOfSeq
<1>2. /\ Rest(s, k) \in Seq(W)
      /\ Len(Rest(s, k)) = IF k + 1 <= Len(s) THEN Len(s) - (k + 1) + 1 ELSE 0
      /\ \A i \in 1..(Len(s) - (k + 1) + 1) : Rest(s, k)[i] = s[(k + 1) + i - 1]
  <2>1. \A i \in (k + 1)..Len(s) : s[i] \in W
    BY <1>1
  <2>2. k + 1 \in Int /\ Len(s) \in Int
    BY <1>1
  <2> QED BY <2>1, <2>2, SubSeqProperties DEF Rest
<1>3. /\ SubSeq(s, 1, k) \in Seq(W) /\ Len(SubSeq(s, 1, k)) = IF 1 <= k THEN k - 1 + 1 ELSE 0
      /\ \A i \in 1..(k - 1 + 1) : SubSeq(s, 1, k)[i] = s[1 + i - 1]
  <2>1. \A i \in 1..k : s[i] \in W
    BY <1>1
  <2> QED BY <2>1, SubSeqProperties
<1>4. Len(s) - (k + 1) + 1 = Len(s) - k /\ k - 1 + 1 = k
  BY <1>1
<1>5. ASSUME NEW i \in 1..(Len(s) - k)
      PROVE  Rest(s, k)[i] = s[k + i]
  <2>1. (k + 1) + i - 1 = k + i
    BY <1>1
  <2> QED BY <1>2, <1>4, <2>1
<1>6. ASSUME NEW i \in 1..k
      PROVE  SubSeq(s, 1, k)[i] = s[i]
  <2>1. 1 + i - 1 = i
    OBVIOUS
  <2> QED BY <1>3, <1>4, <2>1
<1>7. Len(Rest(s, k)) = Len(s) - k /\ Len(SubSeq(s, 1, k)) = k
  BY <1>1, <1>2, <1>3
<1> QED BY <1>2, <1>3, <1>5, <1>6, <1>7

(* Taking from the first of two is taking from both.                       *)
LEMMA RestConcat ==
  ASSUME NEW W, NEW s \in Seq(W), NEW t \in Seq(W), NEW k \in Nat, k <= Len(s)
  PROVE  /\ Rest(s, k) \o t = Rest(s \o t, k) /\ SubSeq(s, 1, k) = SubSeq(s \o t, 1, k)
<1>1. PICK u : u = s \o t
  OBVIOUS
<1>2. /\ u \in Seq(W) /\ Len(u) = Len(s) + Len(t) /\ Len(s) \in Nat /\ Len(t) \in Nat
      /\ \A i \in 1..(Len(s) + Len(t)) : u[i] = IF i <= Len(s) THEN s[i] ELSE t[i - Len(s)]
  BY <1>1, ConcatProperties, LenProperties
<1>3. PICK m \in Nat, n \in Nat : m = Len(s) /\ n = Len(t)
  BY <1>2
<1>4. k <= Len(u) /\ Len(u) = m + n /\ k <= m
  BY <1>2, <1>3
<1>5. PICK a, b : a = Rest(s, k) /\ b = Rest(u, k)
  OBVIOUS
<1>6. /\ a \in Seq(W) /\ Len(a) = m - k
      /\ \A i \in 1..(m - k) : a[i] = s[k + i]
  <2>1. /\ Rest(s, k) \in Seq(W) /\ Len(Rest(s, k)) = Len(s) - k
        /\ \A i \in 1..(Len(s) - k) : Rest(s, k)[i] = s[k + i]
    BY RestIs
  <2> QED BY <1>3, <1>5, <2>1
<1>7. /\ b \in Seq(W) /\ Len(b) = m + n - k
      /\ \A i \in 1..(m + n - k) : b[i] = u[k + i]
  <2>1. PICK l \in Nat : l = Len(u)
    BY <1>2
  <2>2. /\ b \in Seq(W) /\ Len(b) = l - k
        /\ \A i \in 1..(l - k) : b[i] = u[k + i]
    <3>1. u \in Seq(W) /\ k <= Len(u)
      BY <1>2, <1>4
    <3>2. /\ Rest(u, k) \in Seq(W) /\ Len(Rest(u, k)) = Len(u) - k
          /\ \A i \in 1..(Len(u) - k) : Rest(u, k)[i] = u[k + i]
      BY <3>1, RestIs
    <3> QED BY <1>5, <2>1, <3>2
  <2>3. l = m + n
    BY <1>4, <2>1
  <2> QED BY <2>2, <2>3
<1>8. PICK c : c = a \o t
  OBVIOUS
<1>9. /\ c \in Seq(W) /\ Len(c) = Len(a) + Len(t)
      /\ \A i \in 1..(Len(a) + Len(t)) : c[i] = IF i <= Len(a) THEN a[i] ELSE t[i - Len(a)]
  BY <1>6, <1>8, ConcatProperties
<1>10. Len(c) = Len(b)
  <2>1. (m - k) + n = m + n - k
    OBVIOUS
  <2> QED BY <1>3, <1>6, <1>7, <1>9, <2>1
<1>11. ASSUME NEW i \in 1..Len(c)
       PROVE  c[i] = b[i]
  <2>1. /\ i \in 1..(m + n - k) /\ k + i \in 1..(m + n)
        /\ i \in 1..((m - k) + n)
    BY <1>4, <1>7, <1>10
  <2>2. c[i] = IF i <= m - k THEN a[i] ELSE t[i - (m - k)]
    BY <1>3, <1>6, <1>9, <2>1
  <2>3. u[k + i] = IF k + i <= m THEN s[k + i] ELSE t[k + i - m]
    <3>1. \A l \in 1..(m + n) : u[l] = IF l <= m THEN s[l] ELSE t[l - m]
      BY <1>2, <1>3
    <3> QED BY <2>1, <3>1
  <2>4. b[i] = u[k + i]
    BY <1>7, <2>1
  <2>5. CASE i <= m - k
    <3>1. i \in 1..(m - k) /\ k + i <= m
      BY <1>4, <2>1, <2>5
    <3> QED BY <1>6, <2>2, <2>3, <2>4, <3>1
  <2>6. CASE ~(i <= m - k)
    <3>1. ~(k + i <= m) /\ i - (m - k) = k + i - m
      BY <1>4, <2>1, <2>6
    <3> QED BY <2>2, <2>3, <2>4, <2>6, <3>1
  <2> QED BY <2>5, <2>6
<1>12. c = b
  BY <1>7, <1>9, <1>10, <1>11, SeqEqual
<1>13. SubSeq(s, 1, k) = SubSeq(u, 1, k)
  <2>1. PICK v, w : v = SubSeq(s, 1, k) /\ w = SubSeq(u, 1, k)
    OBVIOUS
  <2>2. v \in Seq(W) /\ Len(v) = k /\ \A i \in 1..k : v[i] = s[i]
    BY <2>1, RestIs
  <2>3. w \in Seq(W) /\ Len(w) = k /\ \A i \in 1..k : w[i] = u[i]
    BY <1>2, <1>4, <2>1, RestIs
  <2>4. \A i \in 1..k : s[i] = u[i]
    BY <1>2, <1>3, <1>4
  <2>5. v = w
    BY <2>2, <2>3, <2>4, SeqEqual
  <2> QED BY <2>1, <2>5
<1> QED BY <1>1, <1>5, <1>8, <1>12, <1>13

LEMMA AgreesRest ==
  ASSUME NEW W, NEW s \in Seq(W), NEW p \in Seq(W), NEW rest \in Seq(W),
         NEW k \in Nat, k = Len(p), k <= Len(s), Agrees(s, p \o rest)
  PROVE  Agrees(Rest(s, k), rest) /\ SubSeq(s, 1, k) = p
<1>1. PICK u : u = p \o rest
  OBVIOUS
<1>2. PICK m \in Nat, n \in Nat : m = Len(s) /\ n = Len(rest)
  BY LenProperties
<1>3. /\ Len(u) = k + n
      /\ \A i \in 1..(k + n) : u[i] = IF i <= k THEN p[i] ELSE rest[i - k]
  BY <1>1, <1>2, ConcatProperties
<1>4. m <= k + n /\ \A i \in 1..m : s[i] = u[i]
  BY <1>1, <1>2, <1>3 DEF Agrees
<1>5. PICK a, b : a = Rest(s, k) /\ b = SubSeq(s, 1, k)
  OBVIOUS
<1>6. /\ Len(a) = m - k /\ \A i \in 1..(m - k) : a[i] = s[k + i]
      /\ b \in Seq(W) /\ Len(b) = k /\ \A i \in 1..k : b[i] = s[i]
  <2>1. PICK l \in Nat : l = k
    OBVIOUS
  <2>2. l <= Len(s)
    BY <2>1
  <2>3. /\ Len(Rest(s, l)) = Len(s) - l
        /\ \A i \in 1..(Len(s) - l) : Rest(s, l)[i] = s[l + i]
        /\ SubSeq(s, 1, l) \in Seq(W) /\ Len(SubSeq(s, 1, l)) = l
        /\ \A i \in 1..l : SubSeq(s, 1, l)[i] = s[i]
    BY <2>2, RestIs
  <2> QED BY <1>2, <1>5, <2>1, <2>3
<1>7. ASSUME NEW i \in 1..(m - k)
      PROVE  a[i] = rest[i]
  <2>1. PICK l : l = k + i
    OBVIOUS
  <2>2. l \in 1..m /\ l \in 1..(k + n) /\ ~(l <= k) /\ l - k = i
    BY <1>4, <2>1
  <2> QED BY <1>3, <1>4, <1>6, <2>1, <2>2
<1>8. m - k <= n
  BY <1>4
<1>9. ASSUME NEW i \in 1..k
      PROVE  b[i] = p[i]
  <2>1. i \in 1..m /\ i \in 1..(k + n) /\ i <= k
    BY <1>2
  <2> QED BY <1>3, <1>4, <1>6, <2>1
<1>10. b = p
  BY <1>6, <1>9, SeqEqual
<1> QED BY <1>2, <1>5, <1>6, <1>7, <1>8, <1>10 DEF Agrees

LEMMA AheadIs ==
  ASSUME NEW x, NEW rest, Ahead(x, rest)
  PROVE  /\ x.buf \in Seq(Words) /\ x.down \in Seq(Words) /\ x.flight \in Seq(Words)
         /\ rest \in Seq(Words) /\ Stream(x) \in Seq(Words)
         /\ Len(Stream(x)) = Len(x.buf) + Len(x.down) + Len(x.flight)
         /\ Len(x.buf) \in Nat /\ Len(x.down) \in Nat /\ Len(x.flight) \in Nat
         /\ Len(rest) \in Nat /\ Len(Stream(x)) \in Nat
         /\ Len(Stream(x)) <= Len(rest)
<1>1. /\ x.buf \in Seq(Words) /\ x.down \in Seq(Words) /\ x.flight \in Seq(Words)
      /\ rest \in Seq(Words) /\ Agrees(Stream(x), rest)
  BY DEF Ahead
<1>2. PICK b \in Seq(Words), d \in Seq(Words), f \in Seq(Words) :
        b = x.buf /\ d = x.down /\ f = x.flight
  BY <1>1
<1>3. PICK u : u = b \o (d \o f)
  OBVIOUS
<1>4. Stream(x) = u
  BY <1>2, <1>3 DEF Stream
<1>5. /\ u \in Seq(Words) /\ Len(u) = Len(b) + Len(d) + Len(f)
      /\ Len(b) \in Nat /\ Len(d) \in Nat /\ Len(f) \in Nat
  BY <1>3, StreamIs
<1>6. Len(rest) \in Nat /\ Len(u) \in Nat
  BY <1>1, <1>5, LenProperties
<1> QED BY <1>1, <1>2, <1>4, <1>5, <1>6 DEF Agrees

(* Some of the stream is taken from its front. *)
LEMMA TakeFront ==
  ASSUME NEW x, NEW y, NEW p \in Seq(Words), NEW rest \in Seq(Words),
         Ahead(x, p \o rest), Len(p) <= Len(Stream(x)),
         y.buf \in Seq(Words), y.down \in Seq(Words), y.flight \in Seq(Words),
         Stream(y) = Rest(Stream(x), Len(p)), Broken(x) => Broken(y)
  PROVE  Ahead(y, rest) /\ SubSeq(Stream(x), 1, Len(p)) = p
<1>1. PICK k \in Nat : k = Len(p)
  BY LenProperties
<1>2. PICK s : s = Stream(x)
  OBVIOUS
<1>3. s \in Seq(Words) /\ k <= Len(s) /\ Agrees(s, p \o rest)
  BY <1>1, <1>2, AheadIs DEF Ahead
<1>4. Agrees(Rest(s, k), rest) /\ SubSeq(s, 1, k) = p
  BY <1>1, <1>3, AgreesRest
<1>5. Len(Rest(s, k)) = Len(s) - k
  BY <1>3, RestIs
<1>6. Len(p \o rest) = k + Len(rest) /\ Len(rest) \in Nat
  BY <1>1, ConcatProperties, LenProperties
<1>7. Len(s) = k + Len(rest) \/ Broken(x)
  BY <1>2, <1>6 DEF Ahead
<1>8. Len(s) \in Nat
  BY <1>3, LenProperties
<1>9. Len(Rest(s, k)) = Len(rest) \/ Broken(y)
  BY <1>5, <1>6, <1>7, <1>8
<1>10. Stream(y) = Rest(s, k)
  BY <1>1, <1>2
<1> QED BY <1>1, <1>2, <1>4, <1>9, <1>10 DEF Ahead

(* It is taken from the buffer, ...                                        *)
LEMMA TakeBuffer ==
  ASSUME NEW x, NEW y, NEW p \in Seq(Words), NEW rest \in Seq(Words),
         Ahead(x, p \o rest), Len(p) <= Len(x.buf), y.buf = Rest(x.buf, Len(p)),
         y.down = x.down, y.flight = x.flight, Broken(x) => Broken(y)
  PROVE  Ahead(y, rest) /\ SubSeq(x.buf, 1, Len(p)) = p
<1>1. PICK k \in Nat : k = Len(p)
  BY LenProperties
<1>2. PICK b \in Seq(Words), d \in Seq(Words), f \in Seq(Words) :
        b = x.buf /\ d = x.down /\ f = x.flight
  BY AheadIs
<1>3. PICK z \in Seq(Words) : z = d \o f
  BY ConcatProperties
<1>4. k <= Len(b)
  BY <1>1, <1>2
<1>5. Rest(b, k) \o z = Rest(b \o z, k) /\ SubSeq(b, 1, k) = SubSeq(b \o z, 1, k)
  BY <1>4, RestConcat
<1>6. Stream(x) = b \o z /\ Stream(y) = Rest(b, k) \o z
  BY <1>1, <1>2, <1>3 DEF Stream
<1>7. y.buf \in Seq(Words) /\ y.down \in Seq(Words) /\ y.flight \in Seq(Words)
  BY <1>1, <1>2, <1>4, RestIs
<1>8. Len(p) <= Len(Stream(x))
  <2>1. Len(Stream(x)) = Len(b) + Len(d) + Len(f) /\ Len(b) \in Nat /\ Len(d) \in Nat
        /\ Len(f) \in Nat
    BY <1>2, AheadIs
  <2> QED BY <1>1, <1>4, <2>1
<1>9. Stream(y) = Rest(Stream(x), Len(p))
  BY <1>1, <1>5, <1>6
<1>10. Ahead(y, rest) /\ SubSeq(Stream(x), 1, Len(p)) = p
  BY <1>7, <1>8, <1>9, TakeFront
<1> QED BY <1>1, <1>2, <1>5, <1>6, <1>10

(* ... or, when that is empty, from the channel.                           *)
LEMMA TakeArrived ==
  ASSUME NEW x, NEW y, NEW p \in Seq(Words), NEW rest \in Seq(Words),
         Ahead(x, p \o rest), x.buf = <<>>, Len(p) <= Len(x.down),
         y.buf = <<>>, y.down = Rest(x.down, Len(p)), y.flight = x.flight,
         Broken(x) => Broken(y)
  PROVE  Ahead(y, rest) /\ SubSeq(x.down, 1, Len(p)) = p
<1>1. PICK k \in Nat : k = Len(p)
  BY LenProperties
<1>2. PICK d \in Seq(Words), f \in Seq(Words) : d = x.down /\ f = x.flight
  BY AheadIs
<1>4. k <= Len(d)
  BY <1>1, <1>2
<1>5. Rest(d, k) \o f = Rest(d \o f, k) /\ SubSeq(d, 1, k) = SubSeq(d \o f, 1, k)
  BY <1>4, RestConcat
<1>6. Rest(d, k) \in Seq(Words) /\ d \o f \in Seq(Words) /\ Rest(d, k) \o f \in Seq(Words)
  BY <1>4, RestIs, ConcatProperties
<1>7. Stream(x) = d \o f /\ Stream(y) = Rest(d, k) \o f
  BY <1>1, <1>2, <1>6, ConcatEmptySeq DEF Stream
<1>8. y.buf \in Seq(Words) /\ y.down \in Seq(Words) /\ y.flight \in Seq(Words)
  BY <1>1, <1>2, <1>6, EmptySeq
<1>9. Len(p) <= Len(Stream(x))
  <2>1. Len(d \o f) = Len(d) + Len(f) /\ Len(d) \in Nat /\ Len(f) \in Nat
    BY ConcatProperties, LenProperties
  <2> QED BY <1>1, <1>4, <1>7, <2>1
<1>10. Stream(y) = Rest(Stream(x), Len(p))
  BY <1>1, <1>5, <1>7
<1>11. Ahead(y, rest) /\ SubSeq(Stream(x), 1, Len(p)) = p
  BY <1>8, <1>9, <1>10, TakeFront
<1> QED BY <1>1, <1>2, <1>5, <1>7, <1>11

(* The parts of the stream change, but not the stream.                     *)
LEMMA AheadSame ==
  ASSUME NEW x, NEW y, NEW rest, Ahead(x, rest),
         y.buf \in Seq(Words), y.down \in Seq(Words), y.flight \in Seq(Words),
         Stream(y) = Stream(x), Broken(x) => Broken(y)
  PROVE  Ahead(y, rest)
BY DEF Ahead

LEMMA AheadOfNothing ==
  ASSUME NEW x, Ahead(x, <<>>)
  PROVE  Silent(x)
<1>1. PICK b \in Seq(Words), d \in Seq(Words), f \in Seq(Words) :
        b = x.buf /\ d = x.down /\ f = x.flight
  BY AheadIs
<1>2. Len(Stream(x)) <= Len(<<>>) /\ Len(Stream(x)) = Len(b) + Len(d) + Len(f)
      /\ Len(b) \in Nat /\ Len(d) \in Nat /\ Len(f) \in Nat
  BY <1>1, AheadIs
<1>3. Len(b) = 0 /\ Len(d) = 0 /\ Len(f) = 0
  BY <1>2
<1>4. b = <<>> /\ d = <<>> /\ f = <<>>
  BY <1>3, EmptySeq
<1> QED BY <1>1, <1>4 DEF Silent

(* receive_line reads what has arrived.                                    *)
LEMMA ReadAhead ==
  ASSUME NEW x, NEW y, NEW rest, Ahead(x, rest),
         y.buf = x.buf \o x.down, y.down = <<>>, y.flight = x.flight,
         Broken(x) => Broken(y)
  PROVE  Ahead(y, rest)
<1>1. PICK b \in Seq(Words), d \in Seq(Words), f \in Seq(Words) :
        b = x.buf /\ d = x.down /\ f = x.flight
  BY AheadIs
<1>2. b \o d \in Seq(Words) /\ <<>> \o f = f /\ <<>> \in Seq(Words)
  BY ConcatProperties, ConcatEmptySeq, EmptySeq
<1>3. (b \o d) \o f = b \o (d \o f)
  BY ConcatAssociative
<1>4. Stream(y) = (b \o d) \o (<<>> \o f)
  BY <1>1 DEF Stream
<1>5. Stream(x) = b \o (d \o f)
  BY <1>1 DEF Stream
<1>6. Stream(y) = Stream(x)
  BY <1>2, <1>3, <1>4, <1>5
<1> QED BY <1>1, <1>2, <1>6, AheadSame

(* The network delivers a unit, ...                                        *)
LEMMA DeliverAhead ==
  ASSUME NEW x, NEW y, NEW rest, Ahead(x, rest), x.flight # <<>>,
         y.buf = x.buf, y.down = Append(x.down, Head(x.flight)),
         y.flight = Tail(x.flight)
  PROVE  Ahead(y, rest)
<1>1. PICK b \in Seq(Words), d \in Seq(Words), f \in Seq(Words) :
        b = x.buf /\ d = x.down /\ f = x.flight
  BY AheadIs
<1>2. PICK u \in Words, g \in Seq(Words) : u = Head(f) /\ g = Tail(f)
  BY <1>1, HeadTailProperties
<1>3. f = <<u>> \o g
  <2>1. Len(f) \in Nat \ {0}
    BY <1>1, EmptySeq
  <2>2. PICK n \in Nat : n = Len(f)
    BY <2>1
  <2>3. 1 \in 1..Len(f) /\ Len(f) \in 1..Len(f)
    BY <2>1
  <2>4. SubSeq(f, 1, Len(f)) = <<f[1]>> \o SubSeq(f, 1 + 1, Len(f))
    BY <2>3, SubSeqRecursiveFirst
  <2>5. SubSeq(f, 1, Len(f)) = f
    BY SubSeqFull
  <2>6. Tail(f) = SubSeq(f, 2, Len(f)) /\ 1 + 1 = 2
    BY <1>1, TailIsSubSeq
  <2>7. Head(f) = f[1]
    BY <1>1
  <2> QED BY <1>2, <2>4, <2>5, <2>6, <2>7
<1>4. Append(d, u) = d \o <<u>> /\ <<u>> \in Seq(Words)
  OBVIOUS
<1>5. d \o <<u>> \in Seq(Words) /\ (d \o <<u>>) \o g = d \o (<<u>> \o g)
  BY <1>4, ConcatProperties, ConcatAssociative
<1>6. Stream(y) = Stream(x)
  BY <1>1, <1>2, <1>3, <1>4, <1>5 DEF Stream
<1>7. ~Broken(x)
  BY DEF Broken
<1> QED BY <1>1, <1>2, <1>4, <1>5, <1>6, <1>7, AheadSame

(* ... or loses all that has not arrived.                                  *)
LEMMA BreakAhead ==
  ASSUME NEW x, NEW y, NEW rest, Ahead(x, rest),
         y.buf = x.buf, y.down = x.down, y.flight = <<>>, Broken(y)
  PROVE  Ahead(y, rest)
<1>1. PICK b \in Seq(Words), d \in Seq(Words), f \in Seq(Words) :
        b = x.buf /\ d = x.down /\ f = x.flight
  BY AheadIs
<1>2. b \o d \in Seq(Words) /\ d \o <<>> = d /\ <<>> \in Seq(Words)
  BY ConcatProperties, ConcatEmptySeq, EmptySeq
<1>3. (b \o d) \o f = b \o (d \o f)
  BY ConcatAssociative
<1>4. PICK s \in Seq(Words) : s = b \o d
  BY <1>2
<1>5. Stream(y) = s /\ Stream(x) = s \o f
  BY <1>1, <1>2, <1>3, <1>4 DEF Stream
<1>6. PICK t \in Seq(Words), m \in Nat, n \in Nat :
        t = s \o f /\ m = Len(s) /\ n = Len(f)
  BY ConcatProperties, LenProperties
<1>7. Len(t) = m + n /\ \A i \in 1..(m + n) : t[i] = IF i <= m THEN s[i] ELSE f[i - m]
  BY <1>6, ConcatProperties
<1>8. \A i \in 1..m : t[i] = s[i]
  BY <1>7
<1>9. rest \in Seq(Words) /\ Agrees(t, rest)
  BY <1>5, <1>6 DEF Ahead
<1>10. Len(rest) \in Nat
  BY <1>9, LenProperties
<1>11. Agrees(s, rest)
  BY <1>6, <1>7, <1>8, <1>9, <1>10 DEF Agrees
<1> QED BY <1>1, <1>2, <1>5, <1>9, <1>11 DEF Ahead

(* The server sends all of it.                                             *)
LEMMA SendAhead ==
  ASSUME NEW x, NEW y, NEW rest \in Seq(Words), Silent(x),
         y.buf = x.buf, y.down = x.down, y.flight = x.flight \o rest
  PROVE  Ahead(y, rest)
<1>1. <<>> \in Seq(Words) /\ <<>> \o rest = rest
  BY ConcatEmptySeq, EmptySeq
<1>2. y.buf = <<>> /\ y.down = <<>> /\ y.flight = rest
  BY <1>1 DEF Silent
<1>3. Stream(y) = rest
  BY <1>1, <1>2 DEF Stream
<1>4. Agrees(rest, rest)
  <2>1. Len(rest) \in Nat
    BY LenProperties
  <2> QED BY <2>1 DEF Agrees
<1> QED BY <1>1, <1>2, <1>3, <1>4 DEF Ahead

-----------------------------------------------------------------------------
(* Lines.  What is in the buffer is the beginning of what is to come.      *)
LEMMA BufferAhead ==
  ASSUME NEW x, NEW rest, Ahead(x, rest)
  PROVE  /\ DOMAIN x.buf = 1..Len(x.buf) /\ Len(x.buf) \in Nat
         /\ Len(x.buf) <= Len(rest) /\ Len(rest) \in Nat
         /\ \A i \in 1..Len(x.buf) : x.buf[i] = rest[i]
<1>1. PICK b \in Seq(Words), d \in Seq(Words), f \in Seq(Words) :
        b = x.buf /\ d = x.down /\ f = x.flight
  BY AheadIs
<1>2. PICK z \in Seq(Words) : z = d \o f
  BY ConcatProperties
<1>3. PICK m \in Nat, n \in Nat : m = Len(b) /\ n = Len(z)
  BY LenProperties
<1>4. PICK s : s = b \o z
  OBVIOUS
<1>5. Len(s) = m + n /\ \A i \in 1..(m + n) : s[i] = IF i <= m THEN b[i] ELSE z[i - m]
  BY <1>3, <1>4, ConcatProperties
<1>6. Agrees(s, rest) /\ Len(rest) \in Nat
  BY <1>1, <1>2, <1>4, AheadIs DEF Ahead, Stream
<1>7. m <= Len(rest) /\ \A i \in 1..m : b[i] = rest[i]
  BY <1>5, <1>6 DEF Agrees
<1>8. DOMAIN b = 1..m
  BY <1>3, LenProperties
<1> QED BY <1>1, <1>3, <1>6, <1>7, <1>8

LEMMA NLIsWord ==
  ASSUME NEW r \in Req \cup Put
  PROVE  NL(r) \in Words /\ IsNL(NL(r))
BY DEF NL, Unit, Words, Value, IsNL

LEMMA FirstLine ==
  ASSUME NEW c, NEW n \in Nat, LineEnds(c) \subseteq Nat, n \in LineEnds(c),
         \A i \in LineEnds(c) : n <= i
  PROVE  LineEnd(c) = n
<1>1. PICK E : E = LineEnds(c)
  OBVIOUS
<1>2. n \in E /\ (\A j \in E : n <= j) /\ E \subseteq Nat
  BY <1>1
<1>3. PICK l : l = CHOOSE i \in E : \A j \in E : i <= j
  OBVIOUS
<1>4. l \in E /\ \A j \in E : l <= j
  BY <1>2, <1>3
<1>5. LineEnd(c) = l
  BY <1>1, <1>3 DEF LineEnd
<1>6. n <= l /\ l <= n /\ l \in Nat
  BY <1>2, <1>4
<1> QED BY <1>5, <1>6

(* A line of one unit, taken out of the buffer; ...                        *)
LEMMA LineOfOne ==
  ASSUME NEW c, NEW x, x = conn[c], NEW r \in Req \cup Put, NEW u \in Words, ~IsNL(u),
         NEW rest \in Seq(Words), Ahead(x, <<u, NL(r)>> \o rest), LineEnds(c) # {},
         NEW y, y.buf = Rest(x.buf, LineEnd(c)), y.down = x.down, y.flight = x.flight,
         Broken(x) => Broken(y)
  PROVE  Line(c) = <<u>> /\ Ahead(y, rest)
<1>1. PICK p : p = <<u, NL(r)>>
  OBVIOUS
<1>2. /\ p \in Seq(Words) /\ Len(p) = 2 /\ p[1] = u /\ p[2] = NL(r)
      /\ IsNL(p[2]) /\ ~IsNL(p[1])
  BY <1>1, NLIsWord
<1>3. PICK w : w = p \o rest
  OBVIOUS
<1>4. /\ Len(w) = 2 + Len(rest) /\ Len(rest) \in Nat
      /\ w[1] = p[1] /\ w[2] = p[2]
  <2>1. /\ Len(w) = Len(p) + Len(rest)
        /\ \A i \in 1..(Len(p) + Len(rest)) :
             w[i] = IF i <= Len(p) THEN p[i] ELSE rest[i - Len(p)]
    BY <1>2, <1>3, ConcatProperties
  <2>2. Len(rest) \in Nat
    BY LenProperties
  <2> QED BY <1>2, <2>1, <2>2
<1>5. PICK b \in Seq(Words), n \in Nat : b = x.buf /\ n = Len(b)
  BY AheadIs
<1>6. DOMAIN b = 1..n /\ \A i \in 1..n : b[i] = w[i]
  <2>1. Ahead(x, w)
    BY <1>1, <1>3
  <2>2. /\ DOMAIN x.buf = 1..Len(x.buf)
        /\ \A i \in 1..Len(x.buf) : x.buf[i] = w[i]
    BY <2>1, BufferAhead
  <2> QED BY <1>5, <2>2
<1>7. LineEnds(c) = {i \in 1..n : IsNL(b[i])}
  BY <1>5, <1>6 DEF LineEnds
<1>8. /\ 2 \in LineEnds(c) /\ LineEnds(c) \subseteq Nat /\ n >= 2
      /\ \A i \in LineEnds(c) : 2 <= i
  <2>1. \A i \in LineEnds(c) : i \in 1..n /\ i # 1
    BY <1>2, <1>4, <1>6, <1>7
  <2>2. n >= 2
    BY <2>1
  <2>3. 2 \in 1..n /\ IsNL(b[2])
    BY <1>2, <1>4, <1>6, <2>2
  <2> QED BY <1>7, <2>1, <2>2, <2>3
<1>9. LineEnd(c) = 2
  BY <1>8, FirstLine
<1>10. Line(c) = <<u>>
  <2>1. Line(c) = SubSeq(b, 1, 1)
    BY <1>5, <1>9 DEF Line
  <2>2. b[1] = u
    BY <1>2, <1>4, <1>6, <1>8
  <2>3. PICK k \in Nat : k = 1
    OBVIOUS
  <2>4. k <= Len(b)
    BY <1>5, <1>8, <2>3
  <2>5. PICK t : t = SubSeq(b, 1, k)
    OBVIOUS
  <2>6. t \in Seq(Words) /\ Len(t) = k /\ \A i \in 1..k : t[i] = b[i]
    BY <2>4, <2>5, RestIs
  <2>7. t = <<u>>
    BY <2>2, <2>3, <2>6
  <2> QED BY <2>1, <2>3, <2>5, <2>7
<1>11. Ahead(y, rest)
  <2>1. Len(p) <= Len(x.buf) /\ y.buf = Rest(x.buf, Len(p))
    BY <1>2, <1>5, <1>8, <1>9
  <2> QED BY <1>1, <1>2, <2>1, TakeBuffer
<1> QED BY <1>10, <1>11

(* ... an empty line.                                                      *)
LEMMA LineOfNone ==
  ASSUME NEW c, NEW x, x = conn[c], NEW r \in Req,
         NEW rest \in Seq(Words), Ahead(x, <<NL(r)>> \o rest), LineEnds(c) # {},
         NEW y, y.buf = Rest(x.buf, LineEnd(c)), y.down = x.down, y.flight = x.flight,
         Broken(x) => Broken(y)
  PROVE  Line(c) = <<>> /\ Ahead(y, rest)
<1>1. PICK p : p = <<NL(r)>>
  OBVIOUS
<1>2. p \in Seq(Words) /\ Len(p) = 1 /\ p[1] = NL(r) /\ IsNL(p[1])
  BY <1>1, NLIsWord
<1>3. PICK w : w = p \o rest
  OBVIOUS
<1>4. Len(w) = 1 + Len(rest) /\ Len(rest) \in Nat /\ w[1] = p[1]
  <2>1. /\ Len(w) = Len(p) + Len(rest)
        /\ \A i \in 1..(Len(p) + Len(rest)) :
             w[i] = IF i <= Len(p) THEN p[i] ELSE rest[i - Len(p)]
    BY <1>2, <1>3, ConcatProperties
  <2>2. Len(rest) \in Nat
    BY LenProperties
  <2> QED BY <1>2, <2>1, <2>2
<1>5. PICK b \in Seq(Words), n \in Nat : b = x.buf /\ n = Len(b)
  BY AheadIs
<1>6. DOMAIN b = 1..n /\ \A i \in 1..n : b[i] = w[i]
  <2>1. Ahead(x, w)
    BY <1>1, <1>3
  <2>2. /\ DOMAIN x.buf = 1..Len(x.buf)
        /\ \A i \in 1..Len(x.buf) : x.buf[i] = w[i]
    BY <2>1, BufferAhead
  <2> QED BY <1>5, <2>2
<1>7. LineEnds(c) = {i \in 1..n : IsNL(b[i])}
  BY <1>5, <1>6 DEF LineEnds
<1>8. /\ 1 \in LineEnds(c) /\ LineEnds(c) \subseteq Nat /\ n >= 1
      /\ \A i \in LineEnds(c) : 1 <= i
  <2>1. \A i \in LineEnds(c) : i \in 1..n
    BY <1>7
  <2>2. n >= 1
    BY <2>1
  <2>3. 1 \in 1..n /\ IsNL(b[1])
    BY <1>2, <1>4, <1>6, <2>2
  <2> QED BY <1>7, <2>1, <2>2, <2>3
<1>9. LineEnd(c) = 1
  BY <1>8, FirstLine
<1>10. Line(c) = <<>>
  BY <1>9, SubSeqEmpty DEF Line
<1>11. Ahead(y, rest)
  <2>1. Len(p) <= Len(x.buf) /\ y.buf = Rest(x.buf, Len(p))
    BY <1>2, <1>5, <1>8, <1>9
  <2> QED BY <1>1, <1>2, <2>1, TakeBuffer
<1> QED BY <1>10, <1>11

-----------------------------------------------------------------------------
(***************************************************************************)
(* Responses.                                                              *)
(***************************************************************************)
LEMMA WordsAre ==
  ASSUME NEW r \in Req
  PROVE  /\ \A k \in {"request", "header", "status", "chunk", "body"}, v \in Value :
              Unit(k, r, v) \in Words /\ ~IsNL(Unit(k, r, v))
         /\ \A n \in Nat : n \in Value
         /\ \A n \in Name, v \in Nat \cup {"close", "chunked"} : <<n, v>> \in Value
BY DEF Unit, Words, Value, IsNL

LEMMA PieceWords ==
  ASSUME NEW r \in Req, NEW m \in Nat, NEW n \in Nat, m <= n
  PROVE  Piece(r, m, n) \in Seq(Words) /\ Len(Piece(r, m, n)) = n - m
<1>1. \A i \in Nat : Unit("body", r, i) \in Words
  BY WordsAre
<1>2. Units(r) \subseteq Words
  BY <1>1 DEF Units
<1>3. Piece(r, m, n) \in Seq(Units(r)) /\ Len(Piece(r, m, n)) = n - m
  BY PieceIs
<1> QED BY <1>2, <1>3, SeqMonotonic

LEMMA LinesAre ==
  ASSUME NEW r \in Req
  PROVE  /\ \A k \in {"request", "header", "status", "chunk", "body"}, v \in Value :
              <<Unit(k, r, v), NL(r)>> \in Seq(Words)
         /\ <<NL(r)>> \in Seq(Words)
         /\ \A n \in Name, v \in Nat \cup {"close", "chunked"} :
              Header(r, n, v) \in Seq(Words)
         /\ \A n \in Nat : Status(r, n) \in Seq(Words)
<1>1. \A k \in {"request", "header", "status", "chunk", "body"}, v \in Value :
        <<Unit(k, r, v), NL(r)>> \in Seq(Words)
  BY WordsAre, NLIsWord
<1>2. <<NL(r)>> \in Seq(Words)
  BY NLIsWord
<1>3. ASSUME NEW n \in Name, NEW v \in Nat \cup {"close", "chunked"}
      PROVE  Header(r, n, v) \in Seq(Words)
  BY <1>1, WordsAre DEF Header
<1>4. ASSUME NEW n \in Nat
      PROVE  Status(r, n) \in Seq(Words)
  BY <1>1, WordsAre DEF Status
<1> QED BY <1>1, <1>2, <1>3, <1>4

LEMMA ReplyIs ==
  ASSUME NEW a \in Replies
  PROVE  /\ a.framing \in Framing /\ a.n \in Nat
         /\ a.close \in BOOLEAN /\ a.interim \in BOOLEAN
         /\ a.framing = "none" => a.n = 0
BY RepliesAssumption

LEMMA ChunkWords ==
  ASSUME NEW r \in Req, NEW a \in Replies
  PROVE  /\ TrailerEnd(r, a) \in Seq(Words) /\ LastChunk(r, a) \in Seq(Words)
         /\ \A m \in Nat, k \in Nat, rest \in Seq(Words) :
              ChunkThen(r, m, k, rest) \in Seq(Words)
         /\ \A m \in 0..a.n : SecondChunk(r, a, m) \in Seq(Words)
<1>1. /\ Header(r, "connection", "close") \in Seq(Words) /\ <<NL(r)>> \in Seq(Words)
      /\ \A k \in Nat : <<Unit("chunk", r, k), NL(r)>> \in Seq(Words)
  BY LinesAre, WordsAre DEF Name
<1>2. TrailerEnd(r, a) \in Seq(Words)
  BY <1>1, ConcatProperties DEF TrailerEnd
<1>3. LastChunk(r, a) \in Seq(Words)
  BY <1>1, <1>2, ConcatProperties DEF LastChunk
<1>4. ASSUME NEW m \in Nat, NEW k \in Nat, NEW rest \in Seq(Words)
      PROVE  ChunkThen(r, m, k, rest) \in Seq(Words)
  <2>1. Piece(r, m, m + k) \in Seq(Words)
    BY PieceWords
  <2>2. PICK l \in Seq(Words), p \in Seq(Words), n \in Seq(Words) :
          l = <<Unit("chunk", r, k), NL(r)>> /\ p = Piece(r, m, m + k) /\ n = <<NL(r)>>
    BY <1>1, <2>1
  <2>3. n \o rest \in Seq(Words)
    BY ConcatProperties
  <2>4. p \o (n \o rest) \in Seq(Words)
    BY <2>3, ConcatProperties
  <2>5. l \o (p \o (n \o rest)) \in Seq(Words)
    BY <2>4, ConcatProperties
  <2> QED BY <2>2, <2>5 DEF ChunkThen
<1>5. ASSUME NEW m \in 0..a.n
      PROVE  SecondChunk(r, a, m) \in Seq(Words)
  <2>1. m \in Nat /\ a.n - m \in Nat
    BY ReplyIs
  <2> QED BY <1>3, <1>4, <2>1 DEF SecondChunk
<1> QED BY <1>2, <1>3, <1>4, <1>5

LEMMA BodyWords ==
  ASSUME NEW r \in Req, NEW a \in Replies, NEW b, BodyPart(r, a, b)
  PROVE  b \in Seq(Words)
<1>1. a.n \in Nat /\ (1 < a.n => 1 \in 0..a.n)
  BY ReplyIs
<1>2. Piece(r, 0, a.n) \in Seq(Words)
  <2>1. PICK z \in Nat, n \in Nat : z = 0 /\ n = a.n
    BY <1>1
  <2>2. z <= n
    BY <2>1
  <2>3. Piece(r, z, n) \in Seq(Words)
    BY <2>2, PieceWords
  <2> QED BY <2>1, <2>3
<1>3. 0 \in 0..a.n /\ LastChunk(r, a) \in Seq(Words)
  BY ReplyIs, ChunkWords
<1>4. SecondChunk(r, a, 0) \in Seq(Words)
  BY <1>3, ChunkWords
<1>5. 1 < a.n => ChunkThen(r, 0, 1, SecondChunk(r, a, 1)) \in Seq(Words)
  <2>1. 1 < a.n => SecondChunk(r, a, 1) \in Seq(Words)
    <3>1. \A m \in 0..a.n : SecondChunk(r, a, m) \in Seq(Words)
      BY ChunkWords
    <3> QED BY <1>1, <3>1
  <2> QED BY <2>1, ChunkWords
<1> QED BY <1>2, <1>3, <1>4, <1>5 DEF BodyPart

LEMMA HeadWords ==
  ASSUME NEW r \in Req, NEW a \in Replies, NEW b \in Seq(Words)
  PROVE  /\ EndOf(r, b) \in Seq(Words) /\ FrameThen(r, a, b) \in Seq(Words)
         /\ CloseThen(r, a, b) \in Seq(Words) /\ Final(r, a, b) \in Seq(Words)
         /\ Framed(a) => FrameHeader(r, a) \in Seq(Words)
<1>1. EndOf(r, b) \in Seq(Words)
  BY LinesAre, ConcatProperties DEF EndOf
<1>2. FrameHeader(r, a) \in Seq(Words) /\ Header(r, "connection", "close") \in Seq(Words)
  BY LinesAre, ReplyIs DEF FrameHeader, Name
<1>3. FrameThen(r, a, b) \in Seq(Words)
  BY <1>1, <1>2, ConcatProperties DEF FrameThen
<1>4. CloseThen(r, a, b) \in Seq(Words)
  BY <1>2, <1>3, ConcatProperties DEF CloseThen
<1>5. Status(r, Code(a)) \in Seq(Words)
  BY LinesAre DEF Code
<1>6. Final(r, a, b) \in Seq(Words)
  BY <1>4, <1>5, ConcatProperties DEF Final
<1> QED BY <1>1, <1>2, <1>3, <1>4, <1>6

JoinsThree(s, t, u) == (s \o t) \o u = s \o (t \o u)
JoinsFour(s, t, u, v) == ((s \o t) \o u) \o v = s \o (t \o (u \o v))

LEMMA JoinThree == \A s, t, u \in Seq(Words) : JoinsThree(s, t, u)
BY ConcatAssociative DEF JoinsThree

LEMMA JoinFour == \A s, t, u, v \in Seq(Words) : JoinsFour(s, t, u, v)
<1>1. SUFFICES ASSUME NEW s \in Seq(Words), NEW t \in Seq(Words), NEW u \in Seq(Words),
                      NEW v \in Seq(Words)
               PROVE  JoinsFour(s, t, u, v)
  OBVIOUS
<1>2. s \o t \in Seq(Words) /\ u \o v \in Seq(Words)
  BY ConcatProperties
<1>3. JoinsThree(s \o t, u, v)
  BY <1>2, JoinThree
<1>4. JoinsThree(s, t, u \o v)
  BY <1>2, JoinThree
<1> QED BY <1>3, <1>4 DEF JoinsThree, JoinsFour

LEMMA ChunkIs ==
  ASSUME NEW r \in Req, NEW i \in Nat, NEW n \in Nat, NEW k \in Nat, i = k + 1
  PROVE  Chunk(r, i, n) = <<Unit("chunk", r, n), NL(r)>> \o Piece(r, k, k + n)
<1>1. PICK z \in Nat, e \in Nat : z = 0 /\ e = i + n
  OBVIOUS
<1>2. Body(r, e) = Piece(r, z, e)
  BY <1>1, BodyPiece
<1>3. PICK h \in Nat : h = i + n - 1 /\ h = k + n
  OBVIOUS
<1>4. Within(z, e, i, h, k, h)
  BY <1>1, <1>3 DEF Within
<1>5. SubSeq(Piece(r, z, e), i, h) = Piece(r, k, h)
  BY <1>4, PieceSub
<1> QED BY <1>1, <1>2, <1>3, <1>5 DEF Chunk

(* One chunk, the end of its line and what follows.                        *)
LEMMA ChunkIsThen ==
  ASSUME NEW r \in Req, NEW i \in Nat, NEW n \in Nat, NEW k \in Nat, i = k + 1,
         NEW rest \in Seq(Words)
  PROVE  /\ Chunk(r, i, n) \in Seq(Words)
         /\ (Chunk(r, i, n) \o <<NL(r)>>) \o rest = ChunkThen(r, k, n, rest)
<1>1. PICK l \in Seq(Words), p \in Seq(Words), e \in Seq(Words) :
        l = <<Unit("chunk", r, n), NL(r)>> /\ p = Piece(r, k, k + n) /\ e = <<NL(r)>>
  <2>1. <<Unit("chunk", r, n), NL(r)>> \in Seq(Words) /\ <<NL(r)>> \in Seq(Words)
    BY LinesAre, WordsAre
  <2>2. PICK h \in Nat : h = k + n /\ k <= h
    OBVIOUS
  <2>3. Piece(r, k, h) \in Seq(Words)
    BY <2>2, PieceWords
  <2> QED BY <2>1, <2>2, <2>3
<1>2. Chunk(r, i, n) = l \o p
  BY <1>1, ChunkIs
<1>3. l \o p \in Seq(Words)
  BY ConcatProperties
<1>4. JoinsFour(l, p, e, rest)
  BY JoinFour
<1> QED BY <1>1, <1>2, <1>3, <1>4 DEF ChunkThen, JoinsFour

LEMMA ChunksAre ==
  ASSUME NEW r \in Req, NEW a \in Replies, a.framing = "chunked", a.n # 0
  PROVE  /\ Chunks(r, a.n) \in Seq(Words)
         /\ BodyPart(r, a, Chunks(r, a.n) \o LastChunk(r, a))
<1>1. PICK n \in Nat : n = a.n /\ n # 0
  BY ReplyIs
<1>2. PICK f \in Seq(Words), e \in Seq(Words) : f = LastChunk(r, a) /\ e = <<NL(r)>>
  BY ChunkWords, LinesAre
<1>3. \A rest \in Seq(Words) :
        /\ Chunk(r, 1, 1) \in Seq(Words)
        /\ (Chunk(r, 1, 1) \o e) \o rest = ChunkThen(r, 0, 1, rest)
  <2>1. PICK z \in Nat, i \in Nat : z = 0 /\ i = 1
    OBVIOUS
  <2>2. i = z + 1
    BY <2>1
  <2>3. \A rest \in Seq(Words) :
          /\ Chunk(r, i, i) \in Seq(Words)
          /\ (Chunk(r, i, i) \o <<NL(r)>>) \o rest = ChunkThen(r, z, i, rest)
    BY <2>2, ChunkIsThen, SMTT(20)
  <2> QED BY <1>2, <2>1, <2>3
<1>4. PICK x \in Seq(Words) : x = Chunk(r, 1, 1)
  BY <1>2, <1>3
<1>5. CASE n = 1
  <2>1. Chunks(r, n) = x \o e
    BY <1>2, <1>4, <1>5 DEF Chunks
  <2>2. x \o e \in Seq(Words)
    BY ConcatProperties
  <2>3. (x \o e) \o f = ChunkThen(r, 0, 1, f)
    BY <1>3, <1>4
  <2>4. SecondChunk(r, a, 0) = ChunkThen(r, 0, 1, f)
    BY <1>1, <1>2, <1>5 DEF SecondChunk
  <2>5. /\ Chunks(r, n) \in Seq(Words)
        /\ Chunks(r, n) \o f = SecondChunk(r, a, 0)
    BY <2>1, <2>2, <2>3, <2>4, Zenon
  <2>6. ~(1 < n)
    BY <1>5
  <2> QED BY <1>1, <1>2, <2>5, <2>6 DEF BodyPart
<1>6. CASE n > 1
  <2>1. PICK i \in Nat, m \in Nat, k \in Nat : i = 2 /\ m = n - 1 /\ k = 1
    BY <1>6
  <2>2. i = k + 1
    BY <2>1
  <2>3. /\ Chunk(r, i, m) \in Seq(Words)
        /\ (Chunk(r, i, m) \o <<NL(r)>>) \o f = ChunkThen(r, k, m, f)
    BY <2>2, ChunkIsThen, SMTT(20)
  <2>4. PICK y \in Seq(Words) : y = Chunk(r, i, m)
    BY <2>3
  <2>5. Chunks(r, n) = ((x \o e) \o y) \o e
    BY <1>2, <1>4, <1>6, <2>1, <2>4 DEF Chunks
  <2>6. PICK s \in Seq(Words) : s = x \o e
    BY ConcatProperties
  <2>7. s \o y \in Seq(Words) /\ y \o e \in Seq(Words)
    BY ConcatProperties
  <2>8. (s \o y) \o e \in Seq(Words)
    BY <2>7, ConcatProperties
  <2>9. ((s \o y) \o e) \o f = s \o ((y \o e) \o f)
    <3>1. JoinsFour(s, y, e, f)
      BY JoinFour
    <3>2. JoinsThree(y, e, f)
      BY JoinThree
    <3> QED BY <3>1, <3>2 DEF JoinsThree, JoinsFour
  <2>10. (y \o e) \o f = SecondChunk(r, a, 1)
    BY <1>1, <1>2, <2>1, <2>3, <2>4 DEF SecondChunk
  <2>11. SecondChunk(r, a, 1) \in Seq(Words)
    BY <2>7, <2>10, ConcatProperties
  <2>12. s \o SecondChunk(r, a, 1) = ChunkThen(r, 0, 1, SecondChunk(r, a, 1))
    BY <1>3, <1>4, <2>6, <2>11
  <2>13. Chunks(r, n) \o f = ChunkThen(r, 0, 1, SecondChunk(r, a, 1))
    BY <2>5, <2>6, <2>9, <2>10, <2>12
  <2> QED BY <1>1, <1>2, <1>6, <2>5, <2>6, <2>8, <2>13 DEF BodyPart
<1> QED BY <1>1, <1>5, <1>6
(* From the end of the headers on.                                         *)
FrameOf(r, a) ==
  CASE a.framing = "length"  -> Header(r, "content-length", a.n)
                                \o <<NL(r)>> \o Body(r, a.n)
    [] a.framing = "chunked" -> Header(r, "transfer-encoding", "chunked")
                                \o <<NL(r)>>
                                \o (IF a.n = 0 THEN <<>> ELSE Chunks(r, a.n))
                                \o <<Unit("chunk", r, 0), NL(r)>>
                                \o (IF a.close THEN Header(r, "connection", "close")
                                               ELSE <<>>)
                                \o <<NL(r)>>
    [] OTHER                 -> <<NL(r)>> \o Body(r, a.n)

LEMMA BodyIs ==
  ASSUME NEW r \in Req, NEW a \in Replies
  PROVE  Body(r, a.n) = Piece(r, 0, a.n) /\ Piece(r, 0, a.n) \in Seq(Words)
<1>1. PICK z \in Nat, n \in Nat : z = 0 /\ n = a.n
  BY ReplyIs
<1>2. Body(r, n) = Piece(r, z, n)
  BY <1>1, BodyPiece
<1>3. z <= n
  BY <1>1
<1>4. Piece(r, z, n) \in Seq(Words)
  BY <1>3, PieceWords
<1> QED BY <1>1, <1>2, <1>4

LEMMA ChunkedIs ==
  ASSUME NEW r \in Req, NEW a \in Replies, a.framing = "chunked"
  PROVE  \E b \in Seq(Words) : BodyPart(r, a, b) /\ FrameOf(r, a) = FrameThen(r, a, b)
<1>1. PICK h \in Seq(Words), e \in Seq(Words), l \in Seq(Words), t \in Seq(Words) :
        /\ h = Header(r, "transfer-encoding", "chunked") /\ e = <<NL(r)>>
        /\ l = <<Unit("chunk", r, 0), NL(r)>>
        /\ t = IF a.close THEN Header(r, "connection", "close") ELSE <<>>
  <2>1. /\ Header(r, "transfer-encoding", "chunked") \in Seq(Words)
        /\ Header(r, "connection", "close") \in Seq(Words) /\ <<>> \in Seq(Words)
        /\ <<NL(r)>> \in Seq(Words) /\ <<Unit("chunk", r, 0), NL(r)>> \in Seq(Words)
    BY LinesAre, WordsAre, EmptySeq DEF Name
  <2> QED BY <2>1
<1>2. PICK x \in Seq(Words) : x = IF a.n = 0 THEN <<>> ELSE Chunks(r, a.n)
  BY ChunksAre, EmptySeq
<1>3. PICK L \in Seq(Words) : L = LastChunk(r, a)
  BY ChunkWords
<1>4. FrameOf(r, a) = ((((h \o e) \o x) \o l) \o t) \o e
  BY <1>1, <1>2 DEF FrameOf
<1>5. t \o e = TrailerEnd(r, a)
  <2>1. <<>> \o e = e
    BY ConcatEmptySeq
  <2>2. CASE a.close
    BY <1>1, <2>2 DEF TrailerEnd
  <2>3. CASE ~a.close
    BY <1>1, <2>1, <2>3 DEF TrailerEnd
  <2> QED BY <2>2, <2>3
<1>6. l \o (t \o e) = L
  BY <1>1, <1>3, <1>5 DEF LastChunk
<1>7. PICK g \in Seq(Words) : g = (h \o e) \o x
  <2>1. h \o e \in Seq(Words)
    BY ConcatProperties
  <2>2. (h \o e) \o x \in Seq(Words)
    BY <2>1, ConcatProperties
  <2> QED BY <2>2
<1>8. JoinsFour(g, l, t, e)
  BY JoinFour
<1>9. ((g \o l) \o t) \o e = g \o L
  BY <1>6, <1>8 DEF JoinsFour
<1>10. JoinsFour(h, e, x, L)
  BY JoinFour
<1>11. g \o L = h \o (e \o (x \o L))
  BY <1>7, <1>10 DEF JoinsFour
<1>12. PICK b \in Seq(Words) : b = x \o L
  BY ConcatProperties
<1>13. BodyPart(r, a, b)
  <2>1. CASE a.n = 0
    <3>1. b = LastChunk(r, a)
      BY <1>2, <1>3, <1>12, <2>1, ConcatEmptySeq
    <3> QED BY <2>1, <3>1 DEF BodyPart
  <2>2. CASE a.n # 0
    <3>1. b = Chunks(r, a.n) \o LastChunk(r, a)
      BY <1>2, <1>3, <1>12, <2>2
    <3> QED BY <2>2, <3>1, ChunksAre
  <2> QED BY <2>1, <2>2
<1>14. FrameThen(r, a, b) = h \o (e \o b)
  BY <1>1 DEF FrameThen, Framed, FrameHeader, EndOf
<1>15. FrameOf(r, a) = FrameThen(r, a, b)
  BY <1>4, <1>7, <1>9, <1>11, <1>12, <1>14
<1> QED BY <1>13, <1>15

LEMMA FrameIs ==
  ASSUME NEW r \in Req, NEW a \in Replies
  PROVE  \E b \in Seq(Words) : BodyPart(r, a, b) /\ FrameOf(r, a) = FrameThen(r, a, b)
<1>1. CASE a.framing = "chunked"
  BY <1>1, ChunkedIs
<1>2. CASE a.framing # "chunked"
  <2>1. PICK b \in Seq(Words) : b = Piece(r, 0, a.n) /\ b = Body(r, a.n)
    BY BodyIs
  <2>2. BodyPart(r, a, b)
    BY <1>2, <2>1 DEF BodyPart
  <2>3. CASE a.framing = "length"
    <3>1. PICK h \in Seq(Words), e \in Seq(Words) :
            h = Header(r, "content-length", a.n) /\ e = <<NL(r)>>
      BY LinesAre, ReplyIs DEF Name
    <3>2. JoinsThree(h, e, b)
      BY JoinThree
    <3>3. FrameOf(r, a) = h \o (e \o b)
      BY <2>1, <2>3, <3>1, <3>2 DEF FrameOf, JoinsThree
    <3>4. FrameThen(r, a, b) = h \o (e \o b)
      BY <2>3, <3>1 DEF FrameThen, Framed, FrameHeader, EndOf
    <3> QED BY <2>2, <3>3, <3>4
  <2>4. CASE a.framing # "length"
    <3>1. FrameOf(r, a) = <<NL(r)>> \o b
      BY <1>2, <2>1, <2>4 DEF FrameOf
    <3>2. FrameThen(r, a, b) = <<NL(r)>> \o b
      BY <1>2, <2>4 DEF FrameThen, Framed, EndOf
    <3> QED BY <2>2, <3>1, <3>2
  <2> QED BY <2>3, <2>4
<1> QED BY <1>1, <1>2

(* The server sends the whole response.                                    *)
LEMMA ResponseIs ==
  ASSUME NEW r \in Req, NEW a \in Replies
  PROVE  \E b \in Seq(Words) :
           /\ BodyPart(r, a, b) /\ Whole(r, a, b) \in Seq(Words)
           /\ Response(r, a) = Whole(r, a, b)
<1>1. PICK b \in Seq(Words) : BodyPart(r, a, b) /\ FrameOf(r, a) = FrameThen(r, a, b)
  BY FrameIs
<1>2. PICK m \in Seq(Words), e \in Seq(Words), s \in Seq(Words), h \in Seq(Words) :
        /\ m = Status(r, 100) /\ e = <<NL(r)>> /\ s = Status(r, Code(a))
        /\ h = Header(r, "connection", "close")
  <2>1. \A k \in Nat : Status(r, k) \in Seq(Words)
    BY LinesAre
  <2>2. Code(a) \in Nat
    BY DEF Code
  <2>3. Status(r, 100) \in Seq(Words) /\ Status(r, Code(a)) \in Seq(Words)
    BY <2>1, <2>2
  <2>4. <<NL(r)>> \in Seq(Words)
    BY LinesAre
  <2>5. "connection" \in Name /\ "close" \in Nat \cup {"close", "chunked"}
    BY DEF Name
  <2>6. Header(r, "connection", "close") \in Seq(Words)
    BY <2>5, LinesAre
  <2> QED BY <2>3, <2>4, <2>6, Zenon
<1>3. PICK i \in Seq(Words), c \in Seq(Words), f \in Seq(Words) :
        /\ i = IF a.interim THEN m \o e ELSE <<>>
        /\ c = IF a.close /\ a.framing # "chunked" THEN h ELSE <<>>
        /\ f = FrameThen(r, a, b)
  BY HeadWords, ConcatProperties, EmptySeq
<1>4. Response(r, a) = ((i \o s) \o c) \o f
  <2>1. Response(r, a) =
          (IF a.interim THEN Status(r, 100) \o <<NL(r)>> ELSE <<>>)
          \o Status(r, IF a.framing = "none" THEN 204 ELSE 200)
          \o (IF a.close /\ a.framing # "chunked"
              THEN Header(r, "connection", "close") ELSE <<>>)
          \o FrameOf(r, a)
    BY DEF Response, FrameOf
  <2> QED BY <1>1, <1>2, <1>3, <2>1 DEF Code
<1>5. JoinsFour(i, s, c, f)
  BY JoinFour
<1>6. c \o f = CloseThen(r, a, b)
  <2>1. <<>> \o f = f
    BY ConcatEmptySeq
  <2> QED BY <1>2, <1>3, <2>1 DEF CloseThen
<1>7. PICK w \in Seq(Words) : w = Final(r, a, b)
  BY HeadWords
<1>8. Response(r, a) = i \o w
  BY <1>2, <1>4, <1>5, <1>6, <1>7 DEF JoinsFour, Final
<1>9. i \o w = Whole(r, a, b)
  <2>1. CASE a.interim
    <3>1. JoinsThree(m, e, w)
      BY JoinThree
    <3> QED BY <1>2, <1>3, <1>7, <2>1, <3>1 DEF JoinsThree, Whole, EndOf
  <2>2. CASE ~a.interim
    BY <1>3, <1>7, <2>2, ConcatEmptySeq DEF Whole
  <2> QED BY <2>1, <2>2
<1>10. Whole(r, a, b) \in Seq(Words)
  BY <1>9, ConcatProperties
<1> QED BY <1>1, <1>8, <1>9, <1>10
-----------------------------------------------------------------------------
(***************************************************************************)
(* Steps.  The request r goes to s with the arguments e, what it has been  *)
(* answered is v, and its connection is y.                                 *)
(***************************************************************************)
Turned(c, y) == /\ DOMAIN conn' = Channel /\ conn'[c] = y
                /\ \A d \in Channel \ {c} : conn'[d] = conn[d]
Replied(r, v) == /\ DOMAIN answer' = Req /\ answer'[r] = v
                 /\ \A q \in Req \ {r} : answer'[q] = answer[q]

(* The connection is used by no other request.                             *)
LEMMA OtherChannels ==
  ASSUME HInv, NEW r \in Req, Uses(r), NEW q \in Req, q # r, Uses(q)
  PROVE  arg[q].channel \in Channel \ {arg[r].channel} /\ conn[arg[q].channel] # NULL
BY DEF HInv, TypesOK, Connections, Uses

LEMMA RightMoves ==
  ASSUME HInv, RInv, NEW r \in Req, Uses(r), NEW s, NEW e, NEW v, NEW y,
         s \notin {"new", "over"}, s = "done" => ~e.do_not_shutdown,
         s = "connect" => Beginning(e),
         Turns(r, s, e), Turned(arg[r].channel, y), Replied(r, v), UNCHANGED at,
         e.channel = arg[r].channel, Held(y), Right(r, s, e, v, y)
  PROVE  RInv'
<1>1. /\ Others(r) /\ pc'[r] = s /\ arg'[r] = e
      /\ \A q \in Req \ {r} : pc'[q] = pc[q] /\ arg'[q] = arg[q]
  BY DEF Turns, Others
<1>2. PICK c \in Channel : c = arg[r].channel /\ c # NULL
  BY DEF Uses, HInv, TypesOK
<1>3. DOMAIN answer' = Req
  BY DEF Replied
<1>4. ASSUME NEW q \in Req
      PROVE  IF Uses(q)' THEN Right(q, pc'[q], arg'[q], answer'[q], conn'[arg'[q].channel])
             ELSE Quiet(arg'[q], answer'[q]) /\ arg'[q].rc = ""
  <2>1. CASE q = r
    <3>1. Uses(q)'
      BY <1>1, <1>2, <2>1, Zenon DEF Uses
    <3>2. answer'[q] = v /\ conn'[arg'[q].channel] = y /\ pc'[q] = s /\ arg'[q] = e
      BY <1>1, <2>1 DEF Replied, Turned
    <3> QED BY <2>1, <3>1, <3>2
  <2>2. CASE q # r
    <3>1. /\ pc'[q] = pc[q] /\ arg'[q] = arg[q] /\ answer'[q] = answer[q]
          /\ Uses(q)' <=> Uses(q)
      BY <1>1, <2>2, OthersUse DEF Replied
    <3>2. CASE Uses(q)
      <4>1. Right(q, pc[q], arg[q], answer[q], conn[arg[q].channel])
        BY <3>2 DEF RInv
      <4>2. conn'[arg[q].channel] = conn[arg[q].channel]
        BY <2>2, <3>2, OtherChannels DEF Turned
      <4> QED BY <3>1, <3>2, <4>1, <4>2
    <3>3. CASE ~Uses(q)
      BY <3>1, <3>3 DEF RInv
    <3> QED BY <3>2, <3>3
  <2> QED BY <2>1, <2>2
<1>5. \A q \in Req : pc'[q] = "connect" => Beginning(arg'[q])
  BY <1>1 DEF RInv
<1>6. ASSUME ~Uploading', NEW d \in Channel, conn'[d] # NULL
      PROVE  Held(conn'[d])
  <2>1. ~Uploading
    BY <1>6 DEF Uploading
  <2>2. CASE d = c
    BY <1>2, <2>2 DEF Turned
  <2>3. CASE d # c
    BY <1>2, <1>6, <2>1, <2>3 DEF Turned, RInv
  <2> QED BY <2>2, <2>3
<1> QED BY <1>3, <1>4, <1>5, <1>6, Zenon DEF RInv

(* Nothing changes but who runs and who waits.                             *)
LEMMA RightStays ==
  ASSUME RInv, UNCHANGED <<pc, arg, answer, conn, at>>
  PROVE  RInv'
<1>1. \A q \in Req : Uses(q)' <=> Uses(q)
  BY DEF Uses
<1>2. Uploading' <=> Uploading
  BY DEF Uploading
<1> QED BY <1>1, <1>2 DEF RInv

(* Client and network do to a connection what they do.                     *)
Reread(x, y) == /\ y.open = x.open /\ y.fin = x.fin /\ y.flight = x.flight
                /\ y.got = x.got /\ y.up = x.up

LEMMA RereadIs ==
  ASSUME NEW x, NEW y, Reread(x, y)
  PROVE  /\ Held(x) => Held(y)
         /\ Broken(x) => Broken(y)
         /\ y.flight = x.flight /\ y.got = x.got /\ y.up = x.up
BY Zenon DEF Reread, Held, Broken

LEMMA LineMoves ==
  ASSUME TypesOK \/ FieldsOK, NEW c \in Channel, conn[c] # NULL, TakeLine(c)
  PROVE  \E y : /\ Turned(c, y) /\ Reread(conn[c], y)
                /\ y.buf = Rest(conn[c].buf, LineEnd(c)) /\ y.down = conn[c].down
<1>1. DOMAIN conn[c] = DOMAIN NewConn /\ DOMAIN conn = Channel
  BY DEF TypesOK, FieldsOK
<1>2. PICK v : v = Rest(conn[c].buf, LineEnd(c)) /\ conn' = [conn EXCEPT ![c].buf = v]
  BY DEF TakeLine, Rest
<1>3. PICK y : y = [conn[c] EXCEPT !.buf = v]
  OBVIOUS
<1>4. Turned(c, y)
  BY <1>1, <1>2, <1>3 DEF Turned
<1>5. y.buf = v /\ y.down = conn[c].down /\ Reread(conn[c], y)
  BY <1>1, <1>3, ConnFields DEF Reread
<1> QED BY <1>2, <1>4, <1>5

LEMMA ReadMoves ==
  ASSUME TypesOK \/ FieldsOK, NEW c \in Channel, conn[c] # NULL, NEW r, ReadMore(r, c)
  PROVE  \/ UNCHANGED conn
         \/ /\ conn[c].down # <<>>
            /\ \E y : /\ Turned(c, y) /\ Reread(conn[c], y)
                      /\ y.buf = conn[c].buf \o conn[c].down /\ y.down = <<>>
<1>1. DOMAIN conn[c] = DOMAIN NewConn /\ DOMAIN conn = Channel
  BY DEF TypesOK, FieldsOK
<1>2. CASE conn[c].down = <<>>
  BY <1>2 DEF ReadMore
<1>3. CASE conn[c].down # <<>>
  <2>1. PICK v : v = conn[c].buf \o conn[c].down
                 /\ conn' = [conn EXCEPT ![c].buf = v, ![c].down = <<>>]
    BY <1>3 DEF ReadMore
  <2>2. PICK y : y = [conn[c] EXCEPT !.buf = v, !.down = <<>>]
    OBVIOUS
  <2>3. Turned(c, y)
    BY <1>1, <2>1, <2>2 DEF Turned
  <2>4. y.buf = v /\ y.down = <<>> /\ Reread(conn[c], y)
    BY <1>1, <2>2, ConnFields DEF Reread
  <2> QED BY <1>3, <2>1, <2>3, <2>4
<1> QED BY <1>2, <1>3

LEMMA CharsMoves ==
  ASSUME TypesOK, NEW c \in Channel, conn[c] # NULL, NEW n, TakeChars(c, n)
  PROVE  \E y : /\ Turned(c, y) /\ Reread(conn[c], y)
                /\ IF conn[c].buf # <<>>
                   THEN y.buf = Rest(conn[c].buf, n) /\ y.down = conn[c].down
                   ELSE y.buf = conn[c].buf /\ y.down = Rest(conn[c].down, n)
<1>1. DOMAIN conn[c] = DOMAIN NewConn /\ DOMAIN conn = Channel
  BY DEF TypesOK
<1>2. CASE conn[c].buf # <<>>
  <2>1. PICK v : v = Rest(conn[c].buf, n) /\ conn' = [conn EXCEPT ![c].buf = v]
    BY <1>2 DEF TakeChars, Rest
  <2>2. PICK y : y = [conn[c] EXCEPT !.buf = v]
    OBVIOUS
  <2>3. Turned(c, y)
    BY <1>1, <2>1, <2>2 DEF Turned
  <2>4. y.buf = v /\ y.down = conn[c].down /\ Reread(conn[c], y)
    BY <1>1, <2>2, ConnFields DEF Reread
  <2> QED BY <1>2, <2>1, <2>3, <2>4
<1>3. CASE conn[c].buf = <<>>
  <2>1. PICK v : v = Rest(conn[c].down, n) /\ conn' = [conn EXCEPT ![c].down = v]
    BY <1>3 DEF TakeChars, Rest
  <2>2. PICK y : y = [conn[c] EXCEPT !.down = v]
    OBVIOUS
  <2>3. Turned(c, y)
    BY <1>1, <2>1, <2>2 DEF Turned
  <2>4. y.buf = conn[c].buf /\ y.down = v /\ Reread(conn[c], y)
    BY <1>1, <2>2, ConnFields DEF Reread
  <2> QED BY <1>3, <2>1, <2>3, <2>4
<1> QED BY <1>2, <1>3
LEMMA BusyRight ==
  ASSUME HInv, RInv, ~Uploading, NEW r \in Req, pc[r] \in BusyStates
  PROVE  /\ TypesOK /\ Uses(r) /\ ChannelOf(r) = arg[r].channel /\ ChannelOf(r) \in Channel
         /\ conn[ChannelOf(r)] # NULL /\ Held(conn[ChannelOf(r)])
         /\ Right(r, pc[r], arg[r], answer[r], conn[ChannelOf(r)])
<1>1. Busy(r) /\ Uses(r) /\ ChannelOf(r) = arg[r].channel /\ ChannelOf(r) \in Channel
      /\ conn[ChannelOf(r)] # NULL /\ TypesOK
  BY BusyIs, BusyUses DEF ChannelOf, HInv
<1> QED BY <1>1 DEF RInv

LEMMA StaysTurned ==
  ASSUME TypesOK, UNCHANGED conn, NEW c \in Channel
  PROVE  Turned(c, conn[c])
BY DEF TypesOK, Turned

LEMMA StaysReplied ==
  ASSUME RInv, UNCHANGED answer, NEW r \in Req
  PROVE  Replied(r, answer[r])
BY DEF RInv, Replied

(* The channel stays; the request is busy before and after.                *)
LEMMA RightGoes ==
  ASSUME HInv, RInv, NEW r \in Req, Uses(r), NEW s \in BusyStates, NEW e, NEW y,
         Turns(r, s, e), e.channel = arg[r].channel, Turned(arg[r].channel, y),
         Held(y), Right(r, s, e, answer[r], y), UNCHANGED <<answer, at>>
  PROVE  RInv'
<1>1. s \notin {"new", "over", "done", "connect"}
  BY DEF BusyStates, LineStates
<1>2. Replied(r, answer[r])
  BY StaysReplied
<1> QED BY <1>1, <1>2, RightMoves

LEMMA LeaveTurns ==
  ASSUME TypesOK, NEW r \in Req, NEW rc, Leave(r, rc)
  PROVE  \E e : /\ Turns(r, "cleanup", e) /\ e.channel = arg[r].channel
                /\ e.sink = arg[r].sink /\ e.response_headers = arg[r].response_headers
                /\ e.rc = rc
<1>1. PICK e : e = [NewArg EXCEPT !.channel = arg[r].channel,
                  !.do_not_shutdown = arg[r].do_not_shutdown, !.sink = arg[r].sink,
                  !.response_headers = arg[r].response_headers, !.rc = rc]
  OBVIOUS
<1>2. arg' = [arg EXCEPT ![r] = e] /\ pc' = [pc EXCEPT ![r] = "cleanup"]
  BY <1>1, Zenon DEF Leave, Goto
<1>3. /\ e.channel = arg[r].channel /\ e.sink = arg[r].sink
      /\ e.response_headers = arg[r].response_headers /\ e.rc = rc
  BY <1>1, ArgFields
<1>4. Turns(r, "cleanup", e)
  BY <1>2 DEF TypesOK, Turns, Others
<1> QED BY <1>3, <1>4

(* What has been received is a beginning of the body.                      *)
LEMMA SinkIs ==
  ASSUME NEW r \in Req, NEW s, s \notin {"connect", "done", "cleanup"}, NEW e, NEW v, NEW x,
         Right(r, s, e, v, x)
  PROVE  \/ e.sink = <<>>
         \/ \E a \in Replies : \E m \in 0..a.n : v = AnswerTo(r, a) /\ e.sink = Piece(r, 0, m)
<1>1. CASE Asking(r, s, e, v, x)
  BY <1>1 DEF Asking
<1>2. CASE Answered(r, s, e, v, x)
  <2>1. PICK a \in Replies :
          /\ v = AnswerTo(r, a)
          /\ \/ \E rest \in Seq(Words) : Coming(r, a, s, e, rest)
             \/ Received(r, a, e)
    BY <1>2 DEF Answered
  <2>2. \/ e.sink = <<>>
        \/ \E m \in 0..a.n : e.sink = Piece(r, 0, m)
    BY <2>1 DEF Coming, InHead, InPlainBody, InChunks, Received
  <2> QED BY <2>1, <2>2
<1> QED BY <1>1, <1>2 DEF Right

LEMMA FailedRight ==
  ASSUME NEW r \in Req, NEW s, s \notin {"connect", "done", "cleanup"}, NEW e, NEW v, NEW x,
         Right(r, s, e, v, x), x.fin, e.response_headers # NULL => Dead(x),
         NEW f, f.sink = e.sink, f.response_headers = e.response_headers, f.rc = "error"
  PROVE  Right(r, "cleanup", f, v, x)
<1>1. (f.response_headers = NULL /\ x.fin) \/ Idle(x)
  BY DEF Idle
<1>2. f.rc # "http ok"
  OBVIOUS
<1>3. \/ f.sink = <<>>
      \/ \E a \in Replies : \E m \in 0..a.n : v = AnswerTo(r, a) /\ f.sink = Piece(r, 0, m)
  BY SinkIs
<1>4. Leaving(r, f, v, x)
  BY <1>1, <1>2, <1>3 DEF Leaving
<1> QED BY <1>4 DEF Right

LEMMA FailsRight ==
  ASSUME HInv, RInv, ~Uploading, NEW r \in Req, pc[r] \in BusyStates, pc[r] # "cleanup",
         Failed(r), Keep, UNCHANGED at, NEW x, x = conn[ChannelOf(r)], x.fin,
         arg[r].response_headers # NULL => Dead(x)
  PROVE  RInv'
<1>1. /\ TypesOK /\ Uses(r) /\ ChannelOf(r) = arg[r].channel /\ ChannelOf(r) \in Channel
      /\ Held(x) /\ Right(r, pc[r], arg[r], answer[r], x)
  BY BusyRight
<1>2. PICK e : /\ Turns(r, "cleanup", e) /\ e.channel = arg[r].channel
               /\ e.sink = arg[r].sink /\ e.response_headers = arg[r].response_headers
               /\ e.rc = "error"
  BY <1>1, LeaveTurns DEF Failed
<1>3. Turned(arg[r].channel, x)
  BY <1>1, StaysTurned DEF Keep
<1>4. pc[r] \notin {"connect", "done", "cleanup"} /\ "cleanup" \in BusyStates
  BY DEF BusyStates, LineStates
<1>5. Right(r, "cleanup", e, answer[r], x)
  <2>1. PICK f, v, s : f = arg[r] /\ v = answer[r] /\ s = pc[r]
    OBVIOUS
  <2> QED BY <1>1, <1>2, <1>4, <2>1, FailedRight
<1> QED BY <1>1, <1>2, <1>3, <1>4, <1>5, RightGoes DEF Keep

(* request_2 ends well.                                                    *)
LEMMA OkRight ==
  ASSUME HInv, RInv, ~Uploading, NEW r \in Req, RequestOk(r), UNCHANGED at
  PROVE  RInv'
<1>1. pc[r] = "ok" /\ pc[r] \in BusyStates /\ "cleanup" \in BusyStates
  BY DEF RequestOk, Running, BusyStates
<1>2. PICK x : x = conn[ChannelOf(r)]
  OBVIOUS
<1>3. /\ TypesOK /\ Uses(r) /\ ChannelOf(r) = arg[r].channel /\ ChannelOf(r) \in Channel
      /\ Held(x) /\ Right(r, pc[r], arg[r], answer[r], x)
  BY <1>1, <1>2, BusyRight
<1>4. PICK e : /\ Turns(r, "cleanup", e) /\ e.channel = arg[r].channel
               /\ e.sink = arg[r].sink /\ e.rc = "http ok"
  <2>1. PICK rc : rc = "http ok" /\ Leave(r, rc)
    BY DEF RequestOk
  <2>2. TypesOK
    BY <1>3
  <2>3. \E e : /\ Turns(r, "cleanup", e) /\ e.channel = arg[r].channel
               /\ e.sink = arg[r].sink /\ e.response_headers = arg[r].response_headers
               /\ e.rc = rc
    BY <2>1, <2>2, LeaveTurns
  <2> QED BY <2>1, <2>3
<1>5. Turned(arg[r].channel, x)
  BY <1>2, <1>3, StaysTurned DEF RequestOk, Keep
<1>6. Answered(r, "ok", arg[r], answer[r], x)
  BY <1>1, <1>3 DEF Right, Asking
<1>7. PICK a \in Replies : /\ answer[r] = AnswerTo(r, a) /\ Silent(x) /\ Received(r, a, arg[r])
                           /\ x.got = <<>> /\ x.up = <<>>
  BY <1>6 DEF Answered, Coming, InHead, BeforeStatus, InHeaders, InPlainBody, InChunks
<1>8. Idle(x)
  BY <1>7 DEF Idle
<1>9. Received(r, a, e)
  BY <1>4, <1>7 DEF Received
<1>10. PICK m \in 0..a.n : e.sink = Piece(r, 0, m)
  BY <1>9 DEF Received
<1>11. Leaving(r, e, answer[r], x)
  BY <1>7, <1>8, <1>9, <1>10 DEF Leaving
<1>12. Right(r, "cleanup", e, answer[r], x)
  BY <1>11 DEF Right
<1> QED BY <1>1, <1>3, <1>4, <1>5, <1>12, RightGoes DEF RequestOk, Keep
(* What is still to come stays the same.                                   *)
LEMMA AnsweredOn ==
  ASSUME NEW r, NEW s, NEW e, NEW v, NEW x, NEW y, Answered(r, s, e, v, x),
         y.got = x.got, y.up = x.up, \A rest : Ahead(x, rest) => Ahead(y, rest),
         Silent(x) => Silent(y)
  PROVE  Answered(r, s, e, v, y)
<1>1. PICK a \in Replies :
        /\ v = AnswerTo(r, a)
        /\ \/ \E rest \in Seq(Words) : Coming(r, a, s, e, rest) /\ Ahead(x, rest)
           \/ s = "ok" /\ Silent(x) /\ Received(r, a, e)
  BY DEF Answered
<1>2. y.got = <<>> /\ y.up = <<>>
  BY DEF Answered
<1>3. \/ \E rest \in Seq(Words) : Coming(r, a, s, e, rest) /\ Ahead(y, rest)
      \/ s = "ok" /\ Silent(y) /\ Received(r, a, e)
  BY <1>1
<1> QED BY <1>1, <1>2, <1>3 DEF Answered

(* A request that has the headers, but not all of the body.                *)
LEMMA BodyAhead ==
  ASSUME NEW r, NEW s, s \notin {"ok", "cleanup", "connect", "done"}, NEW e, NEW v, NEW x,
         Right(r, s, e, v, x), e.response_headers # NULL
  PROVE  x.buf \in Seq(Words)
<1>1. Answered(r, s, e, v, x)
  BY DEF Right, Asking
<1>2. \E rest : Ahead(x, rest)
  BY <1>1 DEF Answered
<1> QED BY <1>2, AheadIs

LEMMA NeedMoreRight ==
  ASSUME HInv, RInv, ~Uploading, NEW r \in Req, NeedMore(r), UNCHANGED at
  PROVE  RInv'
<1>1. /\ pc[r] \in BusyStates /\ pc[r] \in LineStates
      /\ pc[r] \notin {"ok", "cleanup", "connect", "done"}
  BY DEF NeedMore, Running, BusyStates, LineStates
<1>2. PICK c, x :
        /\ c = ChannelOf(r) /\ c = arg[r].channel /\ c \in Channel /\ x = conn[c]
        /\ conn[c] # NULL /\ Held(x) /\ Right(r, pc[r], arg[r], answer[r], x)
        /\ TypesOK /\ Uses(r)
  BY <1>1, BusyRight
<1>3. CASE ReadMore(r, c) /\ UNCHANGED requestVars
  <2>1. UNCHANGED <<pc, arg, answer>>
    BY <1>3 DEF requestVars
  <2>2. CASE UNCHANGED conn
    BY <2>1, <2>2, RightStays
  <2>3. CASE ~UNCHANGED conn
    <3>1. x.down # <<>>
          /\ \E y : /\ Turned(c, y) /\ Reread(x, y)
                    /\ y.buf = x.buf \o x.down /\ y.down = <<>>
      BY <1>2, <1>3, <2>3, ReadMoves
    <3>2. PICK y : /\ Turned(c, y) /\ Reread(x, y)
                   /\ y.buf = x.buf \o x.down /\ y.down = <<>>
      BY <3>1
    <3>3. Held(y) /\ (Broken(x) => Broken(y)) /\ y.flight = x.flight /\ y.got = x.got
          /\ y.up = x.up
      BY <1>2, <3>2, RereadIs
    <3>4. ~Dead(x) /\ ~Silent(x)
      BY <3>1 DEF Dead, Silent
    <3>5. Answered(r, pc[r], arg[r], answer[r], x)
      BY <1>1, <1>2, <3>4 DEF Right, Asking
    <3>6. ASSUME NEW rest, Ahead(x, rest)
          PROVE  Ahead(y, rest)
      BY <3>2, <3>3, <3>6, ReadAhead
    <3>7. Answered(r, pc[r], arg[r], answer[r], y)
      <4>1. PICK s, e, v : s = pc[r] /\ e = arg[r] /\ v = answer[r]
        OBVIOUS
      <4>2. Answered(r, s, e, v, y)
        BY <3>3, <3>4, <3>5, <3>6, <4>1, AnsweredOn
      <4> QED BY <4>1, <4>2
    <3>8. Right(r, pc[r], arg[r], answer[r], y)
      BY <1>1, <1>2, <3>7 DEF Right
    <3>9. Turns(r, pc[r], arg[r])
      BY <1>2, <2>1 DEF TypesOK, Turns, Others
    <3> QED BY <1>1, <1>2, <2>1, <3>2, <3>3, <3>8, <3>9, RightGoes
  <2> QED BY <2>2, <2>3
<1>4. CASE NoMoreLines(c) /\ Failed(r) /\ Keep
  <2>1. x.fin /\ x.flight = <<>> /\ x.down = <<>>
    BY <1>2, <1>4 DEF NoMoreLines, AtEnd
  <2>2. \A i \in DOMAIN x.buf : ~IsNL(x.buf[i])
    BY <1>2, <1>4 DEF NoMoreLines, LineEnds
  <2>3. arg[r].response_headers # NULL => x.buf \in Seq(Words)
    BY <1>1, <1>2, BodyAhead
  <2>4. arg[r].response_headers # NULL => Dead(x)
    BY <2>1, <2>2, <2>3 DEF Dead
  <2> QED BY <1>1, <1>2, <1>4, <2>1, <2>4, FailsRight
<1> QED BY <1>2, <1>3, <1>4 DEF NeedMore
(* A request reads what is coming.                                         *)
LEMMA ComingRight ==
  ASSUME NEW r, NEW a \in Replies, NEW s, s # "cleanup", NEW e, e.rc = "", NEW v,
         v = AnswerTo(r, a), NEW y, y.got = <<>>, y.up = <<>>,
         NEW rest, Ahead(y, rest), Coming(r, a, s, e, rest)
  PROVE  Right(r, s, e, v, y)
<1>1. rest \in Seq(Words)
  BY AheadIs
<1>2. Answered(r, s, e, v, y)
  BY <1>1 DEF Answered
<1> QED BY <1>2 DEF Right

LEMMA EndsRight ==
  ASSUME NEW r, NEW a \in Replies, NEW e, e.rc = "", NEW v,
         v = AnswerTo(r, a), NEW y, y.got = <<>>, y.up = <<>>,
         Silent(y), Received(r, a, e)
  PROVE  Right(r, "ok", e, v, y)
<1>1. Answered(r, "ok", e, v, y)
  BY DEF Answered
<1> QED BY <1>1 DEF Right

(* What a request in state s reads from: the connection is c, has been x   *)
(* and becomes y.                                                          *)
Receives(r, a, s, c, x, y, rest) ==
  /\ a \in Replies /\ pc[r] = s /\ Uses(r) /\ TypesOK
  /\ c = ChannelOf(r) /\ c = arg[r].channel /\ c \in Channel /\ x = conn[c]
  /\ Turned(c, y) /\ Held(y) /\ y.flight = x.flight /\ (Broken(x) => Broken(y))
  /\ y.got = <<>> /\ y.up = <<>>
  /\ arg[r].rc = "" /\ answer[r] = AnswerTo(r, a)
  /\ rest \in Seq(Words) /\ Coming(r, a, s, arg[r], rest) /\ Ahead(x, rest)

LEMMA LineStep ==
  ASSUME HInv, RInv, ~Uploading, NEW r \in Req, NEW s \in LineStates, HasLine(r, s)
  PROVE  \E a, c, x, y, rest :
           /\ Receives(r, a, s, c, x, y, rest) /\ LineEnds(c) # {}
           /\ y.buf = Rest(x.buf, LineEnd(c)) /\ y.down = x.down
<1>1. pc[r] = s /\ pc[r] \in BusyStates /\ s \notin {"cleanup", "connect", "done", "ok"}
  BY DEF HasLine, Running, BusyStates, LineStates
<1>2. PICK c, x :
        /\ c = ChannelOf(r) /\ c = arg[r].channel /\ c \in Channel /\ x = conn[c]
        /\ conn[c] # NULL /\ Held(x) /\ Right(r, pc[r], arg[r], answer[r], x)
        /\ TypesOK /\ Uses(r)
  BY <1>1, BusyRight
<1>3. TakeLine(c) /\ LineEnds(c) # {}
  BY <1>2 DEF HasLine, TakeLine
<1>4. PICK y : /\ Turned(c, y) /\ Reread(x, y)
               /\ y.buf = Rest(x.buf, LineEnd(c)) /\ y.down = x.down
  BY <1>2, <1>3, LineMoves
<1>5. /\ Held(y) /\ (Broken(x) => Broken(y)) /\ y.flight = x.flight
      /\ y.got = x.got /\ y.up = x.up
  BY <1>2, <1>4, RereadIs
<1>6. ~Silent(x) /\ ~Dead(x)
  BY <1>2, <1>3 DEF LineEnds, Silent, Dead
<1>7. Answered(r, s, arg[r], answer[r], x) /\ arg[r].rc = ""
  BY <1>1, <1>2, <1>6 DEF Right, Asking
<1>8. x.got = <<>> /\ x.up = <<>>
  BY <1>7 DEF Answered
<1>9. PICK a \in Replies, rest \in Seq(Words) :
        answer[r] = AnswerTo(r, a) /\ Coming(r, a, s, arg[r], rest) /\ Ahead(x, rest)
  BY <1>6, <1>7 DEF Answered
<1>10. Receives(r, a, s, c, x, y, rest)
  BY <1>1, <1>2, <1>4, <1>5, <1>7, <1>8, <1>9 DEF Receives
<1> QED BY <1>3, <1>4, <1>10

(* It goes on to another state, with more or less still to come.           *)
LEMMA ReceivesGoes ==
  ASSUME HInv, RInv, NEW r \in Req, NEW a, NEW s, NEW c, NEW x, NEW y, NEW rest,
         Receives(r, a, s, c, x, y, rest),
         NEW t \in BusyStates, t # "cleanup", NEW e, Turns(r, t, e), e.channel = c,
         e.rc = "", UNCHANGED <<answer, at>>,
         \/ \E w : Ahead(y, w) /\ Coming(r, a, t, e, w)
         \/ t = "ok" /\ Silent(y) /\ Received(r, a, e)
  PROVE  RInv'
<1>1. /\ a \in Replies /\ Uses(r) /\ c = arg[r].channel /\ Turned(c, y) /\ Held(y)
      /\ y.got = <<>> /\ y.up = <<>> /\ answer[r] = AnswerTo(r, a)
  BY DEF Receives
<1>2. PICK v : v = answer[r]
  OBVIOUS
<1>3. Right(r, t, e, v, y)
  <2>1. CASE \E w : Ahead(y, w) /\ Coming(r, a, t, e, w)
    BY <1>1, <1>2, <2>1, ComingRight
  <2>2. CASE t = "ok" /\ Silent(y) /\ Received(r, a, e)
    BY <1>1, <1>2, <2>2, EndsRight
  <2> QED BY <2>1, <2>2
<1> QED BY <1>1, <1>2, <1>3, RightGoes
-----------------------------------------------------------------------------
(***************************************************************************)
(* Status and headers.                                                     *)
(***************************************************************************)
(* The line is one unit; the next line comes.                              *)
Next1(r, u, rest, w) == w \in Seq(Words) /\ rest = <<u, NL(r)>> \o w
Next0(r, rest, w) == w \in Seq(Words) /\ rest = <<NL(r)>> \o w

LEMMA ReadsOne ==
  ASSUME NEW r \in Req, NEW a, NEW s, NEW c, NEW x, NEW y, NEW rest,
         Receives(r, a, s, c, x, y, rest), LineEnds(c) # {},
         y.buf = Rest(x.buf, LineEnd(c)), y.down = x.down,
         NEW u \in Words, ~IsNL(u), NEW w, Next1(r, u, rest, w)
  PROVE  /\ LineOf(r) = <<u>> /\ LineOf(r)[1] = u /\ Len(LineOf(r)) = 1
         /\ LineOf(r) # <<>> /\ Ahead(y, w)
<1>1. /\ x = conn[c] /\ y.flight = x.flight /\ (Broken(x) => Broken(y))
      /\ Ahead(x, rest) /\ c = ChannelOf(r)
  BY DEF Receives
<1>2. w \in Seq(Words) /\ Ahead(x, <<u, NL(r)>> \o w)
  BY <1>1 DEF Next1
<1>3. Line(c) = <<u>> /\ Ahead(y, w)
  BY <1>1, <1>2, LineOfOne
<1>4. LineOf(r) = <<u>>
  BY <1>1, <1>3 DEF LineOf
<1> QED BY <1>3, <1>4

LEMMA ReadsNone ==
  ASSUME NEW r \in Req, NEW a, NEW s, NEW c, NEW x, NEW y, NEW rest,
         Receives(r, a, s, c, x, y, rest), LineEnds(c) # {},
         y.buf = Rest(x.buf, LineEnd(c)), y.down = x.down, NEW w, Next0(r, rest, w)
  PROVE  LineOf(r) = <<>> /\ Ahead(y, w)
<1>1. /\ x = conn[c] /\ y.flight = x.flight /\ (Broken(x) => Broken(y))
      /\ Ahead(x, rest) /\ c = ChannelOf(r)
  BY DEF Receives
<1>2. w \in Seq(Words) /\ Ahead(x, <<NL(r)>> \o w)
  BY <1>1 DEF Next0
<1>3. Line(c) = <<>> /\ Ahead(y, w)
  BY <1>1, <1>2, LineOfNone
<1> QED BY <1>1, <1>3 DEF LineOf

LEMMA StatusFirst ==
  ASSUME NEW r \in Req, NEW a \in Replies, NEW b \in Seq(Words), NEW rest,
         rest = Whole(r, a, b) \/ rest = Final(r, a, b)
  PROVE  \E z \in Nat : \E w :
           /\ Next1(r, Unit("status", r, z), rest, w)
           /\ \/ z = 100 /\ w = EndOf(r, Final(r, a, b))
              \/ z = Code(a) /\ w = CloseThen(r, a, b)
<1>1. CASE rest = Final(r, a, b)
  <2>1. Code(a) \in Nat /\ CloseThen(r, a, b) \in Seq(Words)
    BY HeadWords DEF Code
  <2>2. Next1(r, Unit("status", r, Code(a)), rest, CloseThen(r, a, b))
    BY <1>1, <2>1 DEF Next1, Final, Status
  <2> QED BY <2>1, <2>2
<1>2. CASE rest = Whole(r, a, b) /\ a.interim
  <2>1. PICK f \in Seq(Words) : f = Final(r, a, b)
    BY HeadWords
  <2>2. EndOf(r, f) \in Seq(Words)
    BY HeadWords
  <2>3. Next1(r, Unit("status", r, 100), rest, EndOf(r, f))
    BY <1>2, <2>1, <2>2 DEF Next1, Whole, Status
  <2> QED BY <2>1, <2>3
<1>3. rest = Final(r, a, b) \/ (rest = Whole(r, a, b) /\ a.interim)
  BY DEF Whole
<1> QED BY <1>1, <1>2, <1>3

LEMMA StatusRight ==
  ASSUME HInv, RInv, ~Uploading, NEW r \in Req, StatusLineOf(r), UNCHANGED at
  PROVE  RInv'
<1>1. PICK a, c, x, y, rest :
        /\ Receives(r, a, "status", c, x, y, rest) /\ LineEnds(c) # {}
        /\ y.buf = Rest(x.buf, LineEnd(c)) /\ y.down = x.down
  <2>1. PICK s \in LineStates : s = "status"
    BY DEF LineStates
  <2>2. HasLine(r, s)
    BY <2>1 DEF StatusLineOf
  <2> QED BY <2>1, <2>2, LineStep
<1>2. /\ a \in Replies /\ c = arg[r].channel /\ TypesOK /\ arg[r].rc = ""
      /\ Coming(r, a, "status", arg[r], rest)
  BY <1>1 DEF Receives
<1>3. InHead(r, a, "status", arg[r], rest)
  BY <1>2 DEF Coming, InPlainBody, InChunks
<1>4. PICK b \in Seq(Words) :
        /\ BodyPart(r, a, b)
        /\ BeforeStatus(r, a, "status", arg[r], rest, b)
  BY <1>3 DEF InHead, InHeaders
<1>5. Plain(arg[r].headers) /\ (rest = Whole(r, a, b) \/ rest = Final(r, a, b))
  BY <1>4 DEF BeforeStatus
<1>6. PICK z \in Nat : \E w :
        /\ Next1(r, Unit("status", r, z), rest, w)
        /\ \/ z = 100 /\ w = EndOf(r, Final(r, a, b))
           \/ z = Code(a) /\ w = CloseThen(r, a, b)
  BY <1>2, <1>5, StatusFirst
<1>7. PICK w :
        /\ Next1(r, Unit("status", r, z), rest, w)
        /\ \/ z = 100 /\ w = EndOf(r, Final(r, a, b))
           \/ z = Code(a) /\ w = CloseThen(r, a, b)
  BY <1>6
<1>8. PICK u \in Words : u = Unit("status", r, z) /\ ~IsNL(u)
  BY WordsAre
<1>9. /\ LineOf(r)[1] = u /\ Len(LineOf(r)) = 1 /\ Ahead(y, w)
  BY <1>1, <1>7, <1>8, ReadsOne
<1>10. IsA(LineOf(r), "status") /\ LineOf(r)[1][3] = z
  BY <1>8, <1>9 DEF IsA, Unit
<1>11. arg' = [arg EXCEPT ![r].code = z] /\ pc' = [pc EXCEPT ![r] = "headers"]
       /\ answer' = answer
  BY <1>10 DEF StatusLineOf, HasLine, Goto
<1>12. PICK e : e = [arg[r] EXCEPT !.code = z]
  OBVIOUS
<1>13. Turns(r, "headers", e)
  BY <1>2, <1>11, <1>12 DEF TypesOK, Turns, Others
<1>14. /\ e.channel = c /\ e.rc = "" /\ e.code = z /\ e.headers = arg[r].headers
       /\ e.sink = arg[r].sink /\ e.count = arg[r].count
       /\ e.response_headers = arg[r].response_headers
  BY <1>2, <1>12, ArgFields DEF TypesOK
<1>15. InHeaders(r, a, "headers", e, w, b)
  BY <1>5, <1>7, <1>14 DEF InHeaders
<1>16. InHead(r, a, "headers", e, w)
  BY <1>3, <1>4, <1>14, <1>15 DEF InHead
<1>17. Coming(r, a, "headers", e, w)
  BY <1>16 DEF Coming
<1>18. "headers" \in BusyStates /\ "headers" # "cleanup"
  BY DEF BusyStates, LineStates
<1> QED BY <1>1, <1>9, <1>11, <1>13, <1>14, <1>17, <1>18, ReceivesGoes
(* The header that tells the length of the body.                           *)
Announces(a, n, v) ==
  \/ a.framing = "length" /\ n = "content-length" /\ v = a.n
  \/ a.framing = "chunked" /\ n = "transfer-encoding" /\ v = "chunked"

LEMMA HeaderFirst ==
  ASSUME NEW r \in Req, NEW a \in Replies, NEW b \in Seq(Words), NEW rest,
         rest = CloseThen(r, a, b) \/ rest = FrameThen(r, a, b)
  PROVE  \/ ~Framed(a) /\ Next0(r, rest, b)
         \/ \E n \in Name, v \in Nat \cup {"close", "chunked"} : \E w :
              /\ Next1(r, Unit("header", r, <<n, v>>), rest, w)
              /\ \/ n = "connection" /\ w = FrameThen(r, a, b)
                 \/ Announces(a, n, v) /\ w = EndOf(r, b)
<1>1. EndOf(r, b) \in Seq(Words) /\ FrameThen(r, a, b) \in Seq(Words) /\ a.n \in Nat
  BY HeadWords, ReplyIs
<1>2. CASE rest = FrameThen(r, a, b) /\ ~Framed(a)
  BY <1>2 DEF FrameThen, Next0, EndOf
<1>3. CASE rest = FrameThen(r, a, b) /\ Framed(a)
  <2>1. PICK n \in Name, v \in Nat \cup {"close", "chunked"} :
          Announces(a, n, v) /\ FrameHeader(r, a) = Header(r, n, v)
    <3>1. CASE a.framing = "length"
      BY <1>1, <3>1 DEF Announces, FrameHeader, Name
    <3>2. CASE a.framing = "chunked"
      BY <3>2 DEF Announces, FrameHeader, Name
    <3> QED BY <1>3, <3>1, <3>2 DEF Framed
  <2>2. Next1(r, Unit("header", r, <<n, v>>), rest, EndOf(r, b))
    BY <1>1, <1>3, <2>1 DEF FrameThen, Next1, Header
  <2> QED BY <2>1, <2>2
<1>4. CASE rest = CloseThen(r, a, b) /\ a.close /\ a.framing # "chunked"
  <2>1. Next1(r, Unit("header", r, <<"connection", "close">>), rest, FrameThen(r, a, b))
    BY <1>1, <1>4 DEF CloseThen, Next1, Header
  <2>2. "connection" \in Name /\ "close" \in Nat \cup {"close", "chunked"}
    BY DEF Name
  <2> QED BY <2>1, <2>2
<1>5. \/ rest = FrameThen(r, a, b)
      \/ rest = CloseThen(r, a, b) /\ a.close /\ a.framing # "chunked"
  BY DEF CloseThen
<1> QED BY <1>2, <1>3, <1>4, <1>5

LEMMA AddHeaderIs ==
  ASSUME NEW n \in Name, NEW v, NEW u, u[3][1] = n, u[3][2] = v, NEW h, DOMAIN h = Name
  PROVE  /\ DOMAIN AddHeader(h, u) = Name
         /\ AddHeader(h, u)[n] = IF h[n] = NULL THEN v ELSE Joined
         /\ \A k \in Name \ {n} : AddHeader(h, u)[k] = h[k]
BY DEF AddHeader

LEMMA HeaderRight ==
  ASSUME HInv, RInv, ~Uploading, NEW r \in Req, HeaderLineOf(r), UNCHANGED at
  PROVE  RInv'
<1>1. PICK a, c, x, y, rest :
        /\ Receives(r, a, "headers", c, x, y, rest) /\ LineEnds(c) # {}
        /\ y.buf = Rest(x.buf, LineEnd(c)) /\ y.down = x.down
  <2>1. PICK s \in LineStates : s = "headers"
    BY DEF LineStates
  <2>2. HasLine(r, s)
    BY <2>1 DEF HeaderLineOf
  <2> QED BY <2>1, <2>2, LineStep
<1>2. /\ a \in Replies /\ c = arg[r].channel /\ TypesOK /\ arg[r].rc = ""
      /\ Coming(r, a, "headers", arg[r], rest) /\ pc[r] = "headers"
  BY <1>1 DEF Receives
<1>3. InHead(r, a, "headers", arg[r], rest)
  BY <1>2 DEF Coming, InPlainBody, InChunks
<1>4. PICK b \in Seq(Words) :
        BodyPart(r, a, b) /\ InHeaders(r, a, "headers", arg[r], rest, b)
  BY <1>3 DEF InHead, BeforeStatus
<1>5. PICK f \in Seq(Words) : f = Final(r, a, b)
  BY HeadWords, <1>2
<1>6. LineOf(r) # <<>>
  BY DEF HeaderLineOf
<1>7. ASSUME NEW w \in Seq(Words)
      PROVE  rest # EndOf(r, w)
  <2> SUFFICES ASSUME rest = EndOf(r, w)
               PROVE  FALSE
    OBVIOUS
  <2>1. Next0(r, rest, w)
    BY DEF Next0, EndOf
  <2> QED BY <1>1, <1>6, <2>1, ReadsNone
<1>8. /\ arg[r].code = Code(a) /\ Plain(arg[r].headers)
      /\ rest \in {CloseThen(r, a, b), FrameThen(r, a, b)}
  BY <1>4, <1>5, <1>7 DEF InHeaders
<1>9. ~(\E w : Next0(r, rest, w))
  BY <1>1, <1>6, ReadsNone
<1>10. PICK n \in Name, v \in Nat \cup {"close", "chunked"} : \E w :
         /\ Next1(r, Unit("header", r, <<n, v>>), rest, w)
         /\ \/ n = "connection" /\ w = FrameThen(r, a, b)
            \/ Announces(a, n, v) /\ w = EndOf(r, b)
  <2>1. \/ ~Framed(a) /\ Next0(r, rest, b)
        \/ \E n \in Name, v \in Nat \cup {"close", "chunked"} : \E w :
              /\ Next1(r, Unit("header", r, <<n, v>>), rest, w)
              /\ \/ n = "connection" /\ w = FrameThen(r, a, b)
                 \/ Announces(a, n, v) /\ w = EndOf(r, b)
    <3>1. a \in Replies /\ (rest = CloseThen(r, a, b) \/ rest = FrameThen(r, a, b))
      BY <1>2, <1>8
    <3> QED BY <3>1, HeaderFirst
  <2> QED BY <1>9, <2>1
<1>11. PICK w :
         /\ Next1(r, Unit("header", r, <<n, v>>), rest, w)
         /\ \/ n = "connection" /\ w = FrameThen(r, a, b)
            \/ Announces(a, n, v) /\ w = EndOf(r, b)
  BY <1>10
<1>12. PICK u \in Words : u = Unit("header", r, <<n, v>>) /\ ~IsNL(u)
  BY WordsAre
<1>13. /\ LineOf(r)[1] = u /\ Len(LineOf(r)) = 1 /\ Ahead(y, w)
  BY <1>1, <1>11, <1>12, ReadsOne
<1>14. IsA(LineOf(r), "header")
  BY <1>12, <1>13 DEF IsA, Unit
<1>15. PICK h : h = AddHeader(arg[r].headers, u)
  OBVIOUS
<1>16. arg' = [arg EXCEPT ![r].headers = h] /\ pc' = pc /\ answer' = answer
  BY <1>13, <1>14, <1>15 DEF HeaderLineOf, HasLine
<1>17. PICK e : e = [arg[r] EXCEPT !.headers = h]
  OBVIOUS
<1>18. Turns(r, "headers", e)
  BY <1>2, <1>16, <1>17 DEF TypesOK, Turns, Others
<1>19. /\ e.channel = c /\ e.rc = "" /\ e.code = arg[r].code /\ e.headers = h
       /\ e.sink = arg[r].sink /\ e.count = arg[r].count
       /\ e.response_headers = arg[r].response_headers
  BY <1>2, <1>17, ArgFields DEF TypesOK
<1>20. /\ DOMAIN h = Name /\ h[n] = (IF arg[r].headers[n] = NULL THEN v ELSE Joined)
       /\ \A k \in Name \ {n} : h[k] = arg[r].headers[k]
  <2>1. PICK g : g = arg[r].headers
    OBVIOUS
  <2>2. DOMAIN g = Name
    BY <1>8, <2>1 DEF Plain
  <2>3. /\ DOMAIN AddHeader(g, u) = Name
        /\ AddHeader(g, u)[n] = IF g[n] = NULL THEN v ELSE Joined
        /\ \A k \in Name \ {n} : AddHeader(g, u)[k] = g[k]
    <3>1. u[3][1] = n /\ u[3][2] = v
      BY <1>12 DEF Unit
    <3> QED BY <2>2, <3>1, AddHeaderIs
  <2> QED BY <1>15, <2>1, <2>3
<1>21. InHeaders(r, a, "headers", e, w, b)
  <2>1. CASE n = "connection" /\ w = FrameThen(r, a, b)
    <3>1. Plain(h)
      BY <1>8, <1>20, <2>1 DEF Plain, Name
    <3> QED BY <1>8, <1>19, <2>1, <3>1 DEF InHeaders
  <2>2. CASE Announces(a, n, v) /\ w = EndOf(r, b)
    <3>1. h[n] = v
      BY <1>8, <1>20, <2>2 DEF Plain, Announces
    <3>2. Tells(h, a)
      BY <1>8, <1>20, <2>2, <3>1 DEF Tells, Plain, Name, Announces
    <3> QED BY <1>8, <1>19, <2>2, <3>2 DEF InHeaders
  <2> QED BY <1>11, <2>1, <2>2
<1>22. InHead(r, a, "headers", e, w)
  BY <1>3, <1>4, <1>19, <1>21 DEF InHead
<1>23. Coming(r, a, "headers", e, w)
  BY <1>22 DEF Coming
<1>24. "headers" \in BusyStates /\ "headers" # "cleanup"
  BY DEF BusyStates, LineStates
<1> QED BY <1>1, <1>13, <1>16, <1>18, <1>19, <1>23, <1>24, ReceivesGoes
LEMMA DecoderIs ==
  ASSUME NULL # "chunked", NULL \notin Nat, NEW r \in Req, NEW a \in Replies,
         arg[r].code = Code(a), Tells(arg[r].headers, a)
  PROVE  /\ a.framing = "none" => Decoder(r) = "ok"
         /\ a.framing = "chunked" => Decoder(r) = "chunksize"
         /\ a.framing = "length" => Decoder(r) = "length"
         /\ a.framing = "identity" => Decoder(r) = "identity"
<1>1. PICK h : h = arg[r].headers
  OBVIOUS
<1>2. PICK d : d = arg[r].code
  OBVIOUS
<1>3. Decoder(r) = CASE ~ExpectBody(d) -> "ok"
                     [] ExpectBody(d) /\ ChunkedReply(h) -> "chunksize"
                     [] ExpectBody(d) /\ ~ChunkedReply(h)
                        /\ h["content-length"] \in Nat -> "length"
                     [] OTHER -> "identity"
  BY <1>1, <1>2 DEF Decoder
<1>4. ~ExpectBody(204) /\ ExpectBody(200)
  BY DEF ExpectBody
<1>5. IF a.framing = "none" THEN ~ExpectBody(d) ELSE ExpectBody(d)
  BY <1>2, <1>4 DEF Code
<1>6. ChunkedReply(h) <=> a.framing = "chunked"
  BY <1>1 DEF Tells, ChunkedReply
<1>7. a.framing # "none" => (h["content-length"] \in Nat <=> a.framing = "length")
  BY <1>1, ReplyIs DEF Tells
<1>8. CASE a.framing = "none"
  BY <1>3, <1>5, <1>8
<1>9. CASE a.framing = "chunked"
  BY <1>3, <1>5, <1>6, <1>9
<1>10. CASE a.framing = "length"
  BY <1>3, <1>5, <1>6, <1>7, <1>10
<1>11. CASE a.framing = "identity"
  BY <1>3, <1>5, <1>6, <1>7, <1>11
<1> QED BY <1>8, <1>9, <1>10, <1>11

LEMMA HeadersEndRight ==
  ASSUME NULL # "chunked", NULL \notin Nat, HInv, RInv, ~Uploading, NEW r \in Req,
         HeadersEnd(r), UNCHANGED at
  PROVE  RInv'
<1>1. PICK a, c, x, y, rest :
        /\ Receives(r, a, "headers", c, x, y, rest) /\ LineEnds(c) # {}
        /\ y.buf = Rest(x.buf, LineEnd(c)) /\ y.down = x.down
  <2>1. PICK s \in LineStates : s = "headers"
    BY DEF LineStates
  <2>2. HasLine(r, s)
    BY <2>1 DEF HeadersEnd
  <2> QED BY <2>1, <2>2, LineStep
<1>2. /\ a \in Replies /\ c = arg[r].channel /\ TypesOK /\ arg[r].rc = ""
      /\ Coming(r, a, "headers", arg[r], rest) /\ answer' = answer
  BY <1>1 DEF Receives, HeadersEnd, HasLine
<1>3. InHead(r, a, "headers", arg[r], rest)
  BY <1>2 DEF Coming, InPlainBody, InChunks
<1>4. PICK b \in Seq(Words) :
        BodyPart(r, a, b) /\ InHeaders(r, a, "headers", arg[r], rest, b)
  BY <1>3 DEF InHead, BeforeStatus
<1>5. PICK f \in Seq(Words) : f = Final(r, a, b)
  BY HeadWords, <1>2
<1>6. LineOf(r) = <<>>
  BY DEF HeadersEnd
<1>7. CASE arg[r].code = 100 /\ Plain(arg[r].headers) /\ rest = EndOf(r, f)
  <2>1. Next0(r, rest, f)
    BY <1>7 DEF Next0, EndOf
  <2>2. Ahead(y, f)
    BY <1>1, <2>1, ReadsNone
  <2>3. arg' = arg /\ pc' = [pc EXCEPT ![r] = "status"]
    BY <1>7 DEF HeadersEnd, Interim, Goto
  <2>4. Turns(r, "status", arg[r])
    BY <1>2, <2>3 DEF TypesOK, Turns, Others
  <2>5. BeforeStatus(r, a, "status", arg[r], f, b)
    BY <1>5, <1>7 DEF BeforeStatus
  <2>6. InHead(r, a, "status", arg[r], f)
    BY <1>3, <1>4, <2>5 DEF InHead
  <2>7. Coming(r, a, "status", arg[r], f)
    BY <2>6 DEF Coming
  <2>8. "status" \in BusyStates /\ "status" # "cleanup"
    BY DEF BusyStates, LineStates
  <2> QED BY <1>1, <1>2, <2>2, <2>4, <2>7, <2>8, ReceivesGoes
<1>8. CASE arg[r].code = Code(a)
           /\ \/ /\ Plain(arg[r].headers)
                 /\ rest = CloseThen(r, a, b) \/ rest = FrameThen(r, a, b)
              \/ Tells(arg[r].headers, a) /\ rest = EndOf(r, b)
  <2>1. Next0(r, rest, b) /\ Tells(arg[r].headers, a)
    <3>1. CASE Tells(arg[r].headers, a) /\ rest = EndOf(r, b)
      BY <3>1 DEF Next0, EndOf
    <3>2. CASE /\ Plain(arg[r].headers)
               /\ rest = CloseThen(r, a, b) \/ rest = FrameThen(r, a, b)
      <4>1. \/ ~Framed(a) /\ Next0(r, rest, b)
            \/ \E n \in Name, v \in Nat \cup {"close", "chunked"} : \E w :
                 /\ Next1(r, Unit("header", r, <<n, v>>), rest, w)
                 /\ \/ n = "connection" /\ w = FrameThen(r, a, b)
                    \/ Announces(a, n, v) /\ w = EndOf(r, b)
        BY <1>2, <3>2, HeaderFirst
      <4>2. ASSUME NEW n \in Name, NEW v \in Nat \cup {"close", "chunked"}, NEW w,
                   Next1(r, Unit("header", r, <<n, v>>), rest, w)
            PROVE  FALSE
        <5>1. PICK u \in Words : u = Unit("header", r, <<n, v>>) /\ ~IsNL(u)
          BY WordsAre
        <5>2. LineOf(r) # <<>>
          BY <1>1, <4>2, <5>1, ReadsOne
        <5> QED BY <1>6, <5>2
      <4>3. ~Framed(a) /\ Next0(r, rest, b)
        BY <4>1, <4>2
      <4>4. Tells(arg[r].headers, a)
        BY <3>2, <4>3 DEF Framed, Plain, Tells
      <4> QED BY <4>3, <4>4
    <3> QED BY <1>8, <3>1, <3>2
  <2>2. Ahead(y, b)
    BY <1>1, <2>1, ReadsNone
  <2>3. ~Interim(arg[r].code)
    BY <1>8 DEF Interim, Code
  <2>4. PICK l : l = IF arg[r].headers["content-length"] \in Nat
                     THEN arg[r].headers["content-length"] ELSE 0
    OBVIOUS
  <2>5. /\ arg' = [arg EXCEPT ![r].response_headers = arg[r].headers, ![r].length = l]
        /\ pc' = [pc EXCEPT ![r] = Decoder(r)]
    BY <2>3, <2>4 DEF HeadersEnd, Goto
  <2>6. PICK e : e = [arg[r] EXCEPT !.response_headers = arg[r].headers, !.length = l]
    OBVIOUS
  <2>7. Turns(r, Decoder(r), e)
    BY <1>2, <2>5, <2>6 DEF TypesOK, Turns, Others
  <2>8. /\ e.channel = c /\ e.rc = "" /\ e.length = l
        /\ e.sink = arg[r].sink /\ e.count = arg[r].count
    BY <1>2, <2>6, ArgFields DEF TypesOK
  <2>9. e.sink = <<>> /\ e.count = 0 /\ Piece(r, 0, 0) = <<>> /\ a.n \in Nat
    <3>1. PICK z \in Nat : z = 0
      OBVIOUS
    <3>2. Piece(r, z, z) = <<>>
      BY PieceEmpty
    <3> QED BY <1>2, <1>3, <2>8, <3>1, <3>2, ReplyIs DEF InHead
  <2>10. 0 \in 0..a.n
    BY <2>9
  <2>11. CASE a.framing = "none"
    <3>1. Decoder(r) = "ok"
      BY <1>2, <1>8, <2>1, <2>11, DecoderIs
    <3>2. a.n = 0
      BY <1>2, <2>11, ReplyIs
    <3>3. b = <<>>
      BY <1>4, <2>9, <2>11, <3>2 DEF BodyPart
    <3>4. Silent(y)
      BY <2>2, <3>3, AheadOfNothing
    <3>5. Received(r, a, e)
      BY <2>9, <2>10, <3>2 DEF Received
    <3>6. "ok" \in BusyStates /\ "ok" # "cleanup"
      BY DEF BusyStates
    <3>7. Turns(r, "ok", e)
      BY <2>7, <3>1
    <3> QED BY <1>1, <1>2, <2>8, <3>4, <3>5, <3>6, <3>7, ReceivesGoes
  <2>12. CASE a.framing = "chunked"
    <3>1. Decoder(r) = "chunksize"
      BY <1>2, <1>8, <2>1, <2>12, DecoderIs
    <3>2. ChunksAfter(r, a, 0, b)
      BY <1>4, <2>9, <2>12 DEF BodyPart, ChunksAfter
    <3>3. InChunks(r, a, "chunksize", e, b)
      BY <2>9, <2>10, <3>2 DEF InChunks
    <3>4. Coming(r, a, "chunksize", e, b)
      BY <3>3 DEF Coming
    <3>5. "chunksize" \in BusyStates /\ "chunksize" # "cleanup"
      BY DEF BusyStates, LineStates
    <3>6. Turns(r, "chunksize", e)
      BY <2>7, <3>1
    <3> QED BY <1>1, <1>2, <2>2, <2>8, <3>4, <3>5, <3>6, ReceivesGoes
  <2>13. CASE a.framing = "length"
    <3>1. Decoder(r) = "length"
      BY <1>2, <1>8, <2>1, <2>13, DecoderIs
    <3>2. b = Piece(r, 0, a.n)
      BY <1>4, <2>13 DEF BodyPart
    <3>3. l = a.n
      BY <2>1, <2>4, <2>9, <2>13 DEF Tells
    <3>4. InPlainBody(r, a, "length", e, b)
      BY <2>8, <2>9, <2>10, <3>2, <3>3 DEF InPlainBody
    <3>5. Coming(r, a, "length", e, b)
      BY <3>4 DEF Coming
    <3>6. "length" \in BusyStates /\ "length" # "cleanup"
      BY DEF BusyStates
    <3>7. Turns(r, "length", e)
      BY <2>7, <3>1
    <3> QED BY <1>1, <1>2, <2>2, <2>8, <3>5, <3>6, <3>7, ReceivesGoes
  <2>14. CASE a.framing = "identity"
    <3>1. Decoder(r) = "identity"
      BY <1>2, <1>8, <2>1, <2>14, DecoderIs
    <3>2. b = Piece(r, 0, a.n)
      BY <1>4, <2>14 DEF BodyPart
    <3>4. InPlainBody(r, a, "identity", e, b)
      BY <2>9, <2>10, <2>14, <3>2 DEF InPlainBody
    <3>5. Coming(r, a, "identity", e, b)
      BY <3>4 DEF Coming
    <3>6. "identity" \in BusyStates /\ "identity" # "cleanup"
      BY DEF BusyStates
    <3>7. Turns(r, "identity", e)
      BY <2>7, <3>1
    <3> QED BY <1>1, <1>2, <2>2, <2>8, <3>5, <3>6, <3>7, ReceivesGoes
  <2> QED BY <1>2, <2>11, <2>12, <2>13, <2>14, ReplyIs DEF Framing
<1> QED BY <1>4, <1>5, <1>7, <1>8 DEF InHeaders
-----------------------------------------------------------------------------
(***************************************************************************)
(* Chunks.                                                                 *)
(***************************************************************************)
(* The data of a chunk of k units, after m of the body, and the rest.      *)
ChunkData(r, m, k, z) == Piece(r, m, m + k) \o (<<NL(r)>> \o z)

LEMMA DataThen ==
  ASSUME NEW r \in Req, NEW m \in Nat, NEW k \in Nat, NEW z \in Seq(Words)
  PROVE  Next1(r, Unit("chunk", r, k), ChunkThen(r, m, k, z), ChunkData(r, m, k, z))
<1>1. <<NL(r)>> \o z \in Seq(Words)
  BY LinesAre, ConcatProperties
<1>2. PICK h \in Nat : h = m + k /\ m <= h
  OBVIOUS
<1>3. Piece(r, m, h) \in Seq(Words)
  BY <1>2, PieceWords
<1>4. PICK p \in Seq(Words), q \in Seq(Words) : p = Piece(r, m, h) /\ q = <<NL(r)>> \o z
  BY <1>1, <1>3
<1>5. p \o q \in Seq(Words)
  BY ConcatProperties
<1> QED BY <1>2, <1>4, <1>5 DEF Next1, ChunkThen, ChunkData

LEMMA ChunkFirst ==
  ASSUME NEW r \in Req, NEW a \in Replies, NEW m \in 0..a.n, NEW rest,
         ChunksAfter(r, a, m, rest)
  PROVE  \/ m = a.n /\ Next1(r, Unit("chunk", r, 0), rest, TrailerEnd(r, a))
         \/ \E k \in 1..(a.n - m), z \in Seq(Words) :
              /\ ChunksAfter(r, a, m + k, z)
              /\ Next1(r, Unit("chunk", r, k), rest, ChunkData(r, m, k, z))
<1>1. a.n \in Nat /\ m \in Nat /\ m <= a.n
  BY ReplyIs
<1>2. LastChunk(r, a) \in Seq(Words) /\ TrailerEnd(r, a) \in Seq(Words)
  BY ChunkWords
<1>3. CASE m = a.n /\ rest = LastChunk(r, a)
  BY <1>2, <1>3 DEF LastChunk, Next1
<1>4. CASE m < a.n /\ rest = SecondChunk(r, a, m)
  <2>1. PICK k \in Nat : k = a.n - m
    BY <1>1, <1>4
  <2>2. k \in 1..(a.n - m) /\ m + k = a.n
    BY <1>1, <1>4, <2>1
  <2>3. ChunksAfter(r, a, m + k, LastChunk(r, a))
    BY <2>2 DEF ChunksAfter
  <2>4. rest = ChunkThen(r, m, k, LastChunk(r, a))
    BY <1>4, <2>1 DEF SecondChunk
  <2>5. Next1(r, Unit("chunk", r, k), rest, ChunkData(r, m, k, LastChunk(r, a)))
    <3>1. PICK z \in Seq(Words) : z = LastChunk(r, a)
      BY <1>2
    <3>2. Next1(r, Unit("chunk", r, k), ChunkThen(r, m, k, z), ChunkData(r, m, k, z))
      BY <1>1, DataThen
    <3> QED BY <2>4, <3>1, <3>2
  <2> QED BY <1>2, <2>2, <2>3, <2>5
<1>5. CASE m = 0 /\ 1 < a.n /\ rest = ChunkThen(r, 0, 1, SecondChunk(r, a, 1))
  <2>1. PICK i \in 0..a.n, k \in Nat : i = 1 /\ k = 1
    BY <1>1, <1>5
  <2>2. PICK z \in Seq(Words) : z = SecondChunk(r, a, i)
    BY ChunkWords
  <2>3. rest = ChunkThen(r, m, k, z) /\ k \in 1..(a.n - m) /\ m + k = i
    BY <1>1, <1>5, <2>1, <2>2
  <2>4. ChunksAfter(r, a, m + k, z)
    BY <1>5, <2>1, <2>2, <2>3 DEF ChunksAfter
  <2>5. Next1(r, Unit("chunk", r, k), rest, ChunkData(r, m, k, z))
    BY <1>1, <2>3, DataThen
  <2> QED BY <2>3, <2>4, <2>5
<1> QED BY <1>3, <1>4, <1>5 DEF ChunksAfter

LEMMA ChunkSizeRight ==
  ASSUME HInv, RInv, ~Uploading, NEW r \in Req, ChunkSize(r), UNCHANGED at
  PROVE  RInv'
<1>1. PICK a, c, x, y, rest :
        /\ Receives(r, a, "chunksize", c, x, y, rest) /\ LineEnds(c) # {}
        /\ y.buf = Rest(x.buf, LineEnd(c)) /\ y.down = x.down
  <2>1. PICK s \in LineStates : s = "chunksize"
    BY DEF LineStates
  <2>2. HasLine(r, s)
    BY <2>1 DEF ChunkSize
  <2> QED BY <2>1, <2>2, LineStep
<1>2. /\ a \in Replies /\ c = arg[r].channel /\ TypesOK /\ arg[r].rc = ""
      /\ Coming(r, a, "chunksize", arg[r], rest) /\ answer' = answer
  BY <1>1 DEF Receives, ChunkSize, HasLine
<1>3. PICK m \in 0..a.n : arg[r].sink = Piece(r, 0, m) /\ ChunksAfter(r, a, m, rest)
  BY <1>2 DEF Coming, InHead, BeforeStatus, InHeaders, InPlainBody, InChunks
<1>4. ASSUME NEW k \in Nat, NEW w, Next1(r, Unit("chunk", r, k), rest, w)
      PROVE  /\ Ahead(y, w)
             /\ \E e : /\ Turns(r, IF k = 0 THEN "trailer" ELSE "chunkdata", e)
                       /\ e.channel = c /\ e.rc = "" /\ e.length = k /\ e.chunk = <<>>
                       /\ e.sink = arg[r].sink
  <2>1. PICK u \in Words : u = Unit("chunk", r, k) /\ ~IsNL(u)
    BY WordsAre
  <2>2. /\ LineOf(r)[1] = u /\ Len(LineOf(r)) = 1 /\ Ahead(y, w)
    BY <1>1, <1>4, <2>1, ReadsOne
  <2>3. IsA(LineOf(r), "chunk") /\ LineOf(r)[1][3] = k
    BY <2>1, <2>2 DEF IsA, Unit
  <2>4. /\ arg' = [arg EXCEPT ![r].length = k, ![r].chunk = <<>>]
        /\ pc' = [pc EXCEPT ![r] = IF k = 0 THEN "trailer" ELSE "chunkdata"]
    BY <2>3 DEF ChunkSize, Goto
  <2>5. PICK e : e = [arg[r] EXCEPT !.length = k, !.chunk = <<>>]
    OBVIOUS
  <2>6. Turns(r, IF k = 0 THEN "trailer" ELSE "chunkdata", e)
    BY <1>2, <2>4, <2>5 DEF TypesOK, Turns, Others
  <2>7. /\ e.channel = c /\ e.rc = "" /\ e.length = k /\ e.chunk = <<>>
        /\ e.sink = arg[r].sink
    BY <1>2, <2>5, ArgFields DEF TypesOK
  <2> QED BY <2>2, <2>6, <2>7
<1>5. CASE m = a.n /\ Next1(r, Unit("chunk", r, 0), rest, TrailerEnd(r, a))
  <2>1. PICK k \in Nat : k = 0
    OBVIOUS
  <2>2. Next1(r, Unit("chunk", r, k), rest, TrailerEnd(r, a))
    BY <1>5, <2>1
  <2>3. /\ Ahead(y, TrailerEnd(r, a))
        /\ \E e : /\ Turns(r, IF k = 0 THEN "trailer" ELSE "chunkdata", e)
                  /\ e.channel = c /\ e.rc = "" /\ e.length = k /\ e.chunk = <<>>
                  /\ e.sink = arg[r].sink
    BY <1>4, <2>2
  <2>4. PICK e : Turns(r, "trailer", e) /\ e.channel = c /\ e.rc = ""
                 /\ e.sink = arg[r].sink
    BY <2>1, <2>3
  <2>5. InChunks(r, a, "trailer", e, TrailerEnd(r, a))
    BY <1>3, <1>5, <2>4 DEF InChunks
  <2>6. Coming(r, a, "trailer", e, TrailerEnd(r, a))
    BY <2>5 DEF Coming
  <2>7. "trailer" \in BusyStates /\ "trailer" # "cleanup"
    BY DEF BusyStates, LineStates
  <2> QED BY <1>1, <1>2, <2>3, <2>4, <2>6, <2>7, ReceivesGoes
<1>6. CASE \E k \in 1..(a.n - m), z \in Seq(Words) :
             /\ ChunksAfter(r, a, m + k, z)
             /\ Next1(r, Unit("chunk", r, k), rest, ChunkData(r, m, k, z))
  <2>1. PICK k \in 1..(a.n - m), z \in Seq(Words) :
          /\ ChunksAfter(r, a, m + k, z)
          /\ Next1(r, Unit("chunk", r, k), rest, ChunkData(r, m, k, z))
    BY <1>6
  <2>2. m \in Nat /\ k \in Nat /\ k # 0
    <3>1. a.n \in Nat
      BY <1>2, ReplyIs
    <3> QED BY <3>1
  <2>3. PICK w : w = ChunkData(r, m, k, z)
    OBVIOUS
  <2>4. /\ Ahead(y, w)
        /\ \E e : /\ Turns(r, IF k = 0 THEN "trailer" ELSE "chunkdata", e)
                  /\ e.channel = c /\ e.rc = "" /\ e.length = k /\ e.chunk = <<>>
                  /\ e.sink = arg[r].sink
    BY <1>4, <2>1, <2>2, <2>3
  <2>5. PICK e : /\ Turns(r, "chunkdata", e) /\ e.channel = c /\ e.rc = ""
                 /\ e.length = k /\ e.chunk = <<>> /\ e.sink = arg[r].sink
    BY <2>2, <2>4
  <2>6. PICK j \in 0..k : j = 0
    BY <2>2
  <2>7. m + j = m /\ e.chunk = Piece(r, m, m + j)
    <3>1. m + j = m
      BY <2>2, <2>6
    <3>2. Piece(r, m, m) = <<>>
      BY <2>2, PieceEmpty
    <3> QED BY <2>5, <3>1, <3>2
  <2>8. w = Piece(r, m + j, m + k) \o (<<NL(r)>> \o z)
    BY <2>3, <2>7 DEF ChunkData
  <2>9. InChunks(r, a, "chunkdata", e, w)
    BY <1>3, <2>1, <2>5, <2>7, <2>8 DEF InChunks
  <2>10. Coming(r, a, "chunkdata", e, w)
    BY <2>9 DEF Coming
  <2>11. "chunkdata" \in BusyStates /\ "chunkdata" # "cleanup"
    BY DEF BusyStates
  <2> QED BY <1>1, <1>2, <2>4, <2>5, <2>10, <2>11, ReceivesGoes
<1>7. \/ m = a.n /\ Next1(r, Unit("chunk", r, 0), rest, TrailerEnd(r, a))
      \/ \E k \in 1..(a.n - m), z \in Seq(Words) :
             /\ ChunksAfter(r, a, m + k, z)
             /\ Next1(r, Unit("chunk", r, k), rest, ChunkData(r, m, k, z))
  BY <1>2, <1>3, ChunkFirst
<1> QED BY <1>5, <1>6, <1>7
LEMMA ChunkEndRight ==
  ASSUME HInv, RInv, ~Uploading, NEW r \in Req, ChunkEnd(r), UNCHANGED at
  PROVE  RInv'
<1>1. PICK a, c, x, y, rest :
        /\ Receives(r, a, "chunkend", c, x, y, rest) /\ LineEnds(c) # {}
        /\ y.buf = Rest(x.buf, LineEnd(c)) /\ y.down = x.down
  <2>1. PICK s \in LineStates : s = "chunkend"
    BY DEF LineStates
  <2>2. HasLine(r, s)
    BY <2>1 DEF ChunkEnd
  <2> QED BY <2>1, <2>2, LineStep
<1>2. /\ a \in Replies /\ c = arg[r].channel /\ TypesOK /\ arg[r].rc = ""
      /\ Coming(r, a, "chunkend", arg[r], rest) /\ answer' = answer
  BY <1>1 DEF Receives, ChunkEnd, HasLine
<1>3. PICK m \in 0..a.n : arg[r].sink = Piece(r, 0, m) /\
        \E k \in 1..(a.n - m), z \in Seq(Words) :
          /\ ChunksAfter(r, a, m + k, z)
          /\ arg[r].chunk = Piece(r, m, m + k) /\ rest = <<NL(r)>> \o z
  BY <1>2 DEF Coming, InHead, BeforeStatus, InHeaders, InPlainBody, InChunks
<1>4. PICK k \in 1..(a.n - m), z \in Seq(Words) :
        /\ ChunksAfter(r, a, m + k, z)
        /\ arg[r].chunk = Piece(r, m, m + k) /\ rest = <<NL(r)>> \o z
  BY <1>3
<1>5. a.n \in Nat
  BY <1>2, ReplyIs
<1>6. PICK h \in 0..a.n : h = m + k /\ m <= h
  BY <1>5
<1>7. Next0(r, rest, z)
  BY <1>4 DEF Next0
<1>8. Ahead(y, z)
  BY <1>1, <1>7, ReadsNone
<1>9. Piece(r, 0, m) \o Piece(r, m, h) = Piece(r, 0, h)
  <2>1. PICK o \in Nat : o = 0
    OBVIOUS
  <2>2. o <= m /\ m <= h /\ m \in Nat /\ h \in Nat
    BY <1>5, <1>6, <2>1
  <2>3. Piece(r, o, m) \o Piece(r, m, h) = Piece(r, o, h)
    BY <2>2, PieceJoin
  <2> QED BY <2>1, <2>3
<1>10. PICK e : e = [arg[r] EXCEPT !.sink = arg[r].sink \o arg[r].chunk]
  OBVIOUS
<1>11. /\ arg' = [arg EXCEPT ![r].sink = arg[r].sink \o arg[r].chunk]
       /\ pc' = [pc EXCEPT ![r] = "chunksize"]
  BY DEF ChunkEnd, Goto
<1>12. Turns(r, "chunksize", e)
  BY <1>2, <1>10, <1>11 DEF TypesOK, Turns, Others
<1>13. e.channel = c /\ e.rc = "" /\ e.sink = arg[r].sink \o arg[r].chunk
  BY <1>2, <1>10, ArgFields DEF TypesOK
<1>14. e.sink = Piece(r, 0, h)
  BY <1>3, <1>4, <1>6, <1>9, <1>13
<1>15. InChunks(r, a, "chunksize", e, z)
  BY <1>4, <1>6, <1>14 DEF InChunks
<1>16. Coming(r, a, "chunksize", e, z)
  BY <1>15 DEF Coming
<1>17. "chunksize" \in BusyStates /\ "chunksize" # "cleanup"
  BY DEF BusyStates, LineStates
<1> QED BY <1>1, <1>2, <1>8, <1>12, <1>13, <1>16, <1>17, ReceivesGoes

LEMMA TrailerRight ==
  ASSUME HInv, RInv, ~Uploading, NEW r \in Req, Trailer(r), UNCHANGED at
  PROVE  RInv'
<1>1. PICK a, c, x, y, rest :
        /\ Receives(r, a, "trailer", c, x, y, rest) /\ LineEnds(c) # {}
        /\ y.buf = Rest(x.buf, LineEnd(c)) /\ y.down = x.down
  <2>1. PICK s \in LineStates : s = "trailer"
    BY DEF LineStates
  <2>2. HasLine(r, s)
    BY <2>1 DEF Trailer
  <2> QED BY <2>1, <2>2, LineStep
<1>2. /\ a \in Replies /\ c = arg[r].channel /\ TypesOK /\ arg[r].rc = ""
      /\ Coming(r, a, "trailer", arg[r], rest) /\ answer' = answer /\ pc[r] = "trailer"
  BY <1>1 DEF Receives, Trailer, HasLine
<1>3. PICK m \in 0..a.n : /\ arg[r].sink = Piece(r, 0, m) /\ m = a.n
                          /\ rest = TrailerEnd(r, a) \/ rest = <<NL(r)>>
  BY <1>2 DEF Coming, InHead, BeforeStatus, InHeaders, InPlainBody, InChunks
<1>4. <<NL(r)>> \in Seq(Words) /\ <<>> \in Seq(Words) /\ <<NL(r)>> \o <<>> = <<NL(r)>>
  BY LinesAre, EmptySeq, ConcatEmptySeq
<1>5. CASE rest = <<NL(r)>>
  <2>1. Next0(r, rest, <<>>)
    BY <1>4, <1>5 DEF Next0
  <2>2. LineOf(r) = <<>> /\ Ahead(y, <<>>)
    BY <1>1, <2>1, ReadsNone
  <2>3. arg' = arg /\ pc' = [pc EXCEPT ![r] = "ok"]
    BY <2>2 DEF Trailer, Goto
  <2>4. Turns(r, "ok", arg[r])
    BY <1>2, <2>3 DEF TypesOK, Turns, Others
  <2>5. Silent(y)
    BY <2>2, AheadOfNothing
  <2>6. Received(r, a, arg[r])
    BY <1>3 DEF Received
  <2>7. "ok" \in BusyStates /\ "ok" # "cleanup"
    BY DEF BusyStates
  <2> QED BY <1>1, <1>2, <2>4, <2>5, <2>6, <2>7, ReceivesGoes
<1>6. CASE rest = TrailerEnd(r, a) /\ a.close
  <2>1. PICK u \in Words : u = Unit("header", r, <<"connection", "close">>) /\ ~IsNL(u)
    BY WordsAre DEF Name
  <2>2. Next1(r, u, rest, <<NL(r)>>)
    BY <1>4, <1>6, <2>1 DEF Next1, TrailerEnd, Header
  <2>3. /\ LineOf(r)[1] = u /\ Len(LineOf(r)) = 1 /\ LineOf(r) # <<>>
        /\ Ahead(y, <<NL(r)>>)
    BY <1>1, <2>1, <2>2, ReadsOne
  <2>4. IsA(LineOf(r), "header")
    BY <2>1, <2>3 DEF IsA, Unit
  <2>5. PICK h : h = AddHeader(arg[r].response_headers, LineOf(r)[1])
    OBVIOUS
  <2>6. arg' = [arg EXCEPT ![r].response_headers = h] /\ pc' = pc
    BY <2>3, <2>4, <2>5 DEF Trailer
  <2>7. PICK e : e = [arg[r] EXCEPT !.response_headers = h]
    OBVIOUS
  <2>8. Turns(r, "trailer", e)
    BY <1>2, <2>6, <2>7 DEF TypesOK, Turns, Others
  <2>9. e.channel = c /\ e.rc = "" /\ e.sink = arg[r].sink
    BY <1>2, <2>7, ArgFields DEF TypesOK
  <2>10. InChunks(r, a, "trailer", e, <<NL(r)>>)
    BY <1>3, <2>9 DEF InChunks
  <2>11. Coming(r, a, "trailer", e, <<NL(r)>>)
    BY <2>10 DEF Coming
  <2>12. "trailer" \in BusyStates /\ "trailer" # "cleanup"
    BY DEF BusyStates, LineStates
  <2> QED BY <1>1, <1>2, <2>3, <2>8, <2>9, <2>11, <2>12, ReceivesGoes
<1>7. rest = <<NL(r)>> \/ (rest = TrailerEnd(r, a) /\ a.close)
  BY <1>3 DEF TrailerEnd
<1> QED BY <1>5, <1>6, <1>7
-----------------------------------------------------------------------------
(***************************************************************************)
(* Characters of a body.                                                   *)
(***************************************************************************)
There(x) == IF x.buf # <<>> THEN x.buf ELSE x.down
Taken(x, y, k) == IF x.buf # <<>> THEN y.buf = Rest(x.buf, k) /\ y.down = x.down
                  ELSE y.buf = x.buf /\ y.down = Rest(x.down, k)

LEMMA ThereIs ==
  ASSUME NEW x, NEW rest, Ahead(x, rest)
  PROVE  /\ There(x) \in Seq(Words) /\ Len(There(x)) \in Nat /\ Len(rest) \in Nat
         /\ Len(There(x)) <= Len(rest)
<1>1. /\ x.buf \in Seq(Words) /\ x.down \in Seq(Words)
      /\ Len(Stream(x)) = Len(x.buf) + Len(x.down) + Len(x.flight)
      /\ Len(x.buf) \in Nat /\ Len(x.down) \in Nat /\ Len(x.flight) \in Nat
      /\ Len(rest) \in Nat /\ Len(Stream(x)) <= Len(rest)
  BY AheadIs
<1>2. Len(x.buf) <= Len(rest) /\ Len(x.down) <= Len(rest)
  <2>1. PICK b \in Nat, d \in Nat, f \in Nat, l \in Nat :
          b = Len(x.buf) /\ d = Len(x.down) /\ f = Len(x.flight) /\ l = Len(rest)
    BY <1>1
  <2>2. b + d + f <= l
    BY <1>1, <2>1
  <2>3. b <= l /\ d <= l
    BY <2>2
  <2> QED BY <2>1, <2>3
<1>3. CASE x.buf # <<>>
  BY <1>1, <1>2, <1>3 DEF There
<1>4. CASE x.buf = <<>>
  BY <1>1, <1>2, <1>4 DEF There
<1> QED BY <1>3, <1>4

LEMMA TakePiece ==
  ASSUME NEW r \in Req, NEW x, NEW m \in Nat, NEW n \in Nat, NEW k \in Nat,
         NEW h \in Nat, h = m + k, h <= n, NEW z \in Seq(Words),
         Ahead(x, Piece(r, m, n) \o z), k <= Len(There(x)),
         NEW y, Taken(x, y, k), y.flight = x.flight, Broken(x) => Broken(y)
  PROVE  SubSeq(There(x), 1, k) = Piece(r, m, h) /\ Ahead(y, Piece(r, h, n) \o z)
<1>1. m <= h
  OBVIOUS
<1>2. PICK p \in Seq(Words), q \in Seq(Words) :
        p = Piece(r, m, h) /\ q = Piece(r, h, n) /\ Len(p) = h - m
  BY <1>1, PieceWords
<1>3. h - m = k
  OBVIOUS
<1>4. Len(p) = k
  BY <1>2, <1>3
<1>5. Piece(r, m, n) = p \o q
  BY <1>1, <1>2, PieceJoin
<1>6. JoinsThree(p, q, z)
  BY JoinThree
<1>7. PICK w \in Seq(Words) : w = q \o z
  BY ConcatProperties
<1>8. Ahead(x, p \o w)
  BY <1>5, <1>6, <1>7 DEF JoinsThree
<1>9. CASE x.buf # <<>>
  <2>1. Len(p) <= Len(x.buf) /\ y.buf = Rest(x.buf, Len(p)) /\ y.down = x.down
    BY <1>4, <1>9 DEF There, Taken
  <2>2. Ahead(y, w) /\ SubSeq(x.buf, 1, Len(p)) = p
    BY <1>8, <2>1, TakeBuffer
  <2> QED BY <1>2, <1>4, <1>7, <1>9, <2>2 DEF There
<1>10. CASE x.buf = <<>>
  <2>1. /\ Len(p) <= Len(x.down) /\ y.buf = <<>> /\ y.down = Rest(x.down, Len(p))
    BY <1>4, <1>10 DEF There, Taken
  <2>2. Ahead(y, w) /\ SubSeq(x.down, 1, Len(p)) = p
    BY <1>8, <1>10, <2>1, TakeArrived
  <2> QED BY <1>2, <1>4, <1>7, <1>10, <2>2 DEF There
<1> QED BY <1>9, <1>10

BodyStates == {"length", "identity", "chunkdata"}

LEMMA BodyStep ==
  ASSUME HInv, RInv, ~Uploading, NEW r \in Req, NEW s \in BodyStates, pc[r] = s
  PROVE  \E a, c, x, rest :
           /\ a \in Replies /\ Uses(r) /\ TypesOK
           /\ c = ChannelOf(r) /\ c = arg[r].channel /\ c \in Channel /\ x = conn[c]
           /\ x # NULL /\ Held(x) /\ x.got = <<>> /\ x.up = <<>>
           /\ arg[r].rc = "" /\ answer[r] = AnswerTo(r, a)
           /\ rest \in Seq(Words) /\ Coming(r, a, s, arg[r], rest) /\ Ahead(x, rest)
<1>1. pc[r] \in BusyStates /\ s \notin {"cleanup", "connect", "done", "ok", "send", "status"}
  BY DEF BusyStates, BodyStates
<1>2. PICK c, x :
        /\ c = ChannelOf(r) /\ c = arg[r].channel /\ c \in Channel /\ x = conn[c]
        /\ conn[c] # NULL /\ Held(x) /\ Right(r, pc[r], arg[r], answer[r], x)
        /\ TypesOK /\ Uses(r)
  BY <1>1, BusyRight
<1>3. Answered(r, s, arg[r], answer[r], x) /\ arg[r].rc = ""
  BY <1>1, <1>2 DEF Right, Asking
<1>4. x.got = <<>> /\ x.up = <<>>
  BY <1>3 DEF Answered
<1>5. PICK a \in Replies, rest \in Seq(Words) :
        answer[r] = AnswerTo(r, a) /\ Coming(r, a, s, arg[r], rest) /\ Ahead(x, rest)
  BY <1>1, <1>3 DEF Answered
<1> QED BY <1>2, <1>3, <1>4, <1>5

LEMMA CharsRight ==
  ASSUME HInv, RInv, ~Uploading, NEW r \in Req, ReadChars(r), UNCHANGED at
  PROVE  RInv'
<1>1. PICK s \in BodyStates : pc[r] = s
  BY DEF ReadChars, Running, BodyStates
<1>2. PICK a, c, x, rest :
        /\ a \in Replies /\ Uses(r) /\ TypesOK
        /\ c = ChannelOf(r) /\ c = arg[r].channel /\ c \in Channel /\ x = conn[c]
        /\ x # NULL /\ Held(x) /\ x.got = <<>> /\ x.up = <<>>
        /\ arg[r].rc = "" /\ answer[r] = AnswerTo(r, a)
        /\ rest \in Seq(Words) /\ Coming(r, a, s, arg[r], rest) /\ Ahead(x, rest)
  BY <1>1, BodyStep
<1>3. PICK k : k = AtMost(r)
  OBVIOUS
<1>4. Available(c) = There(x)
  BY <1>2 DEF Available, There
<1>5. TakeChars(c, k) /\ Consume(r, SubSeq(There(x), 1, k)) /\ UNCHANGED <<pc, answer>>
      /\ Reads(r)
  BY <1>2, <1>3, <1>4 DEF ReadChars
<1>6. PICK y : Turned(c, y) /\ Reread(x, y) /\ Taken(x, y, k)
  BY <1>2, <1>5, CharsMoves DEF Taken
<1>7. /\ Held(y) /\ (Broken(x) => Broken(y)) /\ y.flight = x.flight
      /\ y.got = x.got /\ y.up = x.up
  BY <1>2, <1>6, RereadIs
<1>8. Receives(r, a, s, c, x, y, rest)
  BY <1>1, <1>2, <1>6, <1>7 DEF Receives
<1>9. PICK l \in Nat : l = Len(There(x)) /\ l <= Len(rest)
  BY <1>2, ThereIs
<1>10. k = IF Wanted(r) < l THEN Wanted(r) ELSE l
  BY <1>2, <1>3, <1>4, <1>9 DEF AtMost
<1>11. s \in BusyStates /\ s # "cleanup"
  BY DEF BodyStates, BusyStates
<1>12. a.n \in Nat
  BY <1>2, ReplyIs
<1>13. CASE s \in {"length", "identity"}
  <2>1. InPlainBody(r, a, s, arg[r], rest)
    BY <1>2, <1>13 DEF Coming, InHead, BeforeStatus, InHeaders, InChunks
  <2>2. PICK m \in 0..a.n :
          /\ arg[r].sink = Piece(r, 0, m) /\ rest = Piece(r, m, a.n)
          /\ \/ s = "length" /\ arg[r].length = a.n /\ arg[r].count = m
             \/ s = "identity" /\ a.framing = "identity"
    BY <2>1 DEF InPlainBody
  <2>3. m \in Nat /\ m <= a.n
    BY <1>12
  <2>4. l <= a.n - m
    BY <1>9, <1>12, <2>2, <2>3, PieceWords
  <2>5. k \in Nat /\ k <= l /\ k <= a.n - m
    <3>1. CASE s = "length"
      <4>1. Wanted(r) = a.n - m
        BY <1>1, <2>2, <3>1 DEF Wanted
      <4>2. a.n - m > 0
        BY <1>1, <1>5, <3>1, <4>1 DEF Reads
      <4> QED BY <1>10, <1>12, <2>3, <4>1, <4>2
    <3>2. CASE s = "identity"
      <4>1. Wanted(r) = l
        BY <1>1, <1>2, <1>4, <1>9, <3>2 DEF Wanted
      <4> QED BY <1>10, <2>4, <4>1
    <3> QED BY <1>13, <3>1, <3>2
  <2>6. PICK h \in 0..a.n : h = m + k /\ h \in Nat /\ h <= a.n /\ m <= h
    BY <1>12, <2>3, <2>5
  <2>7. SubSeq(There(x), 1, k) = Piece(r, m, h) /\ Ahead(y, Piece(r, h, a.n))
    <3>1. PICK z \in Seq(Words), n \in Nat : z = <<>> /\ n = a.n
      BY <1>12, EmptySeq
    <3>2. PICK p \in Seq(Words), q \in Seq(Words) : p = Piece(r, m, n) /\ q = Piece(r, h, n)
      BY <2>3, <2>6, <3>1, PieceWords
    <3>3. p \o z = p /\ q \o z = q
      BY <3>1, ConcatEmptySeq
    <3>4. Ahead(x, Piece(r, m, n) \o z)
      BY <1>2, <2>2, <3>1, <3>2, <3>3
    <3>5. k <= Len(There(x)) /\ h <= n
      BY <1>9, <2>5, <2>6, <3>1
    <3>6. SubSeq(There(x), 1, k) = Piece(r, m, h) /\ Ahead(y, Piece(r, h, n) \o z)
      BY <1>6, <1>7, <2>3, <2>5, <2>6, <3>4, <3>5, TakePiece
    <3> QED BY <3>1, <3>2, <3>3, <3>6
  <2>8. PICK t : t = SubSeq(There(x), 1, k) /\ Len(t) = k
    <3>1. Len(Piece(r, m, h)) = h - m
      BY <2>3, <2>6, PieceWords
    <3>2. h - m = k
      BY <2>3, <2>5, <2>6
    <3> QED BY <2>7, <3>1, <3>2
  <2>9. PICK e : e = [arg[r] EXCEPT !.sink = arg[r].sink \o t, !.count = arg[r].count + Len(t)]
    OBVIOUS
  <2>10. arg' = [arg EXCEPT ![r].sink = arg[r].sink \o t, ![r].count = arg[r].count + Len(t)]
    BY <1>1, <1>5, <1>13, <2>8 DEF Consume
  <2>11. Turns(r, s, e)
    BY <1>1, <1>2, <1>5, <2>9, <2>10 DEF TypesOK, Turns, Others
  <2>12. /\ e.channel = c /\ e.rc = "" /\ e.sink = arg[r].sink \o t
         /\ e.count = arg[r].count + Len(t) /\ e.length = arg[r].length
    BY <1>2, <2>9, ArgFields DEF TypesOK
  <2>13. e.sink = Piece(r, 0, h)
    <3>1. PICK o \in Nat : o = 0
      OBVIOUS
    <3>2. o <= m
      BY <2>3, <3>1
    <3>3. Piece(r, o, m) \o Piece(r, m, h) = Piece(r, o, h)
      BY <2>3, <2>6, <3>2, PieceJoin
    <3>4. arg[r].sink = Piece(r, o, m) /\ t = Piece(r, m, h)
      BY <2>2, <2>7, <2>8, <3>1
    <3> QED BY <2>12, <3>1, <3>3, <3>4
  <2>14. s = "length" => e.count = h
    BY <2>2, <2>6, <2>8, <2>12
  <2>15. InPlainBody(r, a, s, e, Piece(r, h, a.n))
    BY <2>2, <2>6, <2>12, <2>13, <2>14 DEF InPlainBody
  <2>16. Coming(r, a, s, e, Piece(r, h, a.n))
    BY <2>15 DEF Coming
  <2> QED BY <1>5, <1>8, <1>11, <2>7, <2>11, <2>12, <2>16, ReceivesGoes
<1>14. CASE s = "chunkdata"
  <2>1. InChunks(r, a, s, arg[r], rest)
    BY <1>2, <1>14 DEF Coming, InHead, BeforeStatus, InHeaders, InPlainBody
  <2>2. PICK m \in 0..a.n : /\ arg[r].sink = Piece(r, 0, m)
          /\ \E i \in 1..(a.n - m), z \in Seq(Words) :
               /\ ChunksAfter(r, a, m + i, z) /\ arg[r].length = i
               /\ \E j \in 0..i : /\ arg[r].chunk = Piece(r, m, m + j)
                                  /\ rest = Piece(r, m + j, m + i) \o (<<NL(r)>> \o z)
    BY <1>14, <2>1 DEF InChunks
  <2>3. PICK i \in 1..(a.n - m), z \in Seq(Words) :
          /\ ChunksAfter(r, a, m + i, z) /\ arg[r].length = i
          /\ \E j \in 0..i : /\ arg[r].chunk = Piece(r, m, m + j)
                             /\ rest = Piece(r, m + j, m + i) \o (<<NL(r)>> \o z)
    BY <2>2
  <2>4. PICK j \in 0..i : /\ arg[r].chunk = Piece(r, m, m + j)
                          /\ rest = Piece(r, m + j, m + i) \o (<<NL(r)>> \o z)
    BY <2>3
  <2>5. PICK f \in Nat, n \in Nat : f = m + j /\ n = m + i /\ f <= n /\ m <= f /\ m \in Nat
                                    /\ n - f = i - j /\ f - m = j
    BY <1>12
  <2>6. Len(arg[r].chunk) = j
    <3>1. m \in Nat /\ f \in Nat /\ m <= f
      BY <2>5
    <3>2. Len(Piece(r, m, f)) = f - m
      BY <3>1, PieceWords
    <3> QED BY <2>4, <2>5, <3>2
  <2>7. Wanted(r) = i - j /\ i - j > 0
    <3>1. Wanted(r) = i - j
      BY <1>1, <1>14, <2>3, <2>6 DEF Wanted
    <3> QED BY <1>1, <1>5, <1>14, <3>1 DEF Reads
  <2>8. k \in Nat /\ k <= l /\ k <= i - j
    BY <1>10, <2>7
  <2>9. PICK h \in Nat, g \in 0..i : h = f + k /\ h <= n /\ g = j + k /\ h = m + g
    BY <1>12, <2>5, <2>8
  <2>10. PICK w \in Seq(Words) : w = <<NL(r)>> \o z
    BY LinesAre, ConcatProperties
  <2>11. SubSeq(There(x), 1, k) = Piece(r, f, h) /\ Ahead(y, Piece(r, h, n) \o w)
    <3>1. Ahead(x, Piece(r, f, n) \o w)
      BY <1>2, <2>4, <2>5, <2>10
    <3>2. k <= Len(There(x))
      BY <1>9, <2>8
    <3> QED BY <1>6, <1>7, <2>5, <2>8, <2>9, <3>1, <3>2, TakePiece
  <2>12. PICK t : t = SubSeq(There(x), 1, k)
    OBVIOUS
  <2>13. PICK e : e = [arg[r] EXCEPT !.chunk = arg[r].chunk \o t]
    OBVIOUS
  <2>14. arg' = [arg EXCEPT ![r].chunk = arg[r].chunk \o t]
    BY <1>1, <1>5, <1>14, <2>12 DEF Consume
  <2>15. Turns(r, s, e)
    BY <1>1, <1>2, <1>5, <2>13, <2>14 DEF TypesOK, Turns, Others
  <2>16. /\ e.channel = c /\ e.rc = "" /\ e.chunk = arg[r].chunk \o t
         /\ e.sink = arg[r].sink /\ e.length = arg[r].length
    BY <1>2, <2>13, ArgFields DEF TypesOK
  <2>17. e.chunk = Piece(r, m, m + g)
    <3>1. m \in Nat /\ f \in Nat /\ h \in Nat /\ m <= f /\ f <= h
      BY <2>5, <2>8, <2>9
    <3>2. Piece(r, m, f) \o Piece(r, f, h) = Piece(r, m, h)
      BY <3>1, PieceJoin
    <3>3. arg[r].chunk = Piece(r, m, f) /\ t = Piece(r, f, h)
      BY <2>4, <2>5, <2>11, <2>12
    <3> QED BY <2>9, <2>16, <3>2, <3>3
  <2>18. PICK v : v = Piece(r, h, n) \o w /\ v = Piece(r, m + g, m + i) \o (<<NL(r)>> \o z)
    BY <2>5, <2>9, <2>10
  <2>19. InChunks(r, a, s, e, v)
    BY <1>14, <2>2, <2>3, <2>9, <2>16, <2>17, <2>18 DEF InChunks
  <2>20. Coming(r, a, s, e, v)
    BY <2>19 DEF Coming
  <2> QED BY <1>5, <1>8, <1>11, <2>11, <2>15, <2>16, <2>18, <2>20, ReceivesGoes
<1> QED BY <1>13, <1>14 DEF BodyStates

(* The end of the connection is the end of a body without length.          *)
LEMMA ReadNothingRight ==
  ASSUME HInv, RInv, ~Uploading, NEW r \in Req, ReadNothing(r), UNCHANGED at
  PROVE  RInv'
<1>1. PICK s \in BodyStates : pc[r] = s
  BY DEF ReadNothing, Running, BodyStates
<1>2. PICK a, c, x, rest :
        /\ a \in Replies /\ Uses(r) /\ TypesOK
        /\ c = ChannelOf(r) /\ c = arg[r].channel /\ c \in Channel /\ x = conn[c]
        /\ x # NULL /\ Held(x) /\ x.got = <<>> /\ x.up = <<>>
        /\ arg[r].rc = "" /\ answer[r] = AnswerTo(r, a)
        /\ rest \in Seq(Words) /\ Coming(r, a, s, arg[r], rest) /\ Ahead(x, rest)
  BY <1>1, BodyStep
<1>3. UNCHANGED conn /\ UNCHANGED answer /\ Keep
  BY DEF ReadNothing, Keep
<1>4. CASE ~AtEnd(c)
  <2>1. UNCHANGED <<pc, arg>>
    BY <1>2, <1>4 DEF ReadNothing
  <2> QED BY <1>3, <2>1, RightStays
<1>5. CASE AtEnd(c)
  <2>1. /\ x.buf = <<>> /\ x.down = <<>> /\ x.flight = <<>> /\ x.fin
        /\ IF s = "identity" THEN Goto(r, "ok") /\ UNCHANGED arg ELSE Failed(r)
    BY <1>1, <1>2, <1>5 DEF ReadNothing, AtEnd, Available
  <2>2. Silent(x) /\ Dead(x)
    <3>1. \A i \in DOMAIN x.buf : ~IsNL(x.buf[i])
      BY <2>1
    <3>2. x.buf \in Seq(Words)
      BY <2>1, EmptySeq
    <3> QED BY <2>1, <3>1, <3>2 DEF Silent, Dead
  <2>3. CASE s # "identity"
    <3>1. pc[r] \in BusyStates /\ pc[r] # "cleanup"
      BY <1>1 DEF BodyStates, BusyStates
    <3> QED BY <1>2, <1>3, <2>1, <2>2, <2>3, <3>1, FailsRight
  <2>4. CASE s = "identity"
    <3>1. InPlainBody(r, a, s, arg[r], rest)
      BY <1>2, <2>4 DEF Coming, InHead, BeforeStatus, InHeaders, InChunks
    <3>2. PICK m \in 0..a.n : /\ arg[r].sink = Piece(r, 0, m) /\ rest = Piece(r, m, a.n)
                              /\ a.framing = "identity"
      BY <2>4, <3>1 DEF InPlainBody
    <3>3. Len(Stream(x)) = 0
      <4>1. Len(Stream(x)) = Len(x.buf) + Len(x.down) + Len(x.flight)
        BY <1>2, AheadIs
      <4>2. Len(x.buf) = 0 /\ Len(x.down) = 0 /\ Len(x.flight) = 0
        BY <2>1
      <4> QED BY <4>1, <4>2
    <3>4. m = a.n \/ Breaks
      <4>1. a.n \in Nat
        BY <1>2, ReplyIs
      <4>2. Len(rest) = a.n - m
        <5>1. m \in Nat /\ m <= a.n
          BY <4>1
        <5>2. Len(Piece(r, m, a.n)) = a.n - m
          BY <4>1, <5>1, PieceWords
        <5> QED BY <3>2, <5>2
      <4>3. Len(Stream(x)) = Len(rest) \/ Broken(x)
        BY <1>2 DEF Ahead
      <4> QED BY <3>3, <4>1, <4>2, <4>3 DEF Broken
    <3>5. Received(r, a, arg[r])
      BY <3>2, <3>4 DEF Received
    <3>6. Turned(c, x)
      BY <1>2, <1>3, StaysTurned
    <3>7. Receives(r, a, s, c, x, x, rest)
      BY <1>1, <1>2, <3>6 DEF Receives
    <3>8. Turns(r, "ok", arg[r])
      BY <1>2, <2>1, <2>4 DEF TypesOK, Turns, Others, Goto
    <3>9. "ok" \in BusyStates /\ "ok" # "cleanup" /\ UNCHANGED <<answer, at>>
      BY <1>3 DEF BusyStates
    <3> QED BY <1>2, <2>2, <3>5, <3>7, <3>8, <3>9, ReceivesGoes
  <2> QED BY <2>3, <2>4
<1> QED BY <1>4, <1>5

(* All that was announced has been read.                                   *)
LEMMA ReadAllRight ==
  ASSUME HInv, RInv, ~Uploading, NEW r \in Req, ReadAll(r), UNCHANGED at
  PROVE  RInv'
<1>1. PICK s \in BodyStates : pc[r] = s /\ s # "identity"
  BY DEF ReadAll, Running, BodyStates
<1>2. PICK a, c, x, rest :
        /\ a \in Replies /\ Uses(r) /\ TypesOK
        /\ c = ChannelOf(r) /\ c = arg[r].channel /\ c \in Channel /\ x = conn[c]
        /\ x # NULL /\ Held(x) /\ x.got = <<>> /\ x.up = <<>>
        /\ arg[r].rc = "" /\ answer[r] = AnswerTo(r, a)
        /\ rest \in Seq(Words) /\ Coming(r, a, s, arg[r], rest) /\ Ahead(x, rest)
  BY <1>1, BodyStep
<1>3. /\ UNCHANGED conn /\ UNCHANGED answer /\ UNCHANGED arg /\ ~(Wanted(r) > 0)
      /\ Goto(r, IF s = "length" THEN "ok" ELSE "chunkend")
  BY <1>1 DEF ReadAll, Keep, Reads
<1>4. Turned(c, x)
  BY <1>2, <1>3, StaysTurned
<1>5. Receives(r, a, s, c, x, x, rest)
  BY <1>1, <1>2, <1>4 DEF Receives
<1>6. a.n \in Nat
  BY <1>2, ReplyIs
<1>7. CASE s = "length"
  <2>1. InPlainBody(r, a, s, arg[r], rest)
    BY <1>2, <1>7 DEF Coming, InHead, BeforeStatus, InHeaders, InChunks
  <2>2. PICK m \in 0..a.n : /\ arg[r].sink = Piece(r, 0, m) /\ rest = Piece(r, m, a.n)
                            /\ arg[r].length = a.n /\ arg[r].count = m
    BY <1>7, <2>1 DEF InPlainBody
  <2>3. m = a.n
    <3>1. Wanted(r) = a.n - m
      BY <1>1, <1>7, <2>2 DEF Wanted
    <3> QED BY <1>3, <1>6, <3>1
  <2>4. Received(r, a, arg[r])
    BY <2>2, <2>3 DEF Received
  <2>5. Silent(x)
    <3>1. Len(rest) = a.n - m
      <4>1. m \in Nat /\ m <= a.n
        BY <1>6
      <4>2. Len(Piece(r, m, a.n)) = a.n - m
        BY <1>6, <4>1, PieceWords
      <4> QED BY <2>2, <4>2
    <3>2. /\ Len(Stream(x)) = Len(x.buf) + Len(x.down) + Len(x.flight)
          /\ Len(x.buf) \in Nat /\ Len(x.down) \in Nat /\ Len(x.flight) \in Nat
          /\ Len(Stream(x)) <= Len(rest)
          /\ x.buf \in Seq(Words) /\ x.down \in Seq(Words) /\ x.flight \in Seq(Words)
      BY <1>2, AheadIs
    <3>3. Len(rest) = 0
      BY <1>6, <2>3, <3>1
    <3>4. PICK b \in Nat, d \in Nat, f \in Nat :
            b = Len(x.buf) /\ d = Len(x.down) /\ f = Len(x.flight)
      BY <3>2
    <3>5. b + d + f <= 0
      BY <3>2, <3>3, <3>4
    <3>6. b = 0 /\ d = 0 /\ f = 0
      BY <3>5
    <3>7. x.buf = <<>> /\ x.down = <<>> /\ x.flight = <<>>
      BY <3>2, <3>4, <3>6, EmptySeq
    <3> QED BY <3>7 DEF Silent
  <2>6. Turns(r, "ok", arg[r])
    BY <1>2, <1>3, <1>7 DEF TypesOK, Turns, Others, Goto
  <2>7. "ok" \in BusyStates /\ "ok" # "cleanup" /\ UNCHANGED <<answer, at>>
    BY <1>3 DEF BusyStates
  <2> QED BY <1>2, <1>5, <2>4, <2>5, <2>6, <2>7, ReceivesGoes
<1>8. CASE s = "chunkdata"
  <2>1. InChunks(r, a, s, arg[r], rest)
    BY <1>2, <1>8 DEF Coming, InHead, BeforeStatus, InHeaders, InPlainBody
  <2>2. PICK m \in 0..a.n : /\ arg[r].sink = Piece(r, 0, m)
          /\ \E i \in 1..(a.n - m), z \in Seq(Words) :
               /\ ChunksAfter(r, a, m + i, z) /\ arg[r].length = i
               /\ \E j \in 0..i : /\ arg[r].chunk = Piece(r, m, m + j)
                                  /\ rest = Piece(r, m + j, m + i) \o (<<NL(r)>> \o z)
    BY <1>8, <2>1 DEF InChunks
  <2>3. PICK i \in 1..(a.n - m), z \in Seq(Words) :
          /\ ChunksAfter(r, a, m + i, z) /\ arg[r].length = i
          /\ \E j \in 0..i : /\ arg[r].chunk = Piece(r, m, m + j)
                             /\ rest = Piece(r, m + j, m + i) \o (<<NL(r)>> \o z)
    BY <2>2
  <2>4. PICK j \in 0..i : /\ arg[r].chunk = Piece(r, m, m + j)
                          /\ rest = Piece(r, m + j, m + i) \o (<<NL(r)>> \o z)
    BY <2>3
  <2>5. PICK f \in Nat, n \in Nat : f = m + j /\ n = m + i /\ m <= f /\ m \in Nat
                                    /\ f - m = j
    BY <1>6
  <2>6. Len(arg[r].chunk) = j
    <3>1. m \in Nat /\ f \in Nat /\ m <= f
      BY <2>5
    <3>2. Len(Piece(r, m, f)) = f - m
      BY <3>1, PieceWords
    <3> QED BY <2>4, <2>5, <3>2
  <2>7. j = i
    <3>1. Wanted(r) = i - j
      BY <1>1, <1>8, <2>3, <2>6 DEF Wanted
    <3> QED BY <1>3, <1>6, <3>1
  <2>8. PICK w \in Seq(Words) : w = <<NL(r)>> \o z
    BY LinesAre, ConcatProperties
  <2>9. Ahead(x, w)
    <3>1. PICK p \in Seq(Words) : p = Piece(r, n, n) /\ Len(p) = n - n
      <4>1. n <= n
        OBVIOUS
      <4> QED BY <4>1, PieceWords
    <3>2. Len(p) = 0
      BY <3>1
    <3>3. p = <<>>
      BY <3>2, EmptySeq
    <3>4. p \o w = w
      BY <3>3, ConcatEmptySeq
    <3>5. m + j = n /\ m + i = n
      BY <2>5, <2>7
    <3> QED BY <1>2, <2>4, <2>8, <3>1, <3>4, <3>5
  <2>10. InChunks(r, a, "chunkend", arg[r], w)
    BY <2>2, <2>3, <2>4, <2>7, <2>8 DEF InChunks
  <2>11. Coming(r, a, "chunkend", arg[r], w)
    BY <2>10 DEF Coming
  <2>12. Turns(r, "chunkend", arg[r])
    BY <1>2, <1>3, <1>8 DEF TypesOK, Turns, Others, Goto
  <2>13. "chunkend" \in BusyStates /\ "chunkend" # "cleanup" /\ UNCHANGED <<answer, at>>
    BY <1>3 DEF BusyStates, LineStates
  <2> QED BY <1>2, <1>5, <2>9, <2>11, <2>12, <2>13, ReceivesGoes
<1> QED BY <1>1, <1>7, <1>8 DEF BodyStates
-----------------------------------------------------------------------------
(***************************************************************************)
(* A request sends.                                                        *)
(***************************************************************************)
LEMMA SplitIs ==
  ASSUME NEW s \in Seq(Words), NEW k \in Nat, k <= Len(s)
  PROVE  /\ SubSeq(s, 1, k) \in Seq(Words) /\ Len(SubSeq(s, 1, k)) = k
         /\ Rest(s, k) \in Seq(Words)
         /\ SubSeq(s, 1, k) \o Rest(s, k) = s
<1>1. PICK n \in Nat : n = Len(s)
  BY LenProperties
<1>2. PICK t : t = SubSeq(s, 1, k)
  OBVIOUS
<1>3. /\ t \in Seq(Words) /\ Len(t) = k /\ \A i \in 1..k : t[i] = s[i]
  BY <1>1, <1>2
<1>4. PICK u : u = Rest(s, k)
  OBVIOUS
<1>5. /\ u \in Seq(Words) /\ Len(u) = n - k /\ \A i \in 1..(n - k) : u[i] = s[k + i]
  BY <1>1, <1>4 DEF Rest
<1>6. PICK v : v = t \o u
  OBVIOUS
<1>7. v \in Seq(Words) /\ Len(v) = Len(t) + Len(u)
  BY <1>3, <1>5, <1>6, ConcatProperties
<1>8. Len(v) = n
  BY <1>1, <1>3, <1>5, <1>7
<1>9. ASSUME NEW i \in 1..n
      PROVE  v[i] = s[i]
  <2>1. CASE i <= k
    <3>1. v[i] = t[i]
      BY <1>3, <1>5, <1>6, <2>1, ConcatProperties
    <3> QED BY <1>3, <2>1, <3>1
  <2>2. CASE ~(i <= k)
    <3>1. PICK j \in 1..(n - k) : j = i - k /\ k + j = i
      BY <1>1, <2>2
    <3>2. v[i] = u[j]
      BY <1>1, <1>3, <1>5, <1>6, <2>2, <3>1, ConcatProperties
    <3> QED BY <1>5, <3>1, <3>2
  <2> QED BY <2>1, <2>2
<1>10. v = s
  BY <1>1, <1>7, <1>8, <1>9, SeqEqual
<1> QED BY <1>2, <1>3, <1>4, <1>5, <1>6, <1>10

(* Only what is written to it changes.                                     *)
Rewrote(x, y) == /\ y.open = x.open /\ y.fin = x.fin /\ y.buf = x.buf /\ y.down = x.down
                 /\ y.flight = x.flight /\ y.got = x.got

LEMMA WriteMoves ==
  ASSUME TypesOK \/ FieldsOK, NEW c \in Channel, conn[c] # NULL, NEW r, NEW d, WriteChars(r, c, d)
  PROVE  /\ conn[c].fin => UNCHANGED conn
         /\ ~conn[c].fin =>
              \E y : /\ Turned(c, y) /\ Rewrote(conn[c], y)
                     /\ y.up = conn[c].up \o SubSeq(d, 1, Accepted(c, d))
<1>1. DOMAIN conn[c] = DOMAIN NewConn /\ DOMAIN conn = Channel
  BY DEF TypesOK, FieldsOK
<1>2. CASE conn[c].fin
  BY <1>2, Zenon DEF WriteChars
<1>3. CASE ~conn[c].fin
  <2>1. PICK v : v = conn[c].up \o SubSeq(d, 1, Accepted(c, d))
    OBVIOUS
  <2>2. conn' = [conn EXCEPT ![c].up = v]
    BY <1>3, <2>1, Zenon DEF WriteChars
  <2>3. PICK y : y = [conn[c] EXCEPT !.up = v]
    OBVIOUS
  <2>4. Turned(c, y)
    BY <1>1, <2>2, <2>3 DEF Turned
  <2>5. y.up = v /\ Rewrote(conn[c], y)
    BY <1>1, <2>3, ConnFields DEF Rewrote
  <2> QED BY <1>3, <2>1, <2>4, <2>5
<1> QED BY <1>2, <1>3

LEMMA RewroteIs ==
  ASSUME NEW x, NEW y, Rewrote(x, y)
  PROVE  /\ Held(x) => Held(y)
         /\ Silent(x) => Silent(y)
         /\ y.got = x.got
BY Zenon DEF Rewrote, Held, Silent

(* Nothing is left, and nothing more can come.                             *)
LEMMA SilentEnds ==
  ASSUME NEW x, Silent(x), x.fin
  PROVE  Dead(x)
<1>1. x.buf \in Seq(Words)
  BY EmptySeq DEF Silent
<1>2. \A i \in DOMAIN x.buf : ~IsNL(x.buf[i])
  BY DEF Silent
<1> QED BY <1>1, <1>2 DEF Silent, Dead

(* A request with something to send has not been answered.                 *)
LEMMA StillAsking ==
  ASSUME NEW r, NEW e, NEW v, NEW x, Right(r, "send", e, v, x),
         e.data # <<>> \/ ~(e.pos >= e.size)
  PROVE  Asking(r, "send", e, v, x) /\ e.rc = ""
<1>1. ASSUME Answered(r, "send", e, v, x)
      PROVE  e.data = <<>> /\ e.pos >= e.size
  <2>1. PICK a, rest : Coming(r, a, "send", e, rest)
    BY <1>1 DEF Answered
  <2>2. InHead(r, a, "send", e, rest)
    BY <2>1 DEF Coming, InPlainBody, InChunks
  <2>3. \E b : BeforeStatus(r, a, "send", e, rest, b)
    BY <2>2 DEF InHead, InHeaders
  <2> QED BY <2>3 DEF BeforeStatus
<1>2. ~Answered(r, "send", e, v, x)
  BY <1>1
<1> QED BY <1>2 DEF Right

LEMMA WriteRight ==
  ASSUME HInv, RInv, ~Uploading, NEW r \in Req, Write(r), UNCHANGED at
  PROVE  RInv'
<1>1. pc[r] = "send" /\ arg[r].data # <<>> /\ pc[r] \in BusyStates
  BY DEF Write, Running, BusyStates
<1>2. PICK c, x :
        /\ c = ChannelOf(r) /\ c = arg[r].channel /\ c \in Channel /\ x = conn[c]
        /\ conn[c] # NULL /\ Held(x) /\ Right(r, pc[r], arg[r], answer[r], x)
        /\ TypesOK /\ Uses(r)
  BY <1>1, BusyRight
<1>3. PICK d : d = arg[r].data
  OBVIOUS
<1>4. /\ WriteChars(r, c, d) /\ UNCHANGED pc /\ UNCHANGED answer
      /\ arg' = [arg EXCEPT ![r].data = Unwritten(c, d)]
  BY <1>2, <1>3 DEF Write
<1>5. PICK e : e = [arg[r] EXCEPT !.data = Unwritten(c, d)]
  OBVIOUS
<1>6. Turns(r, "send", e)
  BY <1>1, <1>2, <1>4, <1>5 DEF TypesOK, Turns, Others
<1>7. /\ e.channel = c /\ e.data = Unwritten(c, d) /\ e.sink = arg[r].sink
      /\ e.count = arg[r].count /\ e.response_headers = arg[r].response_headers
      /\ e.headers = arg[r].headers /\ e.size = arg[r].size /\ e.pos = arg[r].pos
      /\ e.rc = arg[r].rc
  BY <1>2, <1>5, ArgFields DEF TypesOK
<1>8. Asking(r, "send", arg[r], answer[r], x) /\ arg[r].rc = ""
  BY <1>1, <1>2, StillAsking
<1>9. "send" \in BusyStates /\ UNCHANGED <<answer, at>>
  BY <1>4 DEF BusyStates
<1>10. CASE x.fin
  <2>1. Dead(x)
    BY <1>8, <1>10, SilentEnds DEF Asking
  <2>2. Asking(r, "send", e, answer[r], x)
    BY <1>7, <1>8, <2>1 DEF Asking
  <2>3. Right(r, "send", e, answer[r], x)
    BY <1>7, <1>8, <2>2 DEF Right
  <2>4. Turned(arg[r].channel, x)
    BY <1>2, <1>4, <1>10, WriteMoves, StaysTurned
  <2> QED BY <1>2, <1>6, <1>7, <1>9, <2>3, <2>4, RightGoes
<1>11. CASE ~x.fin
  <2>1. PICK y : /\ Turned(c, y) /\ Rewrote(x, y)
                 /\ y.up = x.up \o SubSeq(d, 1, Accepted(c, d))
    BY <1>2, <1>4, <1>11, WriteMoves
  <2>2. Held(y) /\ (Silent(x) => Silent(y)) /\ y.got = x.got
    BY <1>2, <2>1, RewroteIs
  <2>3. /\ Silent(x) /\ x.got \in Seq(Words) /\ x.up \in Seq(Words)
        /\ d \in Seq(Words) /\ e.size \in Nat /\ Len(x.up) <= Window
    BY <1>3, <1>7, <1>8, <1>11 DEF Asking, Dead
  <2>4. PICK k \in 0..e.size : e.pos = k + 1 /\ x.got \o (x.up \o d) = Asked(r, e.size, k)
    BY <1>3, <1>7, <1>8, <1>11 DEF Asking, Dead
  <2>5. PICK j \in Nat : j = Accepted(c, d) /\ j <= Len(d) /\ Len(x.up) + j <= Window
    <3>1. PICK m \in Nat, n \in Nat, w \in Nat :
            m = Len(x.up) /\ n = Len(d) /\ w = Window /\ m <= w
      BY <2>3, LenProperties, ChannelsAssumption
    <3>2. Accepted(c, d) = IF w - m < n THEN w - m ELSE n
      BY <1>2, <1>11, <3>1 DEF Accepted
    <3>3. PICK j \in Nat : j = Accepted(c, d) /\ j <= n /\ m + j <= w
      BY <3>1, <3>2
    <3> QED BY <3>1, <3>3
  <2>6. PICK s \in Seq(Words), t \in Seq(Words) :
          /\ s = SubSeq(d, 1, j) /\ t = Rest(d, j) /\ Len(s) = j /\ s \o t = d
    <3>1. /\ SubSeq(d, 1, j) \in Seq(Words) /\ Len(SubSeq(d, 1, j)) = j
          /\ Rest(d, j) \in Seq(Words) /\ SubSeq(d, 1, j) \o Rest(d, j) = d
      BY <2>3, <2>5, SplitIs
    <3> QED BY <3>1, Zenon
  <2>7. e.data = t
    BY <1>7, <2>5, <2>6 DEF Unwritten, Rest
  <2>8. y.up = x.up \o s
    BY <2>1, <2>5, <2>6
  <2>9. y.up \in Seq(Words) /\ Len(y.up) = Len(x.up) + Len(s)
    BY <2>3, <2>6, <2>8, ConcatProperties
  <2>10. Len(y.up) <= Window
    BY <2>5, <2>6, <2>9
  <2>11. y.got \o (y.up \o e.data) = Asked(r, e.size, k)
    <3>1. JoinsThree(x.up, s, t)
      BY <2>3, <2>6, JoinThree
    <3>2. y.up \o e.data = x.up \o d
      BY <2>6, <2>7, <2>8, <3>1 DEF JoinsThree
    <3> QED BY <2>2, <2>4, <3>2
  <2>12. e.sink = <<>> /\ e.count = 0 /\ e.response_headers = NULL /\ Plain(e.headers)
         /\ answer[r] = NULL
    BY <1>7, <1>8 DEF Asking
  <2>13. Asking(r, "send", e, answer[r], y)
    BY <2>2, <2>3, <2>4, <2>6, <2>7, <2>9, <2>10, <2>11, <2>12 DEF Asking
  <2>14. Right(r, "send", e, answer[r], y)
    BY <1>7, <1>8, <2>13 DEF Right
  <2> QED BY <1>2, <1>6, <1>7, <1>9, <2>1, <2>2, <2>14, RightGoes
<1> QED BY <1>10, <1>11

LEMMA WriteFailsRight ==
  ASSUME HInv, RInv, ~Uploading, NEW r \in Req, WriteFails(r), UNCHANGED at
  PROVE  RInv'
<1>1. /\ pc[r] = "send" /\ arg[r].data # <<>> /\ pc[r] \in BusyStates /\ pc[r] # "cleanup"
      /\ Failed(r) /\ Keep
  BY DEF WriteFails, Running, BusyStates
<1>2. PICK x : x = conn[ChannelOf(r)]
  OBVIOUS
<1>3. Right(r, pc[r], arg[r], answer[r], x) /\ x.fin
  BY <1>1, <1>2, BusyRight DEF WriteFails, Chan
<1>4. arg[r].response_headers = NULL
  <2>1. PICK e, v : e = arg[r] /\ v = answer[r]
    OBVIOUS
  <2>2. Right(r, "send", e, v, x) /\ e.data # <<>>
    BY <1>1, <1>3, <2>1
  <2>3. Asking(r, "send", e, v, x)
    BY <2>2, StillAsking
  <2> QED BY <2>1, <2>3 DEF Asking
<1> QED BY <1>1, <1>2, <1>3, <1>4, FailsRight

(* The next block follows what has been sent.                              *)
SentUpTo(pos, k, n) == n \in Nat /\ k \in 0..n /\ pos = k + 1

LEMMA NextBlock ==
  ASSUME NEW r \in Req, NEW n, NEW k, NEW pos, SentUpTo(pos, k, n),
         SourceBuffer(r, pos, n) # NULL
  PROVE  \E l \in k..n, b \in Seq(Words) :
           /\ b = SourceBuffer(r, pos, n) /\ b = Piece(r, k, l) /\ Len(b) = l - k
<1>1. pos < n /\ pos \in Nat /\ n \in Nat /\ k \in 0..n /\ pos = k + 1
  BY DEF SourceBuffer, SentUpTo
<1>2. BlockSize \in Nat /\ BlockSize > 0
  BY ChannelsAssumption
<1>3. PICK l : l = BlockEnd(pos, n)
  OBVIOUS
<1>4. l \in Nat /\ pos <= l /\ l <= n
  BY <1>1, <1>2, <1>3 DEF BlockEnd
<1>5. PICK z \in Nat : z = 0
  OBVIOUS
<1>6. SourceBuffer(r, pos, n) = SubSeq(Piece(r, z, n), pos, l)
  <2>1. Body(r, n) = Piece(r, z, n)
    <3>1. Body(r, n) = Piece(r, 0, n)
      BY <1>1, BodyPiece
    <3> QED BY <1>5, <3>1
  <2>2. ~(pos >= n)
    BY <1>1
  <2> QED BY <1>3, <2>1, <2>2 DEF SourceBuffer
<1>7. Within(z, n, pos, l, k, l)
  BY <1>1, <1>4, <1>5 DEF Within
<1>8. SubSeq(Piece(r, z, n), pos, l) = Piece(r, k, l)
  BY <1>7, PieceSub
<1>9. k \in Nat /\ k <= l /\ l \in k..n
  BY <1>1, <1>4
<1>10. Piece(r, k, l) \in Seq(Words) /\ Len(Piece(r, k, l)) = l - k
  BY <1>4, <1>9, PieceWords
<1> QED BY <1>6, <1>8, <1>9, <1>10

LEMMA AskedIs ==
  ASSUME NEW r \in Req, NEW n \in Nat, NEW k \in Nat, NEW l \in Nat, k <= l
  PROVE  Asked(r, n, k) \o Piece(r, k, l) = Asked(r, n, l)
<1>1. PICK h \in Seq(Words) : h = <<Unit("request", r, 0), Unit("header", r, n)>>
  <2>1. Unit("request", r, 0) \in Words /\ Unit("header", r, n) \in Words
    BY WordsAre
  <2>2. PICK u, v : u = Unit("request", r, 0) /\ v = Unit("header", r, n)
                    /\ u \in Words /\ v \in Words
    BY <2>1
  <2>3. <<u, v>> \in Seq(Words)
    BY <2>2
  <2> QED BY <2>2, <2>3
<1>2. PICK z \in Nat : z = 0 /\ z <= k
  OBVIOUS
<1>3. PICK p \in Seq(Words), q \in Seq(Words) : p = Piece(r, z, k) /\ q = Piece(r, k, l)
  BY <1>2, PieceWords
<1>4. p \o q = Piece(r, z, l)
  <2>1. Piece(r, z, k) \o Piece(r, k, l) = Piece(r, z, l)
    BY <1>2, PieceJoin, Zenon
  <2> QED BY <1>3, <2>1, Zenon
<1>5. JoinsThree(h, p, q)
  BY JoinThree
<1> QED BY <1>1, <1>2, <1>3, <1>4, <1>5 DEF JoinsThree, Asked

LEMMA SendBodyRight ==
  ASSUME HInv, RInv, ~Uploading, NEW r \in Req, SendBody(r), UNCHANGED at
  PROVE  RInv'
<1>1. pc[r] = "send" /\ arg[r].data = <<>> /\ pc[r] \in BusyStates
  BY DEF SendBody, Running, BusyStates
<1>2. PICK c, x :
        /\ c = ChannelOf(r) /\ c = arg[r].channel /\ c \in Channel /\ x = conn[c]
        /\ conn[c] # NULL /\ Held(x) /\ Right(r, pc[r], arg[r], answer[r], x)
        /\ TypesOK /\ Uses(r)
  BY <1>1, BusyRight
<1>3. UNCHANGED conn /\ UNCHANGED answer
  BY DEF SendBody, Keep
<1>4. Turned(arg[r].channel, x) /\ UNCHANGED <<answer, at>>
  BY <1>2, <1>3, StaysTurned
<1>5. /\ arg[r].rc = ""
      /\ Asking(r, "send", arg[r], answer[r], x) \/ Answered(r, "send", arg[r], answer[r], x)
  BY <1>1, <1>2 DEF Right
<1>6. PICK b, pos, n : /\ b = SourceRead(r) /\ pos = arg[r].pos /\ n = arg[r].size
                       /\ b = SourceBuffer(r, pos, n)
  BY DEF SourceRead
<1>7. CASE b = NULL
  <2>1. Turns(r, "status", arg[r])
    BY <1>2, <1>6, <1>7 DEF SendBody, TypesOK, Turns, Others, Goto
  <2>2. CASE Asking(r, "send", arg[r], answer[r], x)
    <3>1. Asking(r, "status", arg[r], answer[r], x)
      BY <1>1, <2>2 DEF Asking
    <3>2. Right(r, "status", arg[r], answer[r], x)
      BY <1>5, <3>1 DEF Right
    <3>3. "status" \in BusyStates
      BY DEF BusyStates, LineStates
    <3> QED BY <1>2, <1>4, <2>1, <3>2, <3>3, RightGoes
  <2>3. CASE Answered(r, "send", arg[r], answer[r], x)
    <3>1. PICK a \in Replies, rest \in Seq(Words) :
            answer[r] = AnswerTo(r, a) /\ Coming(r, a, "send", arg[r], rest) /\ Ahead(x, rest)
      BY <2>3 DEF Answered
    <3>2. InHead(r, a, "send", arg[r], rest)
      BY <3>1 DEF Coming, InPlainBody, InChunks
    <3>3. PICK w \in Seq(Words) :
            BodyPart(r, a, w) /\ BeforeStatus(r, a, "send", arg[r], rest, w)
      BY <3>2 DEF InHead, InHeaders
    <3>4. BeforeStatus(r, a, "status", arg[r], rest, w)
      BY <3>3 DEF BeforeStatus
    <3>5. InHead(r, a, "status", arg[r], rest)
      BY <3>2, <3>3, <3>4 DEF InHead
    <3>6. Coming(r, a, "status", arg[r], rest)
      BY <3>5 DEF Coming
    <3>7. Answered(r, "status", arg[r], answer[r], x)
      BY <2>3, <3>1, <3>6 DEF Answered
    <3>8. Right(r, "status", arg[r], answer[r], x)
      BY <1>5, <3>7 DEF Right
    <3>9. "status" \in BusyStates
      BY DEF BusyStates, LineStates
    <3> QED BY <1>2, <1>4, <2>1, <3>8, <3>9, RightGoes
  <2> QED BY <1>5, <2>2, <2>3
<1>8. CASE b # NULL
  <2>1. Asking(r, "send", arg[r], answer[r], x)
    <3>1. ~(pos >= n)
      BY <1>6, <1>8 DEF SourceBuffer
    <3> QED BY <1>1, <1>2, <1>6, <3>1, StillAsking
  <2>2. arg' = [arg EXCEPT ![r].data = b, ![r].pos = pos + Len(b)] /\ UNCHANGED pc
    BY <1>6, <1>8 DEF SendBody
  <2>3. PICK e : e = [arg[r] EXCEPT !.data = b, !.pos = pos + Len(b)]
    OBVIOUS
  <2>4. Turns(r, "send", e)
    BY <1>1, <1>2, <2>2, <2>3 DEF TypesOK, Turns, Others
  <2>5. /\ e.channel = arg[r].channel /\ e.data = b /\ e.sink = arg[r].sink
        /\ e.count = arg[r].count /\ e.response_headers = arg[r].response_headers
        /\ e.headers = arg[r].headers /\ e.size = n /\ e.pos = pos + Len(b)
        /\ e.rc = arg[r].rc
    BY <1>2, <1>6, <2>3, ArgFields DEF TypesOK
  <2>6. e.sink = <<>> /\ e.count = 0 /\ e.response_headers = NULL /\ Plain(e.headers)
        /\ answer[r] = NULL
    BY <2>1, <2>5 DEF Asking
  <2>7. Asking(r, "send", e, answer[r], x)
    <3>1. CASE Dead(x)
      BY <2>6, <3>1 DEF Asking
    <3>2. CASE ~Dead(x)
      <4>1. /\ Silent(x) /\ x.got \in Seq(Words) /\ x.up \in Seq(Words) /\ n \in Nat
            /\ Len(x.up) <= Window
        BY <1>6, <2>1, <3>2 DEF Asking
      <4>2. PICK k \in 0..n : pos = k + 1 /\ x.got \o (x.up \o <<>>) = Asked(r, n, k)
        BY <1>1, <1>6, <2>1, <3>2 DEF Asking
      <4>3. PICK l \in k..n :
              /\ b \in Seq(Words) /\ b = Piece(r, k, l) /\ Len(b) = l - k
        <5>1. SentUpTo(pos, k, n) /\ SourceBuffer(r, pos, n) # NULL
          BY <1>6, <1>8, <4>1, <4>2 DEF SentUpTo
        <5> QED BY <1>6, <5>1, NextBlock
      <4>4. l \in 0..n /\ e.pos = l + 1
        BY <2>5, <4>1, <4>2, <4>3
      <4>5. x.got \o (x.up \o b) = Asked(r, n, l)
        <5>1. JoinsThree(x.got, x.up, b)
          BY <4>1, <4>3, JoinThree
        <5>2. x.up \o <<>> = x.up
          BY <4>1, ConcatEmptySeq
        <5>3. k \in Nat /\ l \in Nat /\ k <= l
          BY <4>1
        <5>4. Asked(r, n, k) \o Piece(r, k, l) = Asked(r, n, l)
          BY <4>1, <5>3, AskedIs
        <5> QED BY <4>2, <4>3, <5>1, <5>2, <5>4 DEF JoinsThree
      <4> QED BY <2>5, <2>6, <4>1, <4>3, <4>4, <4>5 DEF Asking
    <3> QED BY <3>1, <3>2
  <2>8. Right(r, "send", e, answer[r], x)
    BY <1>5, <2>5, <2>7 DEF Right
  <2>9. "send" \in BusyStates
    BY DEF BusyStates
  <2> QED BY <1>2, <1>4, <2>4, <2>5, <2>8, <2>9, RightGoes
<1> QED BY <1>7, <1>8
-----------------------------------------------------------------------------
(***************************************************************************)
(* Requests begin and end.  What a step does not touch stays right.        *)
(***************************************************************************)
Fine(q) ==
  IF Uses(q) THEN Right(q, pc[q], arg[q], answer[q], conn[arg[q].channel])
  ELSE Quiet(arg[q], answer[q]) /\ arg[q].rc = ""
Untouched(q) ==
  /\ pc'[q] = pc[q] /\ arg'[q] = arg[q] /\ answer'[q] = answer[q]
  /\ Uses(q) => conn'[arg[q].channel] = conn[arg[q].channel]

LEMMA FineIs ==
  ASSUME RInv, NEW q \in Req
  PROVE  Fine(q) /\ (pc[q] = "connect" => Beginning(arg[q]))
BY DEF RInv, Fine

LEMMA RightAfter ==
  ASSUME RInv, UNCHANGED at, DOMAIN answer' = Req, NEW S,
         \A q \in Req \ S : Untouched(q),
         \A q \in Req \cap S : Fine(q)' /\ (pc'[q] = "connect" => Beginning(arg'[q])),
         \A c \in Channel : conn'[c] # NULL => conn'[c] = conn[c] \/ Held(conn'[c])
  PROVE  RInv'
<1>1. ASSUME NEW q \in Req
      PROVE  Fine(q)' /\ (pc'[q] = "connect" => Beginning(arg'[q]))
  <2>1. CASE q \in S
    BY <2>1
  <2>2. CASE q \notin S
    <3>1. Untouched(q)
      BY <2>2
    <3>2. Fine(q) /\ (pc[q] = "connect" => Beginning(arg[q]))
      BY FineIs
    <3>3. Uses(q)' <=> Uses(q)
      BY <3>1 DEF Untouched, Uses
    <3>4. CASE Uses(q)
      BY <3>1, <3>2, <3>3, <3>4 DEF Fine, Untouched
    <3>5. CASE ~Uses(q)
      BY <3>1, <3>2, <3>3, <3>5 DEF Fine, Untouched
    <3> QED BY <3>4, <3>5
  <2> QED BY <2>1, <2>2
<1>2. Uploading' <=> Uploading
  BY DEF Uploading
<1>3. ~Uploading' => \A c \in Channel : conn'[c] # NULL => Held(conn'[c])
  BY <1>2 DEF RInv
<1> QED BY <1>1, <1>3 DEF RInv, Fine

(* A request that uses a connection and has nothing to ask or to read.     *)
LEMMA IdleIs ==
  ASSUME NEW r, NEW s \in {"connect", "done"}, NEW e, NEW v, NEW x, Right(r, s, e, v, x)
  PROVE  Quiet(e, v) /\ Idle(x) /\ e.rc = ""
<1>1. s # "cleanup" /\ s \notin {"send", "status", "ok"}
  OBVIOUS
<1>2. ~Asking(r, s, e, v, x)
  BY <1>1 DEF Asking
<1>3. \A a, rest : ~Coming(r, a, s, e, rest)
  BY DEF Coming, InHead, BeforeStatus, InHeaders, InPlainBody, InChunks
<1>4. ~Answered(r, s, e, v, x)
  BY <1>1, <1>3 DEF Answered
<1> QED BY <1>1, <1>2, <1>4 DEF Right

LEMMA QuietIs ==
  ASSUME RInv, NEW r \in Req, pc[r] \in {"new", "connect", "done", "over"}
  PROVE  Quiet(arg[r], answer[r]) /\ arg[r].rc = ""
<1>1. CASE Uses(r)
  <2>1. PICK s, e, v, x : /\ s = pc[r] /\ e = arg[r] /\ v = answer[r]
                          /\ x = conn[arg[r].channel]
    OBVIOUS
  <2>2. s \in {"connect", "done"}
    BY <1>1, <2>1 DEF Uses
  <2>3. Right(r, s, e, v, x)
    BY <1>1, <2>1 DEF RInv
  <2> QED BY <2>1, <2>2, <2>3, IdleIs
<1>2. CASE ~Uses(r)
  BY <1>2 DEF RInv
<1> QED BY <1>1, <1>2

LEMMA TwoWords ==
  ASSUME NEW u \in Words, NEW w \in Words
  PROVE  <<u, w>> \in Seq(Words)
OBVIOUS

LEMMA Nought ==
  /\ \A n \in Nat : 0 \in 0..n
  /\ 0 + 1 = 1 /\ 0 <= Window
BY ChannelsAssumption

(* Request line and headers are about to be sent.                          *)
LEMMA AsksRight ==
  ASSUME NEW r \in Req, NEW f, Beginning(f), NEW v, Quiet(f, v), f.rc = "",
         NEW e, e.data = <<Unit("request", r, 0), Unit("header", r, f.size)>>,
         e.sink = f.sink, e.count = f.count, e.response_headers = f.response_headers,
         e.headers = f.headers, e.size = f.size, e.pos = f.pos, e.rc = f.rc,
         NEW x, Idle(x)
  PROVE  Right(r, "send", e, v, x)
<1>1. /\ e.sink = <<>> /\ e.count = 0 /\ e.response_headers = NULL /\ Plain(e.headers)
      /\ v = NULL /\ e.rc = ""
  BY DEF Beginning, Quiet
<1>2. CASE Dead(x)
  <2>1. Asking(r, "send", e, v, x)
    BY <1>1, <1>2 DEF Asking
  <2> QED BY <1>1, <2>1 DEF Right
<1>3. CASE ~Dead(x)
  <2>1. Silent(x) /\ x.got = <<>> /\ x.up = <<>>
    BY <1>3 DEF Idle
  <2>2. PICK n \in Nat : n = e.size /\ e.pos = 1
    BY DEF Beginning
  <2>3. PICK h \in Seq(Words) : h = e.data
    <3>1. Unit("request", r, 0) \in Words /\ Unit("header", r, n) \in Words
      BY WordsAre
    <3>2. <<Unit("request", r, 0), Unit("header", r, n)>> \in Seq(Words)
      BY <3>1, TwoWords
    <3> QED BY <2>2, <3>2
  <2>4. PICK k \in 0..n : k = 0 /\ e.pos = k + 1
    <3>1. 0 \in 0..n /\ 0 + 1 = 1
      BY Nought
    <3> QED BY <2>2, <3>1, Zenon
  <2>5. Piece(r, k, k) = <<>>
    BY <2>2, <2>4, PieceEmpty
  <2>6. Asked(r, n, k) = h \o <<>>
    BY <2>2, <2>3, <2>4, <2>5 DEF Asked
  <2>7. x.got \o (x.up \o e.data) = Asked(r, e.size, k)
    BY <2>1, <2>2, <2>3, <2>6, ConcatEmptySeq
  <2>8. x.got \in Seq(Words) /\ x.up \in Seq(Words) /\ Len(x.up) <= Window
    <3>1. 0 <= Window
      BY Nought
    <3>2. Len(x.up) = 0 /\ x.got \in Seq(Words) /\ x.up \in Seq(Words)
      BY <2>1, EmptySeq
    <3> QED BY <3>1, <3>2
  <2>9. Asking(r, "send", e, v, x)
    BY <1>1, <2>1, <2>2, <2>3, <2>4, <2>7, <2>8 DEF Asking
  <2> QED BY <1>1, <2>9 DEF Right
<1> QED BY <1>2, <1>3

LEMMA NewIdle ==
  /\ Idle(NewConn) /\ Held(NewConn)
  /\ NewArg.sink = <<>> /\ NewArg.rc = "" /\ NewArg.count = 0
  /\ NewArg.response_headers = NULL /\ Plain(NewArg.headers)
BY DEF NewConn, Idle, Silent, Held, NewArg, Plain, NoHeaders, Name

LEMMA OneRight ==
  ASSUME RInv, UNCHANGED at, DOMAIN answer' = Req, NEW r \in Req,
         \A q \in Req \ {r} : Untouched(q),
         Fine(r)', pc'[r] = "connect" => Beginning(arg'[r]),
         \A c \in Channel : conn'[c] # NULL => conn'[c] = conn[c] \/ Held(conn'[c])
  PROVE  RInv'
<1>1. PICK S : S = {r}
  OBVIOUS
<1>2. \A q \in Req \ S : Untouched(q)
  BY <1>1
<1>3. \A q \in Req \cap S : Fine(q)' /\ (pc'[q] = "connect" => Beginning(arg'[q]))
  BY <1>1
<1> QED BY <1>2, <1>3, RightAfter

(* The step is one of r; connections are opened or shut.                   *)
LEMMA OthersUntouched ==
  ASSUME RInv, NEW r \in Req, Others(r),
         \A q \in Req \ {r} : answer'[q] = answer[q],
         \A q \in Req \ {r} : Uses(q) => conn'[arg[q].channel] = conn[arg[q].channel]
  PROVE  \A q \in Req \ {r} : Untouched(q)
BY DEF Others, Untouched

LEMMA ConnectRight ==
  ASSUME HInv, RInv, ~Uploading, NEW r \in Req, Connect(r), UNCHANGED at
  PROVE  RInv'
<1>1. /\ TypesOK /\ pc[r] = "connect" /\ NULL \notin Channel
      /\ Beginning(arg[r]) /\ Quiet(arg[r], answer[r]) /\ arg[r].rc = ""
  BY NamesAssumption, QuietIs DEF HInv, Connect, Running, RInv
<1>2. UNCHANGED answer /\ pc' = [pc EXCEPT ![r] = "send"]
  BY DEF Connect, StartSending, Goto
<1>3. PICK h : h = <<Unit("request", r, 0), Unit("header", r, arg[r].size)>> /\ h = Lines(r)
  BY DEF Lines
<1>4. "send" \in BusyStates
  BY DEF BusyStates
<1>5. CASE arg[r].channel # NULL
  <2>1. UNCHANGED conn /\ arg' = [arg EXCEPT ![r].data = h]
    BY <1>3, <1>5 DEF Connect
  <2>2. PICK e : e = [arg[r] EXCEPT !.data = h]
    OBVIOUS
  <2>3. Turns(r, "send", e)
    BY <1>1, <1>2, <2>1, <2>2 DEF TypesOK, Turns, Others
  <2>4. /\ e.channel = arg[r].channel /\ e.data = h /\ e.sink = arg[r].sink
        /\ e.count = arg[r].count /\ e.response_headers = arg[r].response_headers
        /\ e.headers = arg[r].headers /\ e.size = arg[r].size /\ e.pos = arg[r].pos
        /\ e.rc = arg[r].rc
    BY <1>1, <2>2, ArgFields DEF TypesOK
  <2>5. Uses(r)
    BY <1>1, <1>5 DEF Uses
  <2>6. PICK c, x : /\ c \in Channel /\ c = arg[r].channel /\ x = conn[c] /\ x # NULL
    BY <1>1, <1>5, <2>5 DEF TypesOK, HInv, Connections
  <2>7. Right(r, "connect", arg[r], answer[r], x) /\ Held(x)
    BY <1>1, <2>5, <2>6 DEF RInv
  <2>8. Idle(x)
    <3>1. PICK e1, v : e1 = arg[r] /\ v = answer[r]
      OBVIOUS
    <3>2. Right(r, "connect", e1, v, x) /\ "connect" \in {"connect", "done"}
      BY <2>7, <3>1
    <3> QED BY <3>2, IdleIs
  <2>9. Right(r, "send", e, answer[r], x)
    BY <1>1, <1>3, <2>4, <2>8, AsksRight
  <2>10. Turned(arg[r].channel, x)
    BY <1>1, <2>1, <2>6, StaysTurned
  <2> QED BY <1>2, <1>4, <2>3, <2>4, <2>5, <2>7, <2>9, <2>10, RightGoes
<1>6. CASE arg[r].channel = NULL
  <2>1. PICK c : /\ c = NextChannel /\ Unused # {} /\ conn' = [conn EXCEPT ![c] = NewConn]
                 /\ arg' = [arg EXCEPT ![r].channel = c, ![r].data = h]
    BY <1>3, <1>6 DEF Connect
  <2>2. c \in Channel /\ conn[c] = NULL
    BY <2>1 DEF NextChannel, Unused
  <2>3. PICK e : e = [arg[r] EXCEPT !.channel = c, !.data = h]
    OBVIOUS
  <2>4. Others(r) /\ pc'[r] = "send" /\ arg'[r] = e
    BY <1>1, <1>2, <2>1, <2>3 DEF TypesOK, Others
  <2>5. /\ e.channel = c /\ e.data = h /\ e.sink = arg[r].sink
        /\ e.count = arg[r].count /\ e.response_headers = arg[r].response_headers
        /\ e.headers = arg[r].headers /\ e.size = arg[r].size /\ e.pos = arg[r].pos
        /\ e.rc = arg[r].rc
    BY <1>1, <2>3, ArgFields DEF TypesOK
  <2>6. conn'[c] = NewConn /\ \A d \in Channel \ {c} : conn'[d] = conn[d]
    BY <1>1, <2>1, <2>2 DEF TypesOK
  <2>7. PICK x : x = NewConn /\ Idle(x) /\ Held(x)
    BY NewIdle
  <2>8. Right(r, "send", e, answer[r], x)
    BY <1>1, <1>3, <2>5, <2>7, AsksRight
  <2>9. \A q \in Req \ {r} : Untouched(q)
    <3>1. \A q \in Req : Uses(q) => arg[q].channel \in Channel \ {c}
      BY <1>1, <2>2 DEF HInv, TypesOK, Connections, Uses
    <3>2. \A q \in Req \ {r} : Uses(q) => conn'[arg[q].channel] = conn[arg[q].channel]
      BY <2>6, <3>1
    <3> QED BY <1>2, <2>4, <3>2, OthersUntouched
  <2>10. Uses(r)'
    <3>1. c # NULL
      BY <1>1, <2>2
    <3>2. pc'[r] = "send" /\ arg'[r].channel = c
      BY <2>4, <2>5
    <3> QED BY <3>1, <3>2 DEF Uses
  <2>11. conn'[arg'[r].channel] = x
    BY <2>4, <2>5, <2>6, <2>7
  <2>12. Fine(r)' /\ pc'[r] # "connect"
    BY <1>2, <2>4, <2>8, <2>10, <2>11 DEF Fine
  <2>13. \A d \in Channel : conn'[d] # NULL => conn'[d] = conn[d] \/ Held(conn'[d])
    BY <2>6, <2>7
  <2>14. DOMAIN answer' = Req
    BY <1>2 DEF RInv
  <2> QED BY <2>9, <2>12, <2>13, <2>14, OneRight
<1> QED BY <1>5, <1>6

LEMMA ConnectFailsRight ==
  ASSUME HInv, RInv, NEW r \in Req, ConnectFails(r), UNCHANGED at
  PROVE  RInv'
<1>1. /\ TypesOK /\ pc[r] = "connect" /\ Quiet(arg[r], answer[r])
  BY QuietIs DEF HInv, ConnectFails, Running
<1>2. /\ UNCHANGED answer /\ UNCHANGED conn /\ pc' = [pc EXCEPT ![r] = "over"]
      /\ arg' = [arg EXCEPT ![r] = NewArg]
  BY DEF ConnectFails, Goto, Keep
<1>3. Others(r) /\ pc'[r] = "over" /\ arg'[r] = NewArg
  BY <1>1, <1>2 DEF TypesOK, Others
<1>4. \A q \in Req \ {r} : Untouched(q)
  BY <1>2, <1>3, OthersUntouched
<1>5. ~Uses(r)'
  BY <1>3 DEF Uses
<1>6. Fine(r)' /\ pc'[r] # "connect"
  BY <1>1, <1>2, <1>3, <1>5, NewIdle DEF Fine, Quiet
<1>7. DOMAIN answer' = Req
  BY <1>2 DEF RInv
<1>8. \A d \in Channel : conn'[d] # NULL => conn'[d] = conn[d] \/ Held(conn'[d])
  BY <1>2
<1> QED BY <1>4, <1>6, <1>7, <1>8, OneRight

(* A connection that is shut is at its end.                                *)
LEMMA ShutTouches ==
  ASSUME TypesOK, NEW c \in Channel, conn' = Shut(c)
  PROVE  /\ \A d \in Channel \ {c} : conn'[d] = conn[d]
         /\ \A d \in Channel : conn'[d] # NULL => conn'[d] = conn[d] \/ Held(conn'[d])
<1>1. PICK x : x = [NewConn EXCEPT !.open = FALSE, !.fin = TRUE]
  OBVIOUS
<1>2. x.fin = TRUE
  BY <1>1, ConnFields
<1>3. Held(x)
  BY <1>2, Zenon DEF Held
<1>4. conn'[c] = x /\ \A d \in Channel \ {c} : conn'[d] = conn[d]
  BY <1>1 DEF TypesOK, Shut
<1> QED BY <1>3, <1>4

LEMMA LeavingIs ==
  ASSUME NEW r, NEW e, NEW v, NEW x, Right(r, "cleanup", e, v, x)
  PROVE  Leaving(r, e, v, x)
<1>1. ~Asking(r, "cleanup", e, v, x)
  BY DEF Asking
<1>2. \A a, rest : ~Coming(r, a, "cleanup", e, rest)
  BY DEF Coming, InHead, BeforeStatus, InHeaders, InPlainBody, InChunks
<1>3. ~Answered(r, "cleanup", e, v, x)
  BY <1>2 DEF Answered
<1> QED BY <1>1, <1>3 DEF Right

LEMMA CleanupRight ==
  ASSUME HInv, RInv, ~Uploading, NEW r \in Req, Cleanup(r), UNCHANGED at
  PROVE  RInv'
<1>1. pc[r] = "cleanup" /\ pc[r] \in BusyStates
  BY DEF Cleanup, Running, BusyStates
<1>2. PICK c, x :
        /\ c = ChannelOf(r) /\ c = arg[r].channel /\ c \in Channel /\ x = conn[c]
        /\ conn[c] # NULL /\ Held(x) /\ Right(r, pc[r], arg[r], answer[r], x)
        /\ TypesOK /\ Uses(r)
  BY <1>1, BusyRight
<1>3. PICK e : e = [NewArg EXCEPT !.channel = IF MustClose(r) THEN NULL ELSE arg[r].channel]
  OBVIOUS
<1>4. /\ arg' = [arg EXCEPT ![r] = e] /\ pc' = [pc EXCEPT ![r] = "done"]
      /\ answer' = [answer EXCEPT ![r] = NULL]
      /\ conn' = IF MustClose(r) THEN Shut(c) ELSE conn
  BY <1>2, <1>3, Zenon DEF Cleanup, Goto
<1>5. /\ e.sink = <<>> /\ e.rc = "" /\ e.do_not_shutdown = FALSE
      /\ e.channel = IF MustClose(r) THEN NULL ELSE c
  BY <1>2, <1>3, ArgFields, NewIdle
<1>6. Others(r) /\ pc'[r] = "done" /\ arg'[r] = e
  BY <1>2, <1>4 DEF TypesOK, Others
<1>7. DOMAIN answer' = Req /\ answer'[r] = NULL /\ \A q \in Req \ {r} : answer'[q] = answer[q]
  BY <1>4 DEF RInv
<1>8. Quiet(arg'[r], answer'[r]) /\ arg'[r].rc = ""
  BY <1>5, <1>6, <1>7 DEF Quiet
<1>9. \A q \in Req \ {r} : Uses(q) => arg[q].channel \in Channel \ {c}
  BY <1>2, OtherChannels
<1>10. CASE MustClose(r)
  <2>1. conn' = Shut(c)
    BY <1>4, <1>10
  <2>2. /\ \A d \in Channel \ {c} : conn'[d] = conn[d]
        /\ \A d \in Channel : conn'[d] # NULL => conn'[d] = conn[d] \/ Held(conn'[d])
    BY <1>2, <2>1, ShutTouches
  <2>3. \A q \in Req \ {r} : Untouched(q)
    <3>1. \A q \in Req \ {r} : Uses(q) => conn'[arg[q].channel] = conn[arg[q].channel]
      BY <1>9, <2>2
    <3> QED BY <1>6, <1>7, <3>1, OthersUntouched
  <2>4. ~Uses(r)'
    BY <1>5, <1>6, <1>10 DEF Uses
  <2>5. Fine(r)' /\ pc'[r] # "connect"
    BY <1>6, <1>8, <2>4 DEF Fine
  <2> QED BY <1>7, <2>2, <2>3, <2>5, OneRight
<1>11. CASE ~MustClose(r)
  <2>1. UNCHANGED conn /\ e.channel = c
    BY <1>4, <1>5, <1>11
  <2>2. Leaving(r, arg[r], answer[r], x)
    <3>1. PICK f, v : f = arg[r] /\ v = answer[r]
      OBVIOUS
    <3>2. Right(r, "cleanup", f, v, x)
      BY <1>1, <1>2, <3>1
    <3> QED BY <3>1, <3>2, LeavingIs
  <2>3. arg[r].response_headers # NULL
    BY <1>11 DEF MustClose
  <2>4. Idle(x)
    BY <2>2, <2>3 DEF Leaving
  <2>5. Right(r, "done", e, NULL, x)
    BY <1>5, <2>4 DEF Right, Quiet
  <2>6. \A q \in Req \ {r} : Untouched(q)
    BY <1>6, <1>7, <2>1, OthersUntouched
  <2>7. Uses(r)'
    <3>1. c # NULL
      BY <1>2, NamesAssumption
    <3>2. pc'[r] = "done" /\ arg'[r].channel = c /\ arg'[r].do_not_shutdown = FALSE
      BY <1>5, <1>6, <2>1
    <3> QED BY <3>1, <3>2, Zenon DEF Uses
  <2>8. conn'[arg'[r].channel] = x
    BY <1>2, <1>6, <2>1
  <2>9. Fine(r)' /\ pc'[r] # "connect"
    BY <1>6, <1>7, <2>5, <2>7, <2>8 DEF Fine
  <2>10. \A d \in Channel : conn'[d] # NULL => conn'[d] = conn[d] \/ Held(conn'[d])
    BY <2>1
  <2> QED BY <1>7, <2>6, <2>9, <2>10, OneRight
<1> QED BY <1>10, <1>11

(* The connection is handed on, or closed.                                 *)
LEMMA FinishRight ==
  ASSUME HInv, RInv, NEW r \in Req, Finish(r), UNCHANGED at
  PROVE  RInv'
<1>1. /\ TypesOK /\ pc[r] = "done" /\ Quiet(arg[r], answer[r])
  BY QuietIs DEF HInv, Finish, Running
<1>2. /\ UNCHANGED answer /\ pc' = [pc EXCEPT ![r] = "over"]
      /\ arg' = [arg EXCEPT ![r] = NewArg]
      /\ conn' = IF ~KeepOpen(r) /\ arg[r].channel # NULL THEN Shut(arg[r].channel) ELSE conn
  BY DEF Finish, Goto
<1>3. Others(r) /\ pc'[r] = "over" /\ arg'[r] = NewArg
  BY <1>1, <1>2 DEF TypesOK, Others
<1>4. ~Uses(r)'
  BY <1>3 DEF Uses
<1>5. Fine(r)' /\ pc'[r] # "connect"
  BY <1>1, <1>2, <1>3, <1>4, NewIdle DEF Fine, Quiet
<1>6. DOMAIN answer' = Req
  BY <1>2 DEF RInv
<1>7. Uses(r) <=> ~KeepOpen(r) /\ arg[r].channel # NULL
  BY <1>1, Zenon DEF Uses, KeepOpen
<1>8. CASE Uses(r)
  <2>1. PICK c \in Channel : c = arg[r].channel
    BY <1>1, <1>8 DEF TypesOK, Uses
  <2>2. conn' = Shut(c)
    BY <1>2, <1>7, <1>8, <2>1, Zenon
  <2>3. /\ \A d \in Channel \ {c} : conn'[d] = conn[d]
        /\ \A d \in Channel : conn'[d] # NULL => conn'[d] = conn[d] \/ Held(conn'[d])
    BY <1>1, <2>2, ShutTouches
  <2>4. \A q \in Req \ {r} : Uses(q) => conn'[arg[q].channel] = conn[arg[q].channel]
    BY <1>8, <2>1, <2>3, OtherChannels
  <2>5. \A q \in Req \ {r} : Untouched(q)
    BY <1>2, <1>3, <2>4, OthersUntouched
  <2> QED BY <1>5, <1>6, <2>3, <2>5, OneRight
<1>9. CASE ~Uses(r)
  <2>1. UNCHANGED conn
    BY <1>2, <1>7, <1>9, Zenon
  <2>2. \A q \in Req \ {r} : Untouched(q)
    BY <1>2, <1>3, <2>1, OthersUntouched
  <2>3. \A d \in Channel : conn'[d] # NULL => conn'[d] = conn[d] \/ Held(conn'[d])
    BY <2>1
  <2> QED BY <1>5, <1>6, <2>2, <2>3, OneRight
<1> QED BY <1>8, <1>9

LEMMA OpenFailsRight ==
  ASSUME HInv, RInv, NEW r \in Req, OpenFails(r), UNCHANGED at
  PROVE  RInv'
<1>1. /\ TypesOK /\ pc[r] = "new" /\ Quiet(arg[r], answer[r]) /\ arg[r].rc = ""
  BY QuietIs DEF HInv, OpenFails, MayStart
<1>2. UNCHANGED <<answer, conn, arg>> /\ pc' = [pc EXCEPT ![r] = "over"]
  BY DEF OpenFails, Goto, Keep
<1>3. Others(r) /\ pc'[r] = "over" /\ arg'[r] = arg[r]
  BY <1>1, <1>2 DEF TypesOK, Others
<1>4. ~Uses(r)'
  BY <1>3 DEF Uses
<1>5. Fine(r)' /\ pc'[r] # "connect"
  BY <1>1, <1>2, <1>3, <1>4 DEF Fine, Quiet
<1>6. DOMAIN answer' = Req
  BY <1>2 DEF RInv
<1>7. \A q \in Req \ {r} : Untouched(q)
  BY <1>2, <1>3, OthersUntouched
<1>8. \A d \in Channel : conn'[d] # NULL => conn'[d] = conn[d] \/ Held(conn'[d])
  BY <1>2
<1> QED BY <1>5, <1>6, <1>7, <1>8, OneRight

(* A connection that is taken over is idle.                                *)
LEMMA BeginRight ==
  ASSUME HInv, RInv, ~Uploading, NEW r \in Req, Begin(r), UNCHANGED at,
         \A k \in Req, n \in UploadSize :
           Running(k, {"done"}) /\ RequestCo(r, k, n) => ~arg[k].do_not_shutdown
  PROVE  RInv'
<1>1. CASE OpenFails(r)
  BY <1>1, OpenFailsRight
<1>2. CASE \E k \in Req \cup {NULL}, n \in UploadSize : RequestCo(r, k, n)
  <2>1. PICK k \in Req \cup {NULL}, n \in UploadSize : RequestCo(r, k, n)
    BY <1>2
  <2>2. /\ TypesOK /\ pc[r] = "new" /\ pc' = [pc EXCEPT ![r] = "connect"]
        /\ UNCHANGED conn /\ UNCHANGED answer
        /\ arg' = [q \in Req |->
             IF q = r THEN [NewArg EXCEPT !.size = n, !.pos = 1,
                              !.channel = IF k = NULL THEN NULL ELSE arg[k].channel]
             ELSE IF q = k THEN [arg[k] EXCEPT !.do_not_shutdown = TRUE]
             ELSE arg[q]]
    BY <2>1, Zenon DEF HInv, RequestCo, MayStart, Goto, Keep
  <2>3. PICK e : e = [NewArg EXCEPT !.size = n, !.pos = 1,
                        !.channel = IF k = NULL THEN NULL ELSE arg[k].channel]
    OBVIOUS
  <2>4. /\ pc'[r] = "connect" /\ arg'[r] = e
        /\ \A q \in Req \ {r} : pc'[q] = pc[q]
        /\ \A q \in Req \ {r, k} : arg'[q] = arg[q]
    BY <2>2, <2>3 DEF TypesOK
  <2>5. /\ e.sink = <<>> /\ e.rc = "" /\ e.count = 0 /\ e.response_headers = NULL
        /\ Plain(e.headers) /\ e.size = n /\ e.pos = 1
        /\ e.channel = IF k = NULL THEN NULL ELSE arg[k].channel
    BY <2>3, ArgFields, NewIdle
  <2>6. Beginning(e)
    BY <2>5, SizesAssumption DEF Beginning
  <2>7. Quiet(e, answer'[r])
    BY <2>2, <2>5, QuietIs DEF Quiet
  <2>8. \A d \in Channel : conn'[d] # NULL => conn'[d] = conn[d] \/ Held(conn'[d])
    BY <2>2
  <2>9. DOMAIN answer' = Req
    BY <2>2 DEF RInv
  <2>10. CASE k = NULL
    <3>1. ~Uses(r)'
      BY <2>4, <2>5, <2>10 DEF Uses
    <3>2. Fine(r)'
      BY <2>4, <2>5, <2>7, <3>1 DEF Fine
    <3>3. \A q \in Req \ {r} : Untouched(q)
      BY <2>2, <2>4, <2>10, NamesAssumption DEF Untouched
    <3> QED BY <2>4, <2>6, <2>8, <2>9, <3>2, <3>3, OneRight
  <2>11. CASE k # NULL
    <3>1. k \in Req /\ Running(k, {"done"}) /\ pc[k] = "done" /\ k # r
      BY <2>1, <2>2, <2>11 DEF RequestCo, MayStart, Running, Runs
    <3>2. ~arg[k].do_not_shutdown
      BY <2>1, <3>1
    <3>3. PICK f : f = [arg[k] EXCEPT !.do_not_shutdown = TRUE]
      OBVIOUS
    <3>4. /\ pc'[k] = "done" /\ arg'[k] = f /\ f.do_not_shutdown = TRUE
          /\ f.sink = arg[k].sink /\ f.rc = arg[k].rc
      BY <2>2, <2>4, <3>1, <3>3, ArgFields DEF TypesOK
    <3>5. Quiet(arg[k], answer[k]) /\ arg[k].rc = ""
      BY <3>1, QuietIs
    <3>6. ~Uses(k)'
      BY <3>4, Zenon DEF Uses
    <3>7. Fine(k)' /\ pc'[k] # "connect"
      BY <2>2, <3>4, <3>5, <3>6 DEF Fine, Quiet
    <3>8. Fine(r)'
      <4>1. CASE Uses(k)
        <5>1. PICK g, v, x : /\ g = arg[k] /\ v = answer[k] /\ x = conn[arg[k].channel]
          OBVIOUS
        <5>2. Right(k, "done", g, v, x) /\ "done" \in {"connect", "done"}
          BY <3>1, <4>1, <5>1 DEF RInv
        <5>3. Idle(x)
          BY <5>2, IdleIs
        <5>4. Right(r, "connect", e, answer'[r], x)
          BY <2>5, <2>7, <5>3 DEF Right
        <5>5. e.channel = arg[k].channel /\ arg[k].channel # NULL
          BY <2>5, <2>11, <4>1 DEF Uses
        <5>6. Uses(r)'
          BY <2>4, <5>5 DEF Uses
        <5>7. conn'[arg'[r].channel] = x
          BY <2>2, <2>4, <5>1, <5>5
        <5> QED BY <2>4, <5>4, <5>6, <5>7 DEF Fine
      <4>2. CASE ~Uses(k)
        <5>1. arg[k].channel = NULL
          BY <3>1, <3>2, <4>2, Zenon DEF Uses
        <5>2. ~Uses(r)'
          BY <2>4, <2>5, <5>1 DEF Uses
        <5> QED BY <2>4, <2>5, <2>7, <5>2 DEF Fine
      <4> QED BY <4>1, <4>2
    <3>9. PICK S : S = {r, k}
      OBVIOUS
    <3>10. \A q \in Req \ S : Untouched(q)
      BY <2>2, <2>4, <3>9 DEF Untouched
    <3>11. \A q \in Req \cap S : Fine(q)' /\ (pc'[q] = "connect" => Beginning(arg'[q]))
      BY <2>4, <2>6, <3>7, <3>8, <3>9
    <3> QED BY <2>8, <2>9, <3>10, <3>11, RightAfter
  <2> QED BY <2>10, <2>11
<1> QED BY <1>1, <1>2 DEF Begin

LEMMA RequestRight ==
  ASSUME HInv, RInv, ~Uploading, NEW r \in Req, Step(r) \/ ConnectFails(r) \/ Resume(r),
         UNCHANGED at, NULL # "chunked", NULL \notin Nat
  PROVE  RInv'
<1>1. CASE Connect(r) \/ Write(r) \/ WriteFails(r) \/ SendBody(r) \/ ConnectFails(r)
  BY <1>1, ConnectRight, WriteRight, WriteFailsRight, SendBodyRight, ConnectFailsRight
<1>2. CASE NeedMore(r) \/ StatusLineOf(r) \/ HeaderLineOf(r) \/ HeadersEnd(r)
  BY <1>2, NeedMoreRight, StatusRight, HeaderRight, HeadersEndRight
<1>3. CASE ReadChars(r) \/ ReadNothing(r) \/ ReadAll(r)
  BY <1>3, CharsRight, ReadNothingRight, ReadAllRight
<1>4. CASE ChunkSize(r) \/ ChunkEnd(r) \/ Trailer(r)
  BY <1>4, ChunkSizeRight, ChunkEndRight, TrailerRight
<1>5. CASE RequestOk(r) \/ Cleanup(r) \/ Finish(r)
  BY <1>5, OkRight, CleanupRight, FinishRight
<1>6. CASE Resume(r)
  <2>1. UNCHANGED <<pc, arg, answer, conn, at>>
    BY <1>6 DEF Resume, Resumed, requestVars
  <2> QED BY <2>1, RightStays
<1> QED BY <1>1, <1>2, <1>3, <1>4, <1>5, <1>6 DEF Step

-----------------------------------------------------------------------------
(***************************************************************************)
(* Steps of the server and of the network.                                 *)
(***************************************************************************)
On(q, c) == Uses(q) /\ arg[q].channel = c

(* Only a connection that somebody uses is alive.                          *)
LEMMA AliveUsed ==
  ASSUME HInv, RInv, ~Uploading, NEW c \in Channel, Alive(c)
  PROVE  /\ conn[c] # NULL /\ Held(conn[c]) /\ ~conn[c].fin
         /\ \E q \in Req : On(q, c)
<1>1. conn[c] # NULL /\ Held(conn[c])
  BY DEF Alive, RInv
<1>2. ~conn[c].fin
  BY Zenon DEF Alive
<1>3. Open(c)
  BY <1>1, <1>2, Zenon DEF Held, Open
<1> QED BY <1>1, <1>2, <1>3 DEF HInv, Connections, On

LEMMA OneOn ==
  ASSUME HInv, NEW c, NEW q \in Req, On(q, c), NEW p \in Req, On(p, c)
  PROVE  p = q
BY DEF HInv, Connections, On

LEMMA NetworkRight ==
  ASSUME HInv, RInv, ~Uploading, NEW c \in Channel, UNCHANGED <<pc, arg, at>>,
         NEW y, Turned(c, y), Held(y), DOMAIN answer' = Req,
         \A q \in Req : ~On(q, c) => answer'[q] = answer[q],
         \A q \in Req : On(q, c) /\ Right(q, pc[q], arg[q], answer[q], conn[c])
                        => Right(q, pc[q], arg[q], answer'[q], y)
  PROVE  RInv'
<1>1. PICK S : S = {q \in Req : On(q, c)}
  OBVIOUS
<1>2. \A q \in Req : Uses(q)' <=> Uses(q)
  BY DEF Uses
<1>3. conn'[c] = y /\ \A d \in Channel \ {c} : conn'[d] = conn[d]
  BY DEF Turned
<1>4. ASSUME NEW q \in Req \ S
      PROVE  Untouched(q)
  <2>1. ~On(q, c)
    BY <1>1, <1>4
  <2>2. Uses(q) => arg[q].channel \in Channel \ {c}
    BY <2>1 DEF On, HInv, TypesOK, Uses
  <2> QED BY <1>3, <2>1, <2>2 DEF Untouched
<1>5. ASSUME NEW q \in Req \cap S
      PROVE  Fine(q)' /\ (pc'[q] = "connect" => Beginning(arg'[q]))
  <2>1. On(q, c) /\ Uses(q) /\ arg[q].channel = c
    BY <1>1, <1>5 DEF On
  <2>2. Right(q, pc[q], arg[q], answer[q], conn[c])
    BY <2>1 DEF RInv
  <2>3. Right(q, pc[q], arg[q], answer'[q], y)
    BY <2>1, <2>2
  <2>4. Fine(q)'
    BY <1>2, <1>3, <2>1, <2>3 DEF Fine
  <2> QED BY <2>4 DEF RInv
<1>6. \A d \in Channel : conn'[d] # NULL => conn'[d] = conn[d] \/ Held(conn'[d])
  BY <1>3
<1> QED BY <1>4, <1>5, <1>6, RightAfter

(* The server reads what is asked.                                         *)
LEMMA ServerReadsOn ==
  ASSUME NEW r, NEW s, NEW e, NEW v, NEW x, Right(r, s, e, v, x), ~x.fin, x.up # <<>>,
         NEW y, y.buf = x.buf, y.down = x.down, y.flight = x.flight,
         y.got = x.got \o x.up, y.up = <<>>
  PROVE  Right(r, s, e, v, y)
<1>1. ~Dead(x) /\ ~Idle(x)
  BY DEF Dead, Idle
<1>2. ~Leaving(r, e, v, x)
  BY <1>1, Zenon DEF Leaving
<1>3. ~Answered(r, s, e, v, x)
  BY DEF Answered
<1>4. Asking(r, s, e, v, x) /\ s # "cleanup" /\ e.rc = ""
  BY <1>1, <1>2, <1>3 DEF Right, Asking
<1>5. /\ v = NULL /\ s \in {"send", "status"}
      /\ e.sink = <<>> /\ e.count = 0 /\ e.response_headers = NULL /\ Plain(e.headers)
      /\ Silent(x) /\ x.got \in Seq(Words) /\ x.up \in Seq(Words)
      /\ e.data \in Seq(Words) /\ e.size \in Nat
      /\ s = "status" => e.data = <<>>
  BY <1>1, <1>4 DEF Asking
<1>6. PICK k \in 0..e.size : e.pos = k + 1 /\ x.got \o (x.up \o e.data) = Asked(r, e.size, k)
  BY <1>1, <1>4 DEF Asking
<1>7. Silent(y)
  BY <1>5 DEF Silent
<1>8. y.got \in Seq(Words) /\ y.up \in Seq(Words) /\ Len(y.up) <= Window
  <2>1. 0 <= Window
    BY Nought
  <2>2. Len(y.up) = 0 /\ y.up \in Seq(Words)
    BY EmptySeq
  <2>3. x.got \o x.up \in Seq(Words)
    BY <1>5, ConcatProperties
  <2> QED BY <2>1, <2>2, <2>3
<1>9. y.got \o (y.up \o e.data) = Asked(r, e.size, k)
  <2>1. JoinsThree(x.got, x.up, e.data)
    BY <1>5, JoinThree
  <2>2. <<>> \o e.data = e.data
    BY <1>5, ConcatEmptySeq
  <2> QED BY <1>6, <2>1, <2>2 DEF JoinsThree
<1>10. Asking(r, s, e, v, y)
  BY <1>5, <1>6, <1>7, <1>8, <1>9 DEF Asking
<1> QED BY <1>4, <1>10 DEF Right

(* The network delivers what the server has answered.                      *)
LEMMA DeliverOn ==
  ASSUME NEW r, NEW s, NEW e, NEW v, NEW x, Right(r, s, e, v, x), x.flight # <<>>,
         NEW y, y.buf = x.buf, y.down = Append(x.down, Head(x.flight)),
         y.flight = Tail(x.flight), y.got = x.got, y.up = x.up, x.fin => y.fin
  PROVE  Right(r, s, e, v, y)
<1>1. ~Dead(x) /\ ~Silent(x) /\ ~Idle(x)
  BY DEF Dead, Silent, Idle
<1>2. ~Asking(r, s, e, v, x)
  BY <1>1 DEF Asking
<1>3. CASE s = "cleanup" /\ Leaving(r, e, v, x)
  <2>1. e.response_headers = NULL /\ y.fin
    BY <1>1, <1>3 DEF Leaving
  <2>2. Leaving(r, e, v, y)
    BY <1>1, <1>3, <2>1 DEF Leaving
  <2> QED BY <1>3, <2>2 DEF Right
<1>4. CASE Answered(r, s, e, v, x)
  <2>1. \A rest : Ahead(x, rest) => Ahead(y, rest)
    BY DeliverAhead
  <2>2. Answered(r, s, e, v, y)
    BY <1>1, <1>4, <2>1, AnsweredOn
  <2> QED BY <2>2 DEF Right
<1> QED BY <1>1, <1>2, <1>3, <1>4 DEF Right

(* The server breaks the connection.                                       *)
LEMMA BreakOn ==
  ASSUME NEW r, NEW s, NEW e, NEW v, NEW x, Right(r, s, e, v, x), Breaks, ~x.fin,
         NEW y, y.buf = x.buf, y.down = x.down, y.flight = <<>>,
         y.got = x.got, y.up = x.up, y.fin
  PROVE  Right(r, s, e, v, y)
<1>1. ~Dead(x)
  BY DEF Dead
<1>2. /\ Silent(x) => Silent(y) /\ Dead(y)
      /\ Idle(x) => Idle(y)
  <2>1. Silent(x) => Silent(y)
    BY DEF Silent
  <2>2. Silent(x) => Dead(y)
    BY <2>1, SilentEnds
  <2> QED BY <1>1, <2>1, <2>2 DEF Idle
<1>3. CASE s \in {"connect", "done"} /\ Quiet(e, v) /\ Idle(x)
  BY <1>2, <1>3 DEF Right
<1>4. CASE s = "cleanup" /\ Leaving(r, e, v, x)
  <2>1. Idle(y)
    BY <1>2, <1>4 DEF Leaving
  <2>2. Leaving(r, e, v, y)
    BY <1>2, <1>4, <2>1 DEF Leaving
  <2> QED BY <1>4, <2>2 DEF Right
<1>5. CASE Asking(r, s, e, v, x)
  <2>1. Dead(y)
    BY <1>1, <1>2, <1>5 DEF Asking
  <2>2. Asking(r, s, e, v, y)
    BY <1>5, <2>1 DEF Asking
  <2> QED BY <2>2 DEF Right
<1>6. CASE Answered(r, s, e, v, x)
  <2>1. Broken(y)
    BY DEF Broken
  <2>2. \A rest : Ahead(x, rest) => Ahead(y, rest)
    BY <2>1, BreakAhead
  <2>3. Answered(r, s, e, v, y)
    BY <1>2, <1>6, <2>2, AnsweredOn
  <2> QED BY <2>3 DEF Right
<1> QED BY <1>3, <1>4, <1>5, <1>6 DEF Right

LEMMA ServerReadsRight ==
  ASSUME HInv, RInv, ~Uploading, NEW c \in Channel, ServerReads(c),
         UNCHANGED <<pc, arg, answer, at>>
  PROVE  RInv'
<1>1. PICK x : x = conn[c] /\ x # NULL /\ Held(x) /\ ~x.fin /\ x.up # <<>>
  BY AliveUsed DEF ServerReads
<1>2. DOMAIN x = DOMAIN NewConn /\ DOMAIN conn = Channel /\ DOMAIN answer' = Req
  BY <1>1 DEF HInv, TypesOK, RInv
<1>3. PICK g : g = x.got \o x.up /\ conn' = [conn EXCEPT ![c].got = g, ![c].up = <<>>]
  BY <1>1 DEF ServerReads
<1>4. PICK y : y = [x EXCEPT !.got = g, !.up = <<>>]
  OBVIOUS
<1>5. /\ y.buf = x.buf /\ y.down = x.down /\ y.flight = x.flight /\ y.got = g /\ y.up = <<>>
      /\ y.open = x.open /\ y.fin = x.fin
  BY <1>2, <1>4, ConnFields
<1>6. Held(y)
  BY <1>1, <1>5, Zenon DEF Held
<1>7. Turned(c, y)
  BY <1>1, <1>2, <1>3, <1>4 DEF Turned
<1>8. ASSUME NEW q \in Req, Right(q, pc[q], arg[q], answer[q], x)
      PROVE  Right(q, pc[q], arg[q], answer'[q], y)
  <2>1. PICK s, e, v : s = pc[q] /\ e = arg[q] /\ v = answer[q] /\ v = answer'[q]
    OBVIOUS
  <2>2. Right(q, s, e, v, x)
    BY <1>8, <2>1
  <2>3. Right(q, s, e, v, y)
    BY <1>1, <1>3, <1>5, <2>2, ServerReadsOn
  <2> QED BY <2>1, <2>3
<1> QED BY <1>1, <1>2, <1>6, <1>7, <1>8, NetworkRight

LEMMA DeliverRight ==
  ASSUME HInv, RInv, ~Uploading, NEW c \in Channel, Deliver(c),
         UNCHANGED <<pc, arg, answer, at>>
  PROVE  RInv'
<1>1. PICK x : x = conn[c] /\ x # NULL /\ Held(x) /\ x.flight # <<>>
  BY DEF Deliver, RInv
<1>2. DOMAIN x = DOMAIN NewConn /\ DOMAIN conn = Channel /\ DOMAIN answer' = Req
  BY <1>1 DEF HInv, TypesOK, RInv
<1>3. PICK d, f : d = Append(x.down, Head(x.flight)) /\ f = Tail(x.flight)
                  /\ conn' = [conn EXCEPT ![c].down = d, ![c].flight = f]
  BY <1>1 DEF Deliver
<1>4. PICK y : y = [x EXCEPT !.down = d, !.flight = f]
  OBVIOUS
<1>5. /\ y.buf = x.buf /\ y.down = d /\ y.flight = f /\ y.got = x.got /\ y.up = x.up
      /\ y.open = x.open /\ y.fin = x.fin
  BY <1>2, <1>4, ConnFields
<1>6. Held(y) /\ (x.fin => y.fin)
  BY <1>1, <1>5, Zenon DEF Held
<1>7. Turned(c, y)
  BY <1>1, <1>2, <1>3, <1>4 DEF Turned
<1>8. ASSUME NEW q \in Req, Right(q, pc[q], arg[q], answer[q], x)
      PROVE  Right(q, pc[q], arg[q], answer'[q], y)
  <2>1. PICK s, e, v : s = pc[q] /\ e = arg[q] /\ v = answer[q] /\ v = answer'[q]
    OBVIOUS
  <2>2. Right(q, s, e, v, x)
    BY <1>8, <2>1
  <2>3. Right(q, s, e, v, y)
    BY <1>1, <1>3, <1>5, <1>6, <2>2, DeliverOn
  <2> QED BY <2>1, <2>3
<1> QED BY <1>1, <1>2, <1>6, <1>7, <1>8, NetworkRight

LEMMA BreakRight ==
  ASSUME HInv, RInv, ~Uploading, NEW c \in Channel, Break(c),
         UNCHANGED <<pc, arg, answer, at>>
  PROVE  RInv'
<1>1. PICK x : x = conn[c] /\ x # NULL /\ Held(x) /\ ~x.fin
  BY AliveUsed DEF Break
<1>2. DOMAIN x = DOMAIN NewConn /\ DOMAIN conn = Channel /\ DOMAIN answer' = Req
  BY <1>1 DEF HInv, TypesOK, RInv
<1>3. conn' = [conn EXCEPT ![c].fin = TRUE, ![c].flight = <<>>] /\ Breaks
  BY Zenon DEF Break
<1>4. PICK y : y = [x EXCEPT !.fin = TRUE, !.flight = <<>>]
  OBVIOUS
<1>5. /\ y.buf = x.buf /\ y.down = x.down /\ y.flight = <<>> /\ y.got = x.got /\ y.up = x.up
      /\ y.open = x.open /\ y.fin = TRUE
  BY <1>2, <1>4, ConnFields
<1>6. Held(y) /\ y.fin
  BY <1>5, Zenon DEF Held
<1>7. Turned(c, y)
  BY <1>1, <1>2, <1>3, <1>4 DEF Turned
<1>8. ASSUME NEW q \in Req, Right(q, pc[q], arg[q], answer[q], x)
      PROVE  Right(q, pc[q], arg[q], answer'[q], y)
  <2>1. PICK s, e, v : s = pc[q] /\ e = arg[q] /\ v = answer[q] /\ v = answer'[q]
    OBVIOUS
  <2>2. Right(q, s, e, v, x)
    BY <1>8, <2>1
  <2>3. Right(q, s, e, v, y)
    BY <1>1, <1>3, <1>5, <1>6, <2>2, BreakOn
  <2> QED BY <2>1, <2>3
<1> QED BY <1>1, <1>2, <1>6, <1>7, <1>8, NetworkRight

(* A request that is complete has been sent and read to its end.           *)
Unread(g) == SubSeq(g, 3 + g[2][3], Len(g))
AskedIn(r, n, k, g, u, d) ==
  /\ n \in Nat /\ k \in 0..n
  /\ g \in Seq(Words) /\ u \in Seq(Words) /\ d \in Seq(Words)
  /\ g \o (u \o d) = Asked(r, n, k)

LEMMA CompleteIs ==
  ASSUME NEW r \in Req, NEW n, NEW k, NEW g, NEW u, NEW d,
         AskedIn(r, n, k, g, u, d), Complete(g)
  PROVE  /\ g[1][2] = r /\ k = n /\ u = <<>> /\ d = <<>>
         /\ Unread(g) = <<>>
<1> USE DEF AskedIn
<1>1. PICK t \in Seq(Words) : t = u \o d /\ Len(t) = Len(u) + Len(d)
  BY ConcatProperties
<1>2. PICK h \in Seq(Words) : h = <<Unit("request", r, 0), Unit("header", r, n)>>
                              /\ Len(h) = 2 /\ h[1] = Unit("request", r, 0)
                              /\ h[2] = Unit("header", r, n)
  <2>1. <<Unit("request", r, 0), Unit("header", r, n)>> \in Seq(Words)
    BY WordsAre, TwoWords
  <2> QED BY <2>1
<1>3. PICK p \in Seq(Words) : p = Piece(r, 0, k) /\ Len(p) = k
  <2>1. PICK z \in Nat : z = 0 /\ z <= k /\ k - z = k
    OBVIOUS
  <2>2. Piece(r, z, k) \in Seq(Words) /\ Len(Piece(r, z, k)) = k - z
    <3>1. k \in Nat /\ z <= k
      BY <2>1
    <3> QED BY <3>1, PieceWords
  <2> QED BY <2>1, <2>2
<1>4. g \o t = h \o p
  BY <1>1, <1>2, <1>3 DEF Asked
<1>5. PICK i \in Nat, j \in Nat : i = Len(g) /\ j = Len(t)
  BY LenProperties
<1>6. i + j = 2 + k
  <2>1. Len(g \o t) = i + j /\ Len(h \o p) = 2 + k
    BY <1>2, <1>3, <1>5, ConcatProperties
  <2> QED BY <1>4, <2>1
<1>7. i >= 2 /\ i >= 2 + g[2][3]
  BY <1>5 DEF Complete
<1>8. g[1] = h[1] /\ g[2] = h[2]
  <2>1. /\ (g \o t)[1] = g[1] /\ (g \o t)[2] = g[2]
    BY <1>5, <1>7, ConcatProperties
  <2>2. /\ (h \o p)[1] = h[1] /\ (h \o p)[2] = h[2]
    BY <1>2, ConcatProperties
  <2> QED BY <1>4, <2>1, <2>2
<1>9. g[1][2] = r /\ g[2][3] = n
  BY <1>2, <1>8 DEF Unit
<1>10. k = n /\ j = 0 /\ i = 2 + n
  BY <1>6, <1>7, <1>9
<1>11. u = <<>> /\ d = <<>>
  <2>1. PICK a \in Nat, b \in Nat : a = Len(u) /\ b = Len(d)
    BY LenProperties
  <2>2. a = 0 /\ b = 0
    BY <1>1, <1>5, <1>10, <2>1
  <2> QED BY <2>1, <2>2, EmptySeq
<1>12. Unread(g) = <<>>
  BY <1>5, <1>9, <1>10 DEF Unread
<1> QED BY <1>9, <1>10, <1>11, <1>12

(* Then all of the response is on its way, and nothing else.               *)
Answering(r, s, e, x) ==
  \A a, y : /\ a \in Replies /\ y.buf = x.buf /\ y.down = x.down
            /\ y.flight = x.flight \o Response(r, a)
            /\ y.got = <<>> /\ y.up = x.up
            => Right(r, s, e, AnswerTo(r, a), y)

LEMMA ServerAnswersOn ==
  ASSUME NEW r \in Req, NEW s, NEW e, NEW v, NEW x, Right(r, s, e, v, x), ~x.fin,
         Complete(x.got)
  PROVE  /\ x.got[1][2] = r
         /\ Unread(x.got) = <<>> /\ Answering(r, s, e, x)
<1>1. x.got # <<>>
  BY DEF Complete
<1>2. ~Dead(x) /\ ~Idle(x)
  BY <1>1 DEF Dead, Idle
<1>3. ~Leaving(r, e, v, x)
  BY <1>2, Zenon DEF Leaving
<1>4. ~Answered(r, s, e, v, x)
  BY <1>1 DEF Answered
<1>5. Asking(r, s, e, v, x) /\ s # "cleanup" /\ e.rc = ""
  BY <1>2, <1>3, <1>4 DEF Right, Asking
<1>6. /\ s \in {"send", "status"}
      /\ e.sink = <<>> /\ e.count = 0 /\ e.response_headers = NULL /\ Plain(e.headers)
      /\ Silent(x) /\ x.got \in Seq(Words) /\ x.up \in Seq(Words)
      /\ e.data \in Seq(Words) /\ e.size \in Nat
  BY <1>2, <1>5 DEF Asking
<1>7. PICK k \in 0..e.size : e.pos = k + 1 /\ x.got \o (x.up \o e.data) = Asked(r, e.size, k)
  BY <1>2, <1>5 DEF Asking
<1>8. /\ x.got[1][2] = r /\ k = e.size /\ x.up = <<>> /\ e.data = <<>>
      /\ Unread(x.got) = <<>>
  <2>1. PICK g \in Seq(Words), u \in Seq(Words), d \in Seq(Words), n \in Nat :
          g = x.got /\ u = x.up /\ d = e.data /\ n = e.size
    BY <1>6
  <2>2. AskedIn(r, n, k, g, u, d) /\ Complete(g)
    BY <1>7, <2>1 DEF AskedIn
  <2>3. /\ g[1][2] = r /\ k = n /\ u = <<>> /\ d = <<>>
        /\ Unread(g) = <<>>
    BY <2>2, CompleteIs
  <2> QED BY <2>1, <2>3
<1>9. e.pos >= e.size
  BY <1>6, <1>7, <1>8
<1>10. ASSUME NEW a \in Replies, NEW y, y.buf = x.buf, y.down = x.down,
              y.flight = x.flight \o Response(r, a), y.got = <<>>, y.up = x.up
       PROVE  Right(r, s, e, AnswerTo(r, a), y)
  <2>1. PICK b \in Seq(Words) : BodyPart(r, a, b) /\ Whole(r, a, b) \in Seq(Words)
                                /\ Response(r, a) = Whole(r, a, b)
    BY ResponseIs
  <2>2. PICK w \in Seq(Words) : w = Whole(r, a, b)
    BY <2>1
  <2>3. Ahead(y, w)
    BY <1>6, <1>10, <2>1, <2>2, SendAhead
  <2>4. BeforeStatus(r, a, s, e, w, b)
    BY <1>6, <1>8, <1>9, <2>2 DEF BeforeStatus
  <2>5. InHead(r, a, s, e, w)
    BY <1>6, <2>1, <2>4 DEF InHead
  <2>6. Coming(r, a, s, e, w)
    BY <2>5 DEF Coming
  <2> QED BY <1>5, <1>8, <1>10, <2>3, <2>6, ComingRight
<1> QED BY <1>8, <1>10 DEF Answering

LEMMA ServerAnswersRight ==
  ASSUME HInv, RInv, ~Uploading, NEW c \in Channel, NEW a \in Replies, ServerAnswers(c, a),
         UNCHANGED at
  PROVE  RInv'
<1>1. PICK x : x = conn[c] /\ x # NULL /\ Held(x) /\ ~x.fin /\ Complete(x.got)
  BY AliveUsed DEF ServerAnswers
<1>2. DOMAIN x = DOMAIN NewConn /\ DOMAIN conn = Channel /\ DOMAIN answer = Req
  BY <1>1 DEF HInv, TypesOK, RInv
<1>3. PICK r \in Req : On(r, c)
  BY AliveUsed DEF ServerAnswers
<1>4. PICK s, e, v : s = pc[r] /\ e = arg[r] /\ v = answer[r]
  OBVIOUS
<1>5. /\ x.got[1][2] = r
      /\ Unread(x.got) = <<>> /\ Answering(r, s, e, x)
  <2>1. Right(r, s, e, v, x)
    BY <1>1, <1>3, <1>4 DEF On, RInv
  <2> QED BY <1>1, <2>1, ServerAnswersOn
<1>6. PICK f, z : f = x.flight \o Response(r, a) /\ z = (a.close \/ a.framing = "identity")
  OBVIOUS
<1>7. /\ conn' = [conn EXCEPT ![c].flight = f, ![c].got = <<>>, ![c].fin = z]
      /\ answer' = [answer EXCEPT ![r] = AnswerTo(r, a)]
  <2>1. PICK g, q, u : g = conn[c].got /\ q = g[1][2] /\ u = SubSeq(g, 3 + g[2][3], Len(g))
    OBVIOUS
  <2>2. /\ conn' = [conn EXCEPT ![c].flight = @ \o Response(q, a), ![c].got = u,
                                ![c].fin = a.close \/ a.framing = "identity"]
        /\ answer' = [answer EXCEPT ![q] = [body |-> Body(q, a.n), framing |-> a.framing]]
    BY <2>1, Zenon DEF ServerAnswers
  <2>3. q = r /\ u = <<>>
    BY <1>1, <1>5, <2>1 DEF Unread
  <2> QED BY <1>1, <1>6, <2>2, <2>3 DEF AnswerTo
<1>8. UNCHANGED <<pc, arg, at>>
  BY DEF ServerAnswers
<1>9. PICK y : y = [x EXCEPT !.flight = f, !.got = <<>>, !.fin = z]
  OBVIOUS
<1>10. /\ y.buf = x.buf /\ y.down = x.down /\ y.flight = f /\ y.got = <<>> /\ y.up = x.up
      /\ y.open = x.open
  BY <1>2, <1>9, ConnFields
<1>11. Held(y)
  BY <1>1, <1>10, Zenon DEF Held
<1>12. Turned(c, y)
  BY <1>1, <1>2, <1>7, <1>9 DEF Turned
<1>13. /\ DOMAIN answer' = Req /\ answer'[r] = AnswerTo(r, a)
       /\ \A q \in Req \ {r} : answer'[q] = answer[q]
  BY <1>2, <1>7
<1>14. \A q \in Req : ~On(q, c) => answer'[q] = answer[q]
  BY <1>3, <1>13
<1>15. ASSUME NEW q \in Req, On(q, c)
       PROVE  Right(q, pc[q], arg[q], answer'[q], y)
  <2>1. q = r
    BY <1>3, <1>15, OneOn
  <2>2. Right(r, s, e, AnswerTo(r, a), y)
    BY <1>5, <1>6, <1>10 DEF Answering
  <2> QED BY <1>13, <1>4, <2>1, <2>2
<1> QED BY <1>8, <1>11, <1>12, <1>13, <1>14, <1>15, NetworkRight
-----------------------------------------------------------------------------
LEMMA RInvInit == Init => RInv
<1> SUFFICES ASSUME Init
             PROVE  RInv
  OBVIOUS
<1>1. /\ pc = [r \in Req |-> "new"] /\ arg = [r \in Req |-> NewArg]
      /\ answer = [r \in Req |-> NULL] /\ conn = [c \in Channel |-> NULL]
  BY DEF Init, ChannelsInit, HttpInit
<1>2. ASSUME NEW r \in Req
      PROVE  ~Uses(r) /\ Quiet(arg[r], answer[r]) /\ arg[r].rc = "" /\ pc[r] # "connect"
  BY <1>1, NewIdle DEF Uses, Quiet
<1>3. \A c \in Channel : conn[c] = NULL
  BY <1>1
<1> QED BY <1>1, <1>2, <1>3 DEF RInv

(* No request has begun.                                                   *)
LEMMA AllNewRight ==
  ASSUME RInv, \A r \in Req : pc[r] = "new", UNCHANGED <<pc, arg, answer>>,
         ~Uploading' => \A c \in Channel : conn'[c] # NULL => Held(conn'[c])
  PROVE  RInv'
<1>1. ASSUME NEW r \in Req
      PROVE  ~Uses(r)' /\ Quiet(arg'[r], answer'[r]) /\ arg'[r].rc = "" /\ pc'[r] # "connect"
  BY QuietIs DEF Uses, Quiet
<1> QED BY <1>1 DEF RInv

LEMMA HttpRight ==
  ASSUME HInv, RInv, ~Uploading, HttpNext, UNCHANGED at, TakesOnce \/ UNCHANGED vars,
         NULL # "chunked", NULL \notin Nat
  PROVE  RInv'
<1>1. CASE UNCHANGED vars
  <2>1. UNCHANGED <<pc, arg, answer, conn, at>>
    BY <1>1 DEF vars, channelVars, requestVars
  <2> QED BY <2>1, RightStays
<1>2. CASE TakesOnce
  <2>1. ASSUME NEW r \in Req, Begin(r)
        PROVE  RInv'
    <3>1. \A k \in Req, n \in UploadSize :
            Running(k, {"done"}) /\ RequestCo(r, k, n) => ~arg[k].do_not_shutdown
      BY <1>2 DEF TakesOnce
    <3> QED BY <2>1, <3>1, BeginRight
  <2>2. ASSUME NEW r \in Req, Step(r) \/ ConnectFails(r) \/ Resume(r)
        PROVE  RInv'
    BY <2>2, RequestRight
  <2>3. ASSUME NEW c \in Channel, NEW a \in Replies, ServerAnswers(c, a)
        PROVE  RInv'
    BY <2>3, ServerAnswersRight
  <2> QED BY <2>1, <2>2, <2>3 DEF HttpNext
<1> QED BY <1>1, <1>2

LEMMA RInvKeeps ==
  ASSUME NInv, RInv, [Next]_vars, [TakesOnce]_vars, NULL # "chunked", NULL \notin Nat
  PROVE  RInv'
<1>1. CASE HttpStep
  <2>1. ~Uploading /\ UNCHANGED at /\ HttpNext /\ HInv
    BY <1>1 DEF HttpStep, Uploading, putVars, NInv
  <2>2. TakesOnce \/ UNCHANGED vars
    OBVIOUS
  <2> QED BY <2>1, <2>2, HttpRight
<1>2. CASE FtpStep
  <2>1. (\A r \in Req : pc[r] = "new") /\ UNCHANGED <<pc, arg, answer>> /\ FtpNext
    BY <1>2 DEF FtpStep, requestVars
  <2>2. ASSUME ~Uploading', NEW c \in Channel, conn'[c] # NULL
        PROVE  Held(conn'[c])
    <3>1. UNCHANGED at /\ (UNCHANGED conn \/ \E d \in Channel : AnswerCommand(d))
      BY <2>1, <2>2, FtpKeeps DEF NInv
    <3>2. ~Uploading /\ HInv
      BY <2>2, <3>1 DEF NInv, Uploading
    <3>3. \A d \in Channel : ~Alive(d)
      <4>1. \A r \in Req, d \in Channel : ~On(r, d)
        BY <2>1 DEF On, Uses
      <4> QED BY <3>2, <4>1, AliveUsed
    <3>4. UNCHANGED conn
      BY <3>1, <3>3 DEF AnswerCommand
    <3> QED BY <2>2, <3>2, <3>4 DEF RInv
  <2> QED BY <2>1, <2>2, AllNewRight
<1>3. ASSUME NEW c \in Channel, ConnStep(c)
      PROVE  RInv'
  <2>1. UNCHANGED <<pc, arg, answer, at>> /\ (ServerReads(c) \/ Deliver(c) \/ Break(c))
    BY <1>3 DEF ConnStep, requestVars, putVars
  <2>2. CASE Uploading
    <3>1. \A r \in Req : pc[r] = "new"
      BY <2>2 DEF NInv
    <3>2. Uploading'
      BY <2>1, <2>2 DEF Uploading
    <3> QED BY <2>1, <3>1, <3>2, AllNewRight
  <2>3. CASE ~Uploading
    <3>1. HInv
      BY <2>3 DEF NInv
    <3> QED BY <2>1, <2>3, <3>1, ServerReadsRight, DeliverRight, BreakRight
  <2> QED BY <2>2, <2>3
<1>4. CASE UNCHANGED vars
  <2>1. UNCHANGED <<pc, arg, answer, conn, at>>
    BY <1>4 DEF vars, channelVars, requestVars, putVars
  <2> QED BY <2>1, RightStays
<1> QED BY <1>1, <1>2, <1>3, <1>4 DEF Next

(* The server answers a request with one of the replies, or not at all.    *)
Shaped(r, v) == v = NULL \/ \E a \in Replies : v = AnswerTo(r, a)

AnswersShaped ==
  /\ DOMAIN answer = Req
  /\ \A r \in Req : Shaped(r, answer[r])

LEMMA AnswersStay ==
  ASSUME AnswersShaped, UNCHANGED answer
  PROVE  AnswersShaped'
BY DEF AnswersShaped

LEMMA AnswersForgotten ==
  ASSUME AnswersShaped, NEW r \in Req, answer' = [answer EXCEPT ![r] = NULL]
  PROVE  AnswersShaped'
BY DEF AnswersShaped, Shaped

LEMMA AnswersGiven ==
  ASSUME AnswersShaped, NEW c \in Channel, NEW a \in Replies, ServerAnswers(c, a)
  PROVE  AnswersShaped'
<1>1. PICK k : answer' = [answer EXCEPT ![k] = AnswerTo(k, a)]
  BY DEF ServerAnswers, AnswerTo
<1>2. DOMAIN answer' = Req
  BY <1>1 DEF AnswersShaped
<1>3. ASSUME NEW r \in Req
      PROVE  Shaped(r, answer'[r])
  <2>1. answer'[r] = answer[r] \/ answer'[r] = AnswerTo(r, a)
    BY <1>1 DEF AnswersShaped
  <2> QED BY <2>1 DEF AnswersShaped, Shaped
<1> QED BY <1>2, <1>3 DEF AnswersShaped

LEMMA AnswersKeep ==
  ASSUME AnswersShaped, [Next]_vars
  PROVE  AnswersShaped'
<1>1. CASE HttpStep
  <2>1. ASSUME NEW r \in Req, Begin(r) \/ ConnectFails(r) \/ Resume(r)
        PROVE  UNCHANGED answer
    <3>1. CASE Begin(r)
      BY <3>1 DEF Begin, RequestCo, OpenFails, Keep
    <3>2. CASE ConnectFails(r)
      BY <3>2 DEF ConnectFails, Keep
    <3>3. CASE Resume(r)
      BY <3>3 DEF Resume, Keep, requestVars
    <3> QED BY <2>1, <3>1, <3>2, <3>3
  <2>2. ASSUME NEW r \in Req, Step(r)
        PROVE  UNCHANGED answer \/ answer' = [answer EXCEPT ![r] = NULL]
    <3> USE DEF Keep, HasLine
    <3>1. CASE Connect(r)
      BY <3>1 DEF Connect, StartSending
    <3>2. CASE Write(r)
      BY <3>2 DEF Write
    <3>3. CASE WriteFails(r)
      BY <3>3 DEF WriteFails
    <3>4. CASE SendBody(r)
      BY <3>4 DEF SendBody
    <3>5. CASE NeedMore(r)
      BY <3>5 DEF NeedMore, requestVars
    <3>6. CASE StatusLineOf(r)
      BY <3>6 DEF StatusLineOf
    <3>7. CASE HeaderLineOf(r)
      BY <3>7 DEF HeaderLineOf
    <3>8. CASE HeadersEnd(r)
      BY <3>8 DEF HeadersEnd
    <3>9. CASE ReadChars(r)
      BY <3>9 DEF ReadChars
    <3>10. CASE ReadNothing(r)
      BY <3>10 DEF ReadNothing
    <3>11. CASE ReadAll(r)
      BY <3>11 DEF ReadAll
    <3>12. CASE ChunkSize(r)
      BY <3>12 DEF ChunkSize
    <3>13. CASE ChunkEnd(r)
      BY <3>13 DEF ChunkEnd
    <3>14. CASE Trailer(r)
      BY <3>14 DEF Trailer
    <3>15. CASE RequestOk(r)
      BY <3>15 DEF RequestOk
    <3>16. CASE Cleanup(r)
      BY <3>16 DEF Cleanup
    <3>17. CASE Finish(r)
      BY <3>17 DEF Finish
    <3> QED BY <2>2, <3>1, <3>2, <3>3, <3>4, <3>5, <3>6, <3>7, <3>8, <3>9, <3>10, <3>11, <3>12, <3>13, <3>14, <3>15, <3>16, <3>17 DEF Step
  <2>3. UNCHANGED answer \/ (\E r \in Req : answer' = [answer EXCEPT ![r] = NULL])
        \/ \E c \in Channel, a \in Replies : ServerAnswers(c, a)
    BY <1>1, <2>1, <2>2 DEF HttpStep, HttpNext
  <2> QED BY <2>3, AnswersStay, AnswersForgotten, AnswersGiven
<1>2. CASE ~HttpStep
  <2>1. UNCHANGED answer
    BY <1>2 DEF Next, FtpStep, ConnStep, requestVars, vars
  <2> QED BY <2>1, AnswersStay
<1> QED BY <1>1, <1>2

LEMMA AnswersInit == Init => AnswersShaped
BY DEF Init, HttpInit, AnswersShaped, Shaped

(* What a request has received.                                            *)
ExactFor(r, e, v) ==
  LET body == IF v = NULL THEN <<>> ELSE v.body IN
  /\ IsPrefix(e.sink, body)
  /\ e.rc = "http ok" => /\ v # NULL
                         /\ e.sink = body \/ (Breaks /\ v.framing = "identity")

LEMMA BeginningOfPiece ==
  ASSUME NEW p, NEW h \in Nat, NEW n \in 0..h
  PROVE  IsPrefix(Piece(p, 0, n), Piece(p, 0, h))
<1>1. n \in Nat /\ n <= h
  OBVIOUS
<1> QED BY <1>1, PiecePrefix

LEMMA NothingIsPrefix == IsPrefix(<<>>, <<>>)
BY DEF IsPrefix

LEMMA NothingOfPiece ==
  ASSUME NEW p
  PROVE  Piece(p, 0, 0) = <<>>
<1>1. PICK z \in Nat : z = 0
  OBVIOUS
<1>2. Piece(p, z, z) = <<>>
  BY <1>1 DEF Piece
<1> QED BY <1>1, <1>2

LEMMA PartExact ==
  ASSUME "body" \notin DOMAIN NULL, NEW r \in Req, NEW a \in Replies, NEW m \in 0..a.n,
         NEW e, NEW v, v = AnswerTo(r, a), e.sink = Piece(r, 0, m),
         e.rc = "http ok" => Received(r, a, e)
  PROVE  ExactFor(r, e, v)
<1>1. v.body = Body(r, a.n) /\ v.framing = a.framing
  BY DEF AnswerTo
<1>2. v # NULL
  <2>1. "body" \in DOMAIN AnswerTo(r, a)
    BY DEF AnswerTo
  <2> QED BY <2>1
<1>3. Body(r, a.n) = Piece(r, 0, a.n)
  BY BodyIs
<1>4. IsPrefix(Piece(r, 0, m), Piece(r, 0, a.n))
  <2>1. PICK n \in Nat : n = a.n
    BY ReplyIs
  <2>2. m \in 0..n
    BY <2>1
  <2> QED BY <2>1, <2>2, BeginningOfPiece
<1>5. e.rc = "http ok" => e.sink = v.body \/ (Breaks /\ v.framing = "identity")
  BY <1>1, <1>3 DEF Received
<1> QED BY <1>1, <1>2, <1>3, <1>4, <1>5 DEF ExactFor

LEMMA NothingExact ==
  ASSUME "body" \notin DOMAIN NULL, NEW r \in Req, NEW e, NEW v, Shaped(r, v),
         e.sink = <<>>, e.rc # "http ok"
  PROVE  ExactFor(r, e, v)
<1>1. CASE v = NULL
  <2>1. IsPrefix(<<>>, <<>>)
    BY NothingIsPrefix
  <2> QED BY <1>1, <2>1 DEF ExactFor
<1>2. CASE v # NULL
  <2>1. PICK a \in Replies : v = AnswerTo(r, a)
    BY <1>2 DEF Shaped
  <2>2. PICK n \in Nat : n = a.n
    BY ReplyIs
  <2>3. PICK z \in Nat : z = 0
    OBVIOUS
  <2>4. z \in 0..n
    BY <2>3, Nought
  <2>5. Piece(r, 0, z) = <<>>
    BY <2>3, NothingOfPiece
  <2> QED BY <2>1, <2>2, <2>4, <2>5, PartExact
<1> QED BY <1>1, <1>2

LEMMA RightExact ==
  ASSUME "body" \notin DOMAIN NULL, RInv, AnswersShaped, NEW r \in Req
  PROVE  /\ ExactFor(r, arg[r], answer[r])
         /\ pc[r] = "cleanup" /\ arg[r].rc = "http ok" /\ arg[r].channel # NULL
            => Silent(Chan(r))
<1>1. PICK s, e, v : s = pc[r] /\ e = arg[r] /\ v = answer[r]
  OBVIOUS
<1>2. Shaped(r, v)
  BY <1>1 DEF AnswersShaped
<1>3. CASE ~Uses(r)
  <2>1. e.sink = <<>> /\ e.rc # "http ok"
    BY <1>1, <1>3 DEF RInv, Quiet
  <2> QED BY <1>1, <1>3, <1>2, <2>1, NothingExact
<1>4. CASE Uses(r)
  <2>1. PICK x : x = conn[arg[r].channel] /\ x = Chan(r) /\ Right(r, s, e, v, x)
    BY <1>1, <1>4 DEF RInv, Chan, ChannelOf
  <2>2. CASE s = "cleanup"
    <3>1. Leaving(r, e, v, x)
      BY <2>1, <2>2, LeavingIs
    <3>2. CASE e.rc = "error" /\ e.sink = <<>>
      <4>1. e.rc # "http ok"
        BY <3>2
      <4> QED BY <1>1, <1>2, <3>2, <4>1, <2>2, NothingExact
    <3>3. CASE ~(e.rc = "error" /\ e.sink = <<>>)
      <4>1. PICK a \in Replies : \E m \in 0..a.n :
              /\ v = AnswerTo(r, a) /\ e.sink = Piece(r, 0, m)
              /\ e.rc = "http ok" => Silent(x) /\ Idle(x) /\ Received(r, a, e)
        BY <3>1, <3>3 DEF Leaving
      <4>2. PICK m \in 0..a.n :
              /\ v = AnswerTo(r, a) /\ e.sink = Piece(r, 0, m)
              /\ e.rc = "http ok" => Silent(x) /\ Idle(x) /\ Received(r, a, e)
        BY <4>1
      <4>3. ExactFor(r, e, v)
        BY <4>2, PartExact
      <4> QED BY <1>1, <2>1, <4>2, <4>3
    <3> QED BY <3>2, <3>3
  <2>3. CASE s # "cleanup"
    <3>1. e.rc # "http ok"
      BY <2>1, <2>3 DEF Right
    <3>2. \/ e.sink = <<>>
          \/ \E a \in Replies : \E m \in 0..a.n : v = AnswerTo(r, a) /\ e.sink = Piece(r, 0, m)
      <4>1. CASE s \in {"connect", "done"}
        BY <2>1, <4>1, IdleIs DEF Quiet
      <4>2. CASE s \notin {"connect", "done"}
        BY <2>1, <2>3, <4>2, SinkIs
      <4> QED BY <4>1, <4>2
    <3>3. ExactFor(r, e, v)
      <4>1. CASE e.sink = <<>>
        BY <1>2, <3>1, <4>1, NothingExact
      <4>2. CASE e.sink # <<>>
        <5>1. PICK a \in Replies : \E m \in 0..a.n : v = AnswerTo(r, a) /\ e.sink = Piece(r, 0, m)
          BY <3>2, <4>2
        <5>2. PICK m \in 0..a.n : v = AnswerTo(r, a) /\ e.sink = Piece(r, 0, m)
          BY <5>1
        <5> QED BY <3>1, <5>2, PartExact
      <4> QED BY <4>1, <4>2
    <3> QED BY <1>1, <2>3, <3>3
  <2> QED BY <2>2, <2>3
<1> QED BY <1>3, <1>4

(* Each body arrives in the sink of its own request, whole if the request  *)
(* ends well, as long as each connection is handed on once; and files      *)
(* arrive at the server (request_2 and its decoders, http_co.lua:226-470;  *)
(* ftp_co.lua:248-281).  NULL is neither a number, a word nor a record     *)
(* with one of these fields.                                               *)
THEOREM Transfers_Exact ==
  ASSUME NULL # "chunked", NULL \notin Nat, "body" \notin DOMAIN NULL,
         NULL # "sent", "open" \notin DOMAIN NULL, \A p \in Put : NULL \notin Seq(Units(p)),
         \A n \in FileSize : Sendable(n)
  PROVE  Spec /\ [][TakesOnce]_vars => []TransfersExact
<1>1. Init => NInv /\ RInv /\ AnswersShaped
  BY NInvInit, RInvInit, AnswersInit
<1>2. (NInv /\ RInv /\ AnswersShaped) /\ [Next]_vars /\ [TakesOnce]_vars
      => (NInv /\ RInv /\ AnswersShaped)'
  BY NInvKeeps, RInvKeeps, AnswersKeep
<1>3. NInv /\ RInv /\ AnswersShaped => SinkExact
  <2>1. ASSUME RInv, AnswersShaped, NEW r \in Req
        PROVE  ExactFor(r, arg[r], answer[r])
    BY <2>1, RightExact
  <2> QED BY <2>1 DEF SinkExact, ExactFor
<1>4. Spec => []UploadExact
  BY Uploads_Exact
<1>5. SinkExact /\ UploadExact => TransfersExact
  BY DEF TransfersExact
<1> QED BY <1>1, <1>2, <1>3, <1>4, <1>5, PTL DEF Spec

(* A request that ends well leaves nothing on its connection, whatever it  *)
(* has to do with the next one (http_co.lua:286).                          *)
THEOREM Buffers_Drained ==
  ASSUME NULL # "chunked", NULL \notin Nat, "body" \notin DOMAIN NULL,
         "open" \notin DOMAIN NULL
  PROVE  Spec /\ [][TakesOnce]_vars => []BufferDrained
<1>1. Init => NInv /\ RInv /\ AnswersShaped
  BY NInvInit, RInvInit, AnswersInit
<1>2. (NInv /\ RInv /\ AnswersShaped) /\ [Next]_vars /\ [TakesOnce]_vars
      => (NInv /\ RInv /\ AnswersShaped)'
  BY NInvKeeps, RInvKeeps, AnswersKeep
<1>3. NInv /\ RInv /\ AnswersShaped => BufferDrained
  <2>1. ASSUME RInv, AnswersShaped, NEW r \in Req,
               pc[r] = "cleanup" /\ arg[r].rc = "http ok" /\ arg[r].channel # NULL
        PROVE  Silent(Chan(r))
    BY <2>1, RightExact
  <2> QED BY <2>1 DEF BufferDrained, Silent
<1> QED BY <1>1, <1>2, <1>3, PTL DEF Spec
-----------------------------------------------------------------------------
(***************************************************************************)
(* Replies.  A reply is a sequence of lines, put one behind the other.     *)
(***************************************************************************)
LEMMA LeastIs ==
  ASSUME NEW T, T \subseteq Nat, T # {}
  PROVE  \E x \in T : \A y \in T : x <= y
<1>1. PICK R : R = OpToRel(<, Nat)
  OBVIOUS
<1>2. IsWellFoundedOn(R, Nat)
  BY <1>1, NatLessThanWellFounded
<1>3. PICK x \in T : \A y \in T : <<y, x>> \notin R
  BY <1>2, WFMin
<1>4. \A y \in Nat, z \in Nat : y < z => <<y, z>> \in R
  BY <1>1 DEF OpToRel
<1>5. ASSUME NEW y \in T
      PROVE  x <= y
  <2>1. x \in Nat /\ y \in Nat
    OBVIOUS
  <2>2. ~(y < x)
    BY <1>3, <1>4, <2>1
  <2> QED BY <2>1, <2>2
<1> QED BY <1>5

(* Induction, for a set that is given.                                     *)
LEMMA AllNumbers ==
  ASSUME NEW S, 0 \in S, \A n \in Nat : n \in S => n + 1 \in S
  PROVE  \A n \in Nat : n \in S
<1> SUFFICES ASSUME Nat \ S # {}
             PROVE  FALSE
  OBVIOUS
<1>1. PICK x \in Nat \ S : \A y \in Nat \ S : x <= y
  BY LeastIs
<1>2. x # 0
  OBVIOUS
<1>3. x - 1 \in Nat /\ (x - 1) + 1 = x /\ ~(x <= x - 1)
  BY <1>2
<1>4. x - 1 \in S
  BY <1>1, <1>3
<1> QED BY <1>3, <1>4

(* FlattenSeq is what F, which begins with the first and adds one after    *)
(* the other, says of the last.                                            *)
Adds(q, n, F) == F = [i \in 1..n |-> IF i = 1 THEN q[i] ELSE F[i - 1] \o q[i]]

LEMMA FlattenIs ==
  ASSUME NEW q, NEW n \in Nat \ {0}, n = Len(q), NEW F, Adds(q, n, F)
  PROVE  FlattenSeq(q) = F[n]
<1>1. PICK f : f = CHOOSE g : g = [i \in 1..n |-> IF i = 1 THEN q[i] ELSE g[i - 1] \o q[i]]
  OBVIOUS
<1>2. f = [i \in 1..n |-> IF i = 1 THEN q[i] ELSE f[i - 1] \o q[i]]
  BY <1>1 DEF Adds
<1>3. Len(q) # 0
  OBVIOUS
<1>4. FlattenSeq(q) = f[n]
  BY <1>1, <1>3 DEF FlattenSeq
<1>5. PICK S : S = {i \in Nat : i \in 1..n => f[i] = F[i]}
  OBVIOUS
<1>6. 0 \in S
  BY <1>5
<1>7. ASSUME NEW i \in Nat, i \in S
      PROVE  i + 1 \in S
  <2>1. i + 1 \in Nat /\ (i + 1) - 1 = i
    OBVIOUS
  <2>2. ASSUME i + 1 \in 1..n
        PROVE  f[i + 1] = F[i + 1]
    <3>1. /\ f[i + 1] = IF i + 1 = 1 THEN q[i + 1] ELSE f[(i + 1) - 1] \o q[i + 1]
          /\ F[i + 1] = IF i + 1 = 1 THEN q[i + 1] ELSE F[(i + 1) - 1] \o q[i + 1]
      BY <1>2, <2>2 DEF Adds
    <3>2. i + 1 # 1 => f[i] = F[i]
      <4>1. i + 1 # 1 => i \in 1..n
        BY <2>2
      <4> QED BY <1>5, <1>7, <4>1
    <3> QED BY <2>1, <3>1, <3>2
  <2> QED BY <1>5, <2>1, <2>2
<1>8. \A i \in Nat : i \in S
  BY <1>6, <1>7, AllNumbers
<1>9. n \in S /\ n \in 1..n
  BY <1>8
<1> QED BY <1>4, <1>5, <1>9

(* Where the parts of line i are. *)
LEMMA Halves ==
  ASSUME NEW i \in Nat, NEW j \in Nat
  PROVE  /\ 2 * i - 1 # 2 * j
         /\ 2 * i - 1 = 2 * j - 1 => i = j
         /\ 2 * i = 2 * j => i = j
         /\ 2 * i \in Nat
OBVIOUS

(* Lines of a and the end of a line b, as one sequence.                    *)
Lined(n, a, b) ==
  [m \in 1..(2 * n) |-> IF \E j \in 1..n : m = 2 * j - 1
                        THEN a[CHOOSE j \in 1..n : m = 2 * j - 1] ELSE b]

LEMMA LinedIs ==
  ASSUME NEW n \in Nat, NEW a, NEW b
  PROVE  /\ DOMAIN Lined(n, a, b) = 1..(2 * n)
         /\ \A i \in 1..n : Lined(n, a, b)[2 * i - 1] = a[i] /\ Lined(n, a, b)[2 * i] = b
<1>1. PICK G : G = Lined(n, a, b)
  OBVIOUS
<1>2. DOMAIN G = 1..(2 * n)
  BY <1>1 DEF Lined
<1>3. ASSUME NEW i \in 1..n
      PROVE  G[2 * i - 1] = a[i] /\ G[2 * i] = b
  <2>1. i \in Nat /\ 2 * i - 1 \in 1..(2 * n) /\ 2 * i \in 1..(2 * n)
    OBVIOUS
  <2>2. PICK u, v : u = 2 * i - 1 /\ v = 2 * i
    OBVIOUS
  <2>3. \A j \in 1..n : u = 2 * j - 1 => j = i
    BY <2>2
  <2>4. ~ \E j \in 1..n : v = 2 * j - 1
    BY <2>2, Halves
  <2>5. PICK k : k = CHOOSE j \in 1..n : u = 2 * j - 1
    OBVIOUS
  <2>6. \E j \in 1..n : u = 2 * j - 1
    BY <2>2
  <2>7. k \in 1..n /\ u = 2 * k - 1
    BY <2>5, <2>6
  <2>8. k = i
    BY <2>3, <2>7
  <2>9. u \in 1..(2 * n) /\ v \in 1..(2 * n)
    BY <2>1, <2>2
  <2>10. G[u] = a[k]
    BY <1>1, <2>5, <2>6, <2>9 DEF Lined
  <2>11. G[v] = b
    BY <1>1, <2>4, <2>9 DEF Lined
  <2> QED BY <2>2, <2>8, <2>10, <2>11
<1> QED BY <1>1, <1>2, <1>3

LEMMA PlaceIs ==
  ASSUME NEW n \in Nat, NEW m \in 1..(2 * n)
  PROVE  \E j \in 1..n : m = 2 * j - 1 \/ m = 2 * j
<1>1. PICK S : S = {k \in Nat : \A l \in 1..(2 * k) : \E j \in 1..k : l = 2 * j - 1 \/ l = 2 * j}
  OBVIOUS
<1>2. 0 \in S
  BY <1>1
<1>3. ASSUME NEW k \in Nat, k \in S
      PROVE  k + 1 \in S
  <2>1. ASSUME NEW l \in 1..(2 * (k + 1))
        PROVE  \E j \in 1..(k + 1) : l = 2 * j - 1 \/ l = 2 * j
    <3>1. CASE l \in 1..(2 * k)
      <4>1. PICK j \in 1..k : l = 2 * j - 1 \/ l = 2 * j
        BY <1>1, <1>3, <3>1
      <4>2. j \in 1..(k + 1)
        OBVIOUS
      <4> QED BY <4>1, <4>2
    <3>2. CASE l \notin 1..(2 * k)
      <4>1. l = 2 * (k + 1) - 1 \/ l = 2 * (k + 1)
        BY <3>2
      <4>2. k + 1 \in 1..(k + 1)
        OBVIOUS
      <4> QED BY <4>1, <4>2
    <3> QED BY <3>1, <3>2
  <2> QED BY <1>1, <2>1
<1>4. \A k \in Nat : k \in S
  BY <1>2, <1>3, AllNumbers
<1> QED BY <1>1, <1>4

OneMore(n, k) == k = n + 1
AllIn(n, a, W) == \A i \in 1..n : a[i] \in W
Grows(n, k, a, b) == Lined(k, a, b) = Lined(n, a, b) \o <<a[k], b>>

LEMMA LinedSeq ==
  ASSUME NEW W, NEW n \in Nat, NEW a, AllIn(n, a, W), NEW b \in W
  PROVE  /\ Lined(n, a, b) \in Seq(W) /\ Len(Lined(n, a, b)) = 2 * n
         /\ \A m \in 1..(2 * n) : \/ Lined(n, a, b)[m] = b
                                  \/ \E i \in 1..n : Lined(n, a, b)[m] = a[i]
<1>1. PICK G : G = Lined(n, a, b)
  OBVIOUS
<1>2. DOMAIN G = 1..(2 * n) /\ \A i \in 1..n : G[2 * i - 1] = a[i] /\ G[2 * i] = b
  <2>1. DOMAIN Lined(n, a, b) = 1..(2 * n)
    BY LinedIs
  <2>2. \A i \in 1..n : Lined(n, a, b)[2 * i - 1] = a[i] /\ Lined(n, a, b)[2 * i] = b
    BY LinedIs
  <2> QED BY <1>1, <2>1, <2>2, Zenon
<1>3. ASSUME NEW m \in 1..(2 * n)
      PROVE  G[m] = b \/ \E i \in 1..n : G[m] = a[i]
  <2>1. PICK j \in 1..n : m = 2 * j - 1 \/ m = 2 * j
    BY PlaceIs
  <2> QED BY <1>2, <2>1
<1>4. G = [m \in 1..(2 * n) |-> G[m]]
  BY <1>1 DEF Lined
<1>5. PICK N \in Nat : N = 2 * n
  OBVIOUS
<1>6. \A m \in 1..N : G[m] \in W
  BY <1>3, <1>5 DEF AllIn
<1>7. G \in [1..N -> W]
  BY <1>4, <1>5, <1>6
<1>8. G \in Seq(W) /\ Len(G) = N
  BY <1>7
<1> QED BY <1>1, <1>3, <1>5, <1>8

LEMMA LinedLonger ==
  ASSUME NEW W, NEW n \in Nat, NEW a, NEW k \in Nat, OneMore(n, k), AllIn(k, a, W), NEW b \in W
  PROVE  Grows(n, k, a, b)
<1>1. PICK G, H, t : G = Lined(n, a, b) /\ H = Lined(k, a, b) /\ t = <<a[k], b>>
  OBVIOUS
<1>2. k = n + 1 /\ \E l \in Nat : l = 2 * n
  BY DEF OneMore
<1>7. PICK l \in Nat : l = 2 * n
  BY <1>2
<1>3. /\ G \in Seq(W) /\ Len(G) = 2 * n
      /\ \A i \in 1..n : G[2 * i - 1] = a[i] /\ G[2 * i] = b
  <2>1. AllIn(n, a, W)
    <3>1. \A i \in 1..n : i \in 1..k
      BY <1>2
    <3> QED BY <3>1 DEF AllIn
  <2>2. Lined(n, a, b) \in Seq(W) /\ Len(Lined(n, a, b)) = 2 * n
    BY <2>1, LinedSeq
  <2>3. \A i \in 1..n : Lined(n, a, b)[2 * i - 1] = a[i] /\ Lined(n, a, b)[2 * i] = b
    BY LinedIs
  <2> QED BY <1>1, <2>2, <2>3
<1>4. /\ H \in Seq(W) /\ Len(H) = 2 * k
      /\ \A i \in 1..k : H[2 * i - 1] = a[i] /\ H[2 * i] = b
  <2>1. Lined(k, a, b) \in Seq(W) /\ Len(Lined(k, a, b)) = 2 * k
    BY LinedSeq
  <2>2. \A i \in 1..k : Lined(k, a, b)[2 * i - 1] = a[i] /\ Lined(k, a, b)[2 * i] = b
    BY LinedIs
  <2> QED BY <1>1, <2>1, <2>2
<1>5. /\ t \in Seq(W) /\ Len(t) = 2 /\ t[1] = a[k] /\ t[2] = b
  <2>1. k \in 1..k
    BY <1>2
  <2>2. a[k] \in W
    BY <2>1 DEF AllIn
  <2> QED BY <1>1, <2>2
<1>6. PICK u : u = G \o t
  OBVIOUS
<1>8. /\ u \in Seq(W) /\ Len(u) = l + 2
      /\ \A m \in 1..(l + 2) : u[m] = IF m <= l THEN G[m] ELSE t[m - l]
  <2>1. /\ u \in Seq(W) /\ Len(u) = Len(G) + Len(t)
        /\ \A m \in 1..(Len(G) + Len(t)) : u[m] = IF m <= Len(G) THEN G[m] ELSE t[m - Len(G)]
    BY <1>3, <1>5, <1>6, ConcatProperties
  <2> QED BY <1>2, <1>7, <1>3, <1>5, <2>1
<1>9. Len(H) = l + 2
  BY <1>2, <1>7, <1>4, <1>2, <1>7
<1>10. ASSUME NEW m \in 1..(l + 2)
       PROVE  H[m] = u[m]
  <2>1. l + 2 = 2 * k
    BY <1>2, <1>7, <1>2, <1>7
  <2>2. PICK j \in 1..k : m = 2 * j - 1 \/ m = 2 * j
    BY <2>1, PlaceIs
  <2>3. CASE j \in 1..n
    <3>1. m <= l
      BY <1>2, <1>7, <2>2, <2>3
    <3>2. H[m] = G[m]
      BY <1>3, <1>4, <2>2, <2>3
    <3> QED BY <1>8, <3>1, <3>2
  <2>4. CASE j \notin 1..n
    <3>1. j = k
      BY <1>2, <1>7, <2>4
    <3>2. (m = 2 * j - 1 => m - l = 1) /\ (m = 2 * j => m - l = 2) /\ ~(m <= l)
      BY <1>2, <1>7, <1>2, <1>7, <2>2, <3>1
    <3>3. u[m] = t[m - l]
      BY <1>8, <3>2
    <3>4. /\ m = 2 * j - 1 => H[m] = a[k] /\ u[m] = a[k]
          /\ m = 2 * j => H[m] = b /\ u[m] = b
      BY <1>2, <1>7, <1>4, <1>5, <3>1, <3>2, <3>3
    <3> QED BY <2>2, <3>4
  <2> QED BY <2>3, <2>4
<1>11. H = u
  BY <1>4, <1>8, <1>9, <1>10, SeqEqual
<1> QED BY <1>1, <1>6, <1>11 DEF Grows

LEMMA FlattenLined ==
  ASSUME NEW W, NEW n \in Nat \ {0}, NEW a, AllIn(n, a, W), NEW b \in W
  PROVE  FlattenSeq([i \in 1..n |-> <<a[i], b>>]) = Lined(n, a, b)
<1>1. PICK q, F : q = [i \in 1..n |-> <<a[i], b>>] /\ F = [i \in 1..n |-> Lined(i, a, b)]
  OBVIOUS
<1>2. Len(q) = n
  BY <1>1
<1>3. ASSUME NEW i \in 1..n
      PROVE  F[i] = IF i = 1 THEN q[i] ELSE F[i - 1] \o q[i]
  <2>1. F[i] = Lined(i, a, b) /\ q[i] = <<a[i], b>>
    BY <1>1
  <2>2. PICK k \in Nat : k = i - 1
    OBVIOUS
  <2>3. i \in Nat /\ i = k + 1 /\ AllIn(i, a, W) /\ AllIn(k, a, W)
    BY <2>2 DEF AllIn
  <2>4. Lined(i, a, b) = Lined(k, a, b) \o <<a[i], b>>
    <3>1. OneMore(k, i)
      BY <2>3 DEF OneMore
    <3>2. i \in Nat /\ k \in Nat /\ AllIn(i, a, W)
      BY <2>2, <2>3
    <3>3. Grows(k, i, a, b)
      BY <3>1, <3>2, LinedLonger
    <3> QED BY <3>3 DEF Grows
  <2>5. CASE i = 1
    <3>1. k = 0
      BY <2>2, <2>5
    <3>2. Lined(k, a, b) = <<>>
      <4>1. Lined(k, a, b) \in Seq(W) /\ Len(Lined(k, a, b)) = 2 * k
        BY <2>3, LinedSeq
      <4> QED BY <3>1, <4>1, EmptySeq
    <3>3. <<a[i], b>> \in Seq(W)
      BY <2>3 DEF AllIn
    <3>4. Lined(i, a, b) = <<a[i], b>>
      BY <2>4, <3>2, <3>3, ConcatEmptySeq
    <3> QED BY <2>1, <2>3, <2>5, <3>4
  <2>6. CASE i # 1
    <3>1. k \in 1..n
      BY <2>2, <2>6
    <3>2. F[k] = Lined(k, a, b)
      BY <1>1, <3>1
    <3> QED BY <2>1, <2>2, <2>3, <2>4, <2>6, <3>2
  <2> QED BY <2>5, <2>6
<1>4. Adds(q, n, F)
  <2>1. PICK f : f = [i \in 1..n |-> IF i = 1 THEN q[i] ELSE F[i - 1] \o q[i]]
    OBVIOUS
  <2>2. DOMAIN F = 1..n /\ DOMAIN f = 1..n
    BY <1>1, <2>1
  <2>3. \A i \in 1..n : F[i] = f[i]
    BY <1>3, <2>1
  <2>4. F = [i \in 1..n |-> F[i]] /\ f = [i \in 1..n |-> f[i]]
    BY <1>1, <2>1
  <2>5. F = f
    BY <2>3, <2>4
  <2> QED BY <2>1, <2>5 DEF Adds
<1>5. FlattenSeq(q) = F[n]
  BY <1>2, <1>4, FlattenIs
<1>6. n \in 1..n
  OBVIOUS
<1> QED BY <1>1, <1>5, <1>6

(* The lines of a reply to cmd, as units.                                  *)
ReplyUnit(p, cmd, line) == Unit("reply", p, <<cmd>> \o line)

LEMMA ReplyUnitIs ==
  ASSUME NEW p \in Put, NEW cmd \in Keys, NEW line \in ReplyLine
  PROVE  /\ ReplyUnit(p, cmd, line) \in Words /\ ~IsNL(ReplyUnit(p, cmd, line))
         /\ ReplyUnit(p, cmd, line)[1] = "reply"
         /\ ReplyUnit(p, cmd, line)[3] = <<cmd>> \o line
         /\ (<<cmd>> \o line)[1] = cmd /\ (<<cmd>> \o line)[2] = line[1]
         /\ (<<cmd>> \o line)[3] = line[2]
         /\ line = <<line[1], line[2]>> /\ line[1] \in Nat
<1>1. PICK w : w = <<cmd>> \o line
  OBVIOUS
<1>2. PICK S : S = {"-", " ", ""}
  OBVIOUS
<1>3. PICK x, y : x \in Nat /\ line = <<x, y>>
  <2>1. line \in Nat \X S
    BY <1>2 DEF ReplyLine
  <2> QED BY <2>1
<1>4. w = <<cmd, x, y>>
  <2>1. PICK W : W = {cmd, x, y}
    OBVIOUS
  <2>2. <<cmd>> \in Seq(W) /\ <<x, y>> \in Seq(W)
    BY <2>1
  <2>3. PICK s \in Seq(W), u \in Seq(W) : s = <<cmd>> /\ u = <<x, y>>
    BY <2>2
  <2>4. /\ s \o u \in Seq(W) /\ Len(s \o u) = Len(s) + Len(u)
        /\ \A i \in 1..(Len(s) + Len(u)) :
             (s \o u)[i] = IF i <= Len(s) THEN s[i] ELSE u[i - Len(s)]
    BY <2>3, ConcatProperties
  <2>5. w = s \o u
    BY <1>1, <1>3, <2>3
  <2>6. Len(s) = 1 /\ Len(u) = 2 /\ Len(w) = 3 /\ w \in Seq(W)
    BY <2>3, <2>4, <2>5
  <2>7. w[1] = cmd /\ w[2] = x /\ w[3] = y
    BY <2>3, <2>4, <2>5, <2>6
  <2> QED BY <2>6, <2>7
<1>5. line[1] = x /\ line[2] = y
  BY <1>3
<1>6. PICK u : u = Unit("reply", p, w)
  OBVIOUS
<1>7. u = ReplyUnit(p, cmd, line)
  BY <1>1, <1>6 DEF ReplyUnit
<1>8. u \in Words /\ ~IsNL(u) /\ u[1] = "reply" /\ u[3] = w
  <2>1. line \in Nat \X S
    BY <1>2 DEF ReplyLine
  <2>2. x \in Nat /\ y \in S
    BY <1>3, <2>1
  <2>3. w \in Said
    BY <1>2, <1>4, <2>2 DEF Said
  <2> QED BY <1>6, <2>3 DEF Unit, Words, IsNL
<1> QED BY <1>1, <1>3, <1>4, <1>5, <1>7, <1>8

(* What ReplyLines makes of them. *)
UnitOf(u, p, cmd, lines) ==
  u = NL(p) \/ \E i \in 1..Len(lines) : u = ReplyUnit(p, cmd, lines[i])

HasLines(n, lines) == lines \in Seq(ReplyLine) /\ n = Len(lines)

LEMMA RepliesAre ==
  ASSUME NEW p \in Put, NEW cmd \in Keys, NEW n \in Nat \ {0},
         NEW lines, HasLines(n, lines)
  PROVE  /\ ReplyLines(p, cmd, lines) \in Seq(Words)
         /\ Len(ReplyLines(p, cmd, lines)) = 2 * n
         /\ \A i \in 1..n : /\ ReplyLines(p, cmd, lines)[2 * i - 1] = ReplyUnit(p, cmd, lines[i])
                            /\ ReplyLines(p, cmd, lines)[2 * i] = NL(p)
         /\ \A m \in 1..(2 * n) : UnitOf(ReplyLines(p, cmd, lines)[m], p, cmd, lines)
<1>1. PICK a, b : a = [i \in 1..n |-> ReplyUnit(p, cmd, lines[i])] /\ b = NL(p)
  OBVIOUS
<1>2. \A i \in 1..n : a[i] = ReplyUnit(p, cmd, lines[i]) /\ lines[i] \in ReplyLine
  BY <1>1, ElementOfSeq DEF HasLines
<1>3. AllIn(n, a, Words) /\ b \in Words
  BY <1>1, <1>2, ReplyUnitIs, NLIsWord DEF AllIn
<1>4. DOMAIN lines = 1..n
  BY LenProperties DEF HasLines
<1>5. ReplyLines(p, cmd, lines) = FlattenSeq([i \in 1..n |-> <<a[i], b>>])
  BY <1>1, <1>4 DEF ReplyLines, ReplyUnit
<1>6. PICK G : G = Lined(n, a, b)
  OBVIOUS
<1>7. ReplyLines(p, cmd, lines) = G
  BY <1>3, <1>5, <1>6, FlattenLined
<1>8. /\ G \in Seq(Words) /\ Len(G) = 2 * n
      /\ \A m \in 1..(2 * n) : G[m] = b \/ \E i \in 1..n : G[m] = a[i]
  <2>1. n \in Nat /\ AllIn(n, a, Words) /\ b \in Words
    BY <1>3
  <2>2. /\ Lined(n, a, b) \in Seq(Words) /\ Len(Lined(n, a, b)) = 2 * n
        /\ \A m \in 1..(2 * n) : \/ Lined(n, a, b)[m] = b
                                 \/ \E i \in 1..n : Lined(n, a, b)[m] = a[i]
    BY <2>1, LinedSeq
  <2> QED BY <1>6, <2>2
<1>9. \A i \in 1..n : G[2 * i - 1] = a[i] /\ G[2 * i] = b
  <2>1. n \in Nat
    OBVIOUS
  <2> QED BY <1>6, <2>1, LinedIs
<1>10. \A m \in 1..(2 * n) : UnitOf(G[m], p, cmd, lines)
  BY <1>1, <1>2, <1>8 DEF UnitOf, HasLines
<1> QED BY <1>1, <1>2, <1>7, <1>8, <1>9, <1>10

(* What is still to come of them, after i lines.                           *)
From(p, cmd, lines, i) == Rest(ReplyLines(p, cmd, lines), 2 * i)

LEMMA FromIs ==
  ASSUME NEW p \in Put, NEW cmd \in Keys, NEW n \in Nat \ {0},
         NEW lines, HasLines(n, lines), NEW i \in 0..n
  PROVE  /\ From(p, cmd, lines, i) \in Seq(Words)
         /\ Len(From(p, cmd, lines, i)) = 2 * n - 2 * i
         /\ \A m \in 1..Len(From(p, cmd, lines, i)) :
              UnitOf(From(p, cmd, lines, i)[m], p, cmd, lines)
         /\ i < n => /\ From(p, cmd, lines, i)[1] = ReplyUnit(p, cmd, lines[i + 1])
                     /\ From(p, cmd, lines, i)[2] = NL(p)
<1>1. PICK s : s = ReplyLines(p, cmd, lines)
  OBVIOUS
<1>2. /\ s \in Seq(Words) /\ Len(s) = 2 * n
      /\ \A j \in 1..n : s[2 * j - 1] = ReplyUnit(p, cmd, lines[j]) /\ s[2 * j] = NL(p)
      /\ \A m \in 1..(2 * n) : UnitOf(s[m], p, cmd, lines)
  <2>1. /\ ReplyLines(p, cmd, lines) \in Seq(Words)
        /\ Len(ReplyLines(p, cmd, lines)) = 2 * n
        /\ \A j \in 1..n : /\ ReplyLines(p, cmd, lines)[2 * j - 1] = ReplyUnit(p, cmd, lines[j])
                           /\ ReplyLines(p, cmd, lines)[2 * j] = NL(p)
        /\ \A m \in 1..(2 * n) : UnitOf(ReplyLines(p, cmd, lines)[m], p, cmd, lines)
    BY RepliesAre
  <2> QED BY <1>1, <2>1
<1>3. PICK k \in Nat, l \in Nat : k = 2 * i /\ l = 2 * n
  <2>1. i \in Nat /\ n \in Nat
    OBVIOUS
  <2>2. 2 * i \in Nat /\ 2 * n \in Nat
    BY <2>1
  <2> QED BY <2>2
<1>4. k <= l /\ k <= Len(s)
  BY <1>2, <1>3
<1>5. PICK t : t = From(p, cmd, lines, i)
  OBVIOUS
<1>6. t = Rest(s, k)
  BY <1>1, <1>3, <1>5 DEF From
<1>7. t \in Seq(Words) /\ Len(t) = l - k /\ \A m \in 1..(l - k) : t[m] = s[k + m]
  <2>1. /\ Rest(s, k) \in Seq(Words) /\ Len(Rest(s, k)) = Len(s) - k
        /\ \A m \in 1..(Len(s) - k) : Rest(s, k)[m] = s[k + m]
    <3>1. s \in Seq(Words) /\ k \in Nat /\ k <= Len(s)
      BY <1>2, <1>3, <1>4, Zenon
    <3> QED BY <3>1, RestIs, Zenon
  <2> QED BY <1>2, <1>3, <1>6, <2>1
<1>8. ASSUME NEW m \in 1..(l - k)
      PROVE  UnitOf(t[m], p, cmd, lines)
  <2>1. k + m \in 1..l
    BY <1>4
  <2> QED BY <1>2, <1>3, <1>7, <2>1
<1>9. ASSUME i < n
      PROVE  t[1] = ReplyUnit(p, cmd, lines[i + 1]) /\ t[2] = NL(p)
  <2>1. i + 1 \in 1..n /\ 1 \in 1..(l - k) /\ 2 \in 1..(l - k)
    BY <1>3, <1>9
  <2>2. k + 1 = 2 * (i + 1) - 1 /\ k + 2 = 2 * (i + 1)
    BY <1>3
  <2>3. t[1] = s[k + 1] /\ t[2] = s[k + 2]
    BY <1>7, <2>1
  <2> QED BY <1>2, <2>1, <2>2, <2>3
<1> QED BY <1>3, <1>5, <1>7, <1>8, <1>9

Behind(p, cmd, lines, i, j) ==
  From(p, cmd, lines, i) = <<ReplyUnit(p, cmd, lines[j]), NL(p)>> \o From(p, cmd, lines, j)

LEMMA FromNext ==
  ASSUME NEW p \in Put, NEW cmd \in Keys, NEW n \in Nat \ {0},
         NEW lines, HasLines(n, lines), NEW i \in 0..n, NEW j \in 0..n, OneMore(i, j)
  PROVE  Behind(p, cmd, lines, i, j)
<1>1. PICK s, u, t : /\ s = From(p, cmd, lines, i) /\ t = From(p, cmd, lines, j)
                     /\ u = <<ReplyUnit(p, cmd, lines[j]), NL(p)>>
  OBVIOUS
<1>2. j = i + 1 /\ i < n
  BY DEF OneMore
<1>3. s \in Seq(Words) /\ Len(s) = 2 * n - 2 * i /\ s[1] = u[1] /\ s[2] = u[2]
  <2>1. /\ From(p, cmd, lines, i) \in Seq(Words)
        /\ Len(From(p, cmd, lines, i)) = 2 * n - 2 * i
        /\ i < n => /\ From(p, cmd, lines, i)[1] = ReplyUnit(p, cmd, lines[i + 1])
                    /\ From(p, cmd, lines, i)[2] = NL(p)
    BY FromIs
  <2> QED BY <1>1, <1>2, <2>1
<1>4. PICK k \in Nat : k = 2 * i
  OBVIOUS
<1>5. t = Rest(s, 2)
  <2>1. PICK a : a = ReplyLines(p, cmd, lines) /\ a \in Seq(Words) /\ Len(a) = 2 * n
    BY RepliesAre
  <2>2. s = Rest(a, k) /\ t = Rest(a, k + 2)
    <3>1. 2 * j = k + 2
      BY <1>2, <1>4
    <3> QED BY <1>1, <1>4, <2>1, <3>1 DEF From
  <2>3. k <= Len(a) /\ k + 2 <= Len(a) /\ k + 2 \in Nat /\ Len(a) \in Nat
    BY <1>2, <1>4, <2>1, LenProperties
  <2>4. PICK h \in Nat, d \in Nat : h = k + 2 /\ d = 2
    BY <2>3
  <2>5. /\ Len(Rest(a, k)) = Len(a) - k /\ Rest(a, k) \in Seq(Words)
        /\ \A m \in 1..(Len(a) - k) : Rest(a, k)[m] = a[k + m]
    <3>1. a \in Seq(Words) /\ k <= Len(a) /\ k \in Nat
      BY <1>4, <2>1, <2>3
    <3> QED BY <3>1, RestIs
  <2>6. /\ Len(Rest(a, h)) = Len(a) - h /\ Rest(a, h) \in Seq(Words)
        /\ \A m \in 1..(Len(a) - h) : Rest(a, h)[m] = a[h + m]
    <3>1. a \in Seq(Words) /\ h <= Len(a) /\ h \in Nat
      BY <2>1, <2>3, <2>4
    <3> QED BY <3>1, RestIs
  <2>7. d <= Len(s)
    BY <2>2, <2>3, <2>4, <2>5
  <2>8. /\ Len(Rest(s, d)) = Len(s) - d /\ Rest(s, d) \in Seq(Words)
        /\ \A m \in 1..(Len(s) - d) : Rest(s, d)[m] = s[d + m]
    <3>1. s \in Seq(Words) /\ d \in Nat /\ d <= Len(s)
      BY <1>3, <2>4, <2>7, Zenon
    <3> QED BY <3>1, RestIs, Zenon
  <2>9. PICK v : v = Rest(s, d)
    OBVIOUS
  <2>10. Len(v) = Len(t)
    BY <2>2, <2>3, <2>4, <2>5, <2>6, <2>8, <2>9
  <2>11. ASSUME NEW m \in 1..Len(v)
         PROVE  v[m] = t[m]
    <3>1. Len(v) = Len(s) - d /\ Len(v) = Len(a) - h
      BY <2>2, <2>4, <2>6, <2>8, <2>9, <2>10
    <3>2. v[m] = s[d + m] /\ t[m] = a[h + m]
      BY <2>2, <2>4, <2>6, <2>8, <2>9, <3>1
    <3>3. d + m \in 1..(Len(a) - k) /\ k + (d + m) = h + m
      BY <2>3, <2>4, <3>1
    <3>4. s[d + m] = a[k + (d + m)]
      BY <2>2, <2>5, <3>3
    <3> QED BY <3>2, <3>3, <3>4
  <2>12. v = t
    BY <2>2, <2>4, <2>6, <2>8, <2>9, <2>10, <2>11, SeqEqual
  <2> QED BY <2>4, <2>9, <2>12
<1>6. SubSeq(s, 1, 2) = u
  <2>1. PICK d \in Nat : d = 2
    OBVIOUS
  <2>2. d <= Len(s)
    BY <1>2, <1>3, <2>1
  <2>3. PICK v : v = SubSeq(s, 1, d)
    OBVIOUS
  <2>4. v \in Seq(Words) /\ Len(v) = d /\ \A m \in 1..d : v[m] = s[m]
    BY <1>3, <2>2, <2>3, RestIs
  <2>5. v = <<s[1], s[2]>>
    BY <2>1, <2>4
  <2>6. v = u
    BY <1>1, <1>3, <2>5
  <2> QED BY <2>1, <2>3, <2>6
<1>7. s = SubSeq(s, 1, 2) \o Rest(s, 2)
  <2>1. PICK d \in Nat : d = 2
    OBVIOUS
  <2>2. d <= Len(s)
    BY <1>2, <1>3, <2>1
  <2> QED BY <1>3, <2>1, <2>2, SplitIs
<1> QED BY <1>1, <1>5, <1>6, <1>7 DEF Behind

LEMMA FromEnds ==
  ASSUME NEW p \in Put, NEW cmd \in Keys, NEW n \in Nat \ {0},
         NEW lines, HasLines(n, lines)
  PROVE  /\ From(p, cmd, lines, n) = <<>>
         /\ From(p, cmd, lines, 0) = ReplyLines(p, cmd, lines)
<1>1. PICK t, z : t = From(p, cmd, lines, n) /\ z = 2 * n - 2 * n
  OBVIOUS
<1>2. n \in 0..n /\ z = 0
  BY <1>1
<1>3. t \in Seq(Words) /\ Len(t) = z
  BY <1>1, <1>2, FromIs
<1>4. t = <<>>
  BY <1>2, <1>3, EmptySeq
<1>5. PICK a : a = ReplyLines(p, cmd, lines) /\ a \in Seq(Words)
  BY RepliesAre
<1>6. Rest(a, 0) = a
  BY <1>5, SubSeqFull DEF Rest
<1>7. From(p, cmd, lines, 0) = a
  BY <1>5, <1>6 DEF From
<1> QED BY <1>1, <1>4, <1>5, <1>7

-----------------------------------------------------------------------------
(***************************************************************************)
(* Dialogues.  Either nothing is on the way to the client, and what the    *)
(* server has of a command, with what is still to be written, is the whole *)
(* of it; or what is on the way is the rest of a reply.                    *)
(***************************************************************************)
KeyOf(s) == IF s = "ready" THEN "greeting" ELSE s
Live == Dialogue \cup {"data", "send"}

(* i lines are read, of a reply that ends with line n; rc is its code if   *)
(* it began already.  Another one follows only the server's first.         *)
Begun(lines, j, i, n, rc) ==
  j < i /\ IsReply(lines, j, n) /\ lines[j + 1][2] = "-" /\ rc = lines[j + 1][1]
Twofold(lines, n) ==
  IsReply(lines, 0, n) /\ lines[1][1] \div 100 = 1 /\ IsReply(lines, n, Len(lines))
Reading(s, lines, i, n, rc) ==
  /\ i < n /\ n <= Len(lines)
  /\ rc = NULL => IsReply(lines, i, n)
  /\ rc # NULL => \E j \in 0..i : Begun(lines, j, i, n, rc)
  /\ n = Len(lines) \/ (s = "greeting" /\ Twofold(lines, n))

Asks(p, s, o, x) ==
  /\ x.got \in Seq(Words) /\ x.up \in Seq(Words) /\ Len(x.up) <= Window
  /\ x.got \o (x.up \o o) = CommandLine(p, s)
OutOf(s, e) == IF s = "send" THEN <<>> ELSE e.out

Calm(p, s, e, x) ==
  /\ Silent(x) /\ e.code = NULL /\ OutOf(s, e) \in Seq(Words)
  /\ x.fin \/ Asks(p, s, OutOf(s, e), x)

Pending(p, s, e, x) ==
  /\ s \in Dialogue /\ e.out = <<>> /\ x.got = <<>> /\ x.up = <<>>
  /\ \E lines \in Seq(ReplyLine) : \E i \in Nat, n \in Nat :
       Reading(s, lines, i, n, e.code) /\ Ahead(x, From(p, KeyOf(s), lines, i))

InStep(p, s, e, x) ==
  /\ s \in Live \cup {"new", "connect", "leave", "shut", "over"}
  /\ s \in {"new", "connect"} => e.out = <<>> /\ e.code = NULL
  /\ s \in Live => Calm(p, s, e, x) \/ Pending(p, s, e, x)

StepsOK ==
  /\ \A p \in Put : InStep(p, at[p], put[p], conn[put[p].channel])
  /\ \A p, q \in Put : p # q /\ put[p].channel # NULL => put[p].channel # put[q].channel

DInv == FInv /\ (NoRequests => StepsOK)

(* A line is the last of its reply, or not.                                *)
Blank == " "
Closes(rc, code, sep) == IF rc = NULL THEN sep # "-" ELSE code = rc /\ sep = Blank

(* The reply that begins with line k ends with line n, the first such one. *)
EndsWith(lines, k, n) ==
  /\ k < n /\ lines[n] = <<lines[k][1], Blank>>
  /\ \A m \in (k + 1)..(n - 1) : lines[m] # <<lines[k][1], Blank>>

LEMMA IsReplyLast ==
  ASSUME NEW lines, NEW i \in Nat, NEW n \in Nat, IsReply(lines, i, n),
         NEW k \in Nat, OneMore(i, k)
  PROVE  /\ lines[k][2] # "-" => n = k
         /\ lines[k][2] = "-" => EndsWith(lines, k, n)
<1>1. i + 1 = k /\ i + 2 = k + 1
  BY DEF OneMore
<1>2. PICK last : last = <<lines[i + 1][1], Blank>>
  OBVIOUS
<1>3. /\ lines[i + 1][2] # "-" => n = i + 1
      /\ lines[i + 1][2] = "-" =>
           /\ i + 1 < n /\ lines[n] = last
           /\ \A m \in (i + 2)..(n - 1) : lines[m] # last
  BY <1>2, Zenon DEF IsReply, Blank
<1> QED BY <1>1, <1>2, <1>3 DEF EndsWith

LEMMA LineIs ==
  ASSUME NEW line \in ReplyLine
  PROVE  line = <<line[1], line[2]>> /\ line[1] \in Nat
<1>1. PICK S : S = {"-", " ", ""}
  OBVIOUS
<1>2. line \in Nat \X S
  BY <1>1 DEF ReplyLine
<1> QED BY <1>2

(* The line before k was not the last one.                                 *)
LEMMA ReadingOn ==
  ASSUME NULL \notin Nat, NEW s, NEW lines \in Seq(ReplyLine), NEW i \in Nat, NEW n \in Nat,
         NEW rc, Reading(s, lines, i, n, rc), NEW k \in Nat, OneMore(i, k)
  PROVE  /\ k \in 1..Len(lines) /\ n \in 1..Len(lines)
         /\ Closes(rc, lines[k][1], lines[k][2]) => k = n
         /\ ~Closes(rc, lines[k][1], lines[k][2]) =>
              Reading(s, lines, k, n, IF rc = NULL THEN lines[k][1] ELSE rc)
<1>1. k = i + 1 /\ k <= n /\ n <= Len(lines) /\ Len(lines) \in Nat
  BY LenProperties DEF Reading, OneMore
<1>2. PICK code, sep : code = lines[k][1] /\ sep = lines[k][2]
  OBVIOUS
<1>3. /\ lines[k] = <<code, sep>> /\ code \in Nat
  <2>1. lines[k] \in ReplyLine
    BY <1>1, ElementOfSeq
  <2> QED BY <1>2, <2>1, LineIs
<1>4. CASE rc = NULL
  <2>1. IsReply(lines, i, n)
    BY <1>4 DEF Reading
  <2>2. /\ sep # "-" => n = k
        /\ sep = "-" => k < n
    <3>1. lines[k][2] = "-" => EndsWith(lines, k, n)
      BY <2>1, IsReplyLast
    <3>2. lines[k][2] # "-" => n = k
      BY <2>1, IsReplyLast
    <3> QED BY <1>2, <3>1, <3>2 DEF EndsWith
  <2>3. ASSUME sep = "-"
        PROVE  Reading(s, lines, k, n, code)
    <3>1. Begun(lines, i, k, n, code) /\ i \in 0..k
      BY <1>1, <1>2, <2>1, <2>3 DEF Begun
    <3>2. code # NULL
      BY <1>3
    <3> QED BY <1>1, <2>2, <2>3, <3>1, <3>2 DEF Reading
  <2>4. Closes(rc, code, sep) <=> sep # "-"
    BY <1>4 DEF Closes
  <2>5. (IF rc = NULL THEN code ELSE rc) = code
    BY <1>4
  <2> QED BY <1>1, <1>2, <2>2, <2>3, <2>4, <2>5
<1>5. CASE rc # NULL
  <2>1. PICK j \in 0..i : Begun(lines, j, i, n, rc)
    BY <1>5 DEF Reading
  <2>2. PICK l \in Nat : l = j + 1
    OBVIOUS
  <2>3. /\ j \in Nat /\ j < i /\ IsReply(lines, j, n) /\ lines[l][2] = "-"
        /\ rc = lines[l][1] /\ OneMore(j, l) /\ l <= i
    BY <2>1, <2>2 DEF Begun, OneMore
  <2>4. lines[n] = <<rc, Blank>> /\ \A m \in (l + 1)..(n - 1) : lines[m] # <<rc, Blank>>
    <3>1. EndsWith(lines, l, n)
      BY <2>3, IsReplyLast
    <3> QED BY <2>3, <3>1 DEF EndsWith
  <2>5. k \in (l + 1)..n
    BY <1>1, <2>2, <2>3
  <2>6. ASSUME code = rc /\ sep = Blank
        PROVE  k = n
    <3>1. lines[k] = <<rc, Blank>>
      BY <1>3, <2>6
    <3>2. k \notin (l + 1)..(n - 1)
      BY <2>4, <3>1
    <3> QED BY <2>5, <3>2
  <2>7. ASSUME ~(code = rc /\ sep = Blank)
        PROVE  Reading(s, lines, k, n, rc)
    <3>1. k # n
      <4>1. lines[k] # <<rc, Blank>>
        BY <1>3, <2>7
      <4> QED BY <2>4, <4>1
    <3>2. k < n /\ j \in 0..k /\ j < k
      BY <1>1, <2>3, <3>1
    <3>3. Begun(lines, j, k, n, rc)
      BY <2>1, <3>2 DEF Begun
    <3> QED BY <1>1, <1>5, <3>2, <3>3 DEF Reading
  <2>8. Closes(rc, code, sep) <=> code = rc /\ sep = Blank
    BY <1>5 DEF Closes
  <2>9. (IF rc = NULL THEN code ELSE rc) = rc
    BY <1>5
  <2> QED BY <1>1, <1>2, <2>6, <2>7, <2>8, <2>9
<1> QED BY <1>4, <1>5

(* Another reply follows.                                                  *)
LEMMA ReadingNext ==
  ASSUME NEW s, NEW lines \in Seq(ReplyLine), NEW i \in Nat, NEW n \in Nat,
         NEW rc, Reading(s, lines, i, n, rc), n # Len(lines)
  PROVE  /\ s = "greeting" /\ lines[n][1] \div 100 = 1
         /\ Reading("ready", lines, n, Len(lines), NULL)
<1>1. n < Len(lines) /\ Len(lines) \in Nat
  BY LenProperties DEF Reading
<1>2. s = "greeting" /\ Twofold(lines, n)
  BY DEF Reading
<1>3. PICK z \in Nat, u \in Nat : z = 0 /\ u = 1
  OBVIOUS
<1>4. /\ IsReply(lines, z, n) /\ IsReply(lines, n, Len(lines)) /\ OneMore(z, u)
      /\ lines[u][1] \div 100 = 1
  BY <1>2, <1>3 DEF Twofold, OneMore
<1>5. lines[n][1] = lines[u][1]
  <2>1. CASE lines[u][2] # "-"
    <3>1. lines[u][2] # "-" => n = u
      BY <1>4, IsReplyLast
    <3> QED BY <2>1, <3>1
  <2>2. CASE lines[u][2] = "-"
    <3>1. EndsWith(lines, u, n)
      BY <1>4, <2>2, IsReplyLast
    <3> QED BY <3>1 DEF EndsWith
  <2> QED BY <2>1, <2>2
<1>6. Reading("ready", lines, n, Len(lines), NULL)
  BY <1>1, <1>4 DEF Reading
<1> QED BY <1>2, <1>4, <1>5, <1>6

(* What is read of a reply, and what is still to come.                     *)
LEMMA PendingIs ==
  ASSUME NEW p \in Put, NEW s \in Dialogue, NEW lines \in Seq(ReplyLine), NEW i \in Nat,
         NEW n \in Nat, NEW rc, Reading(s, lines, i, n, rc)
  PROVE  /\ KeyOf(s) \in Keys
         /\ \E l \in Nat \ {0} : /\ HasLines(l, lines) /\ i \in 0..l /\ i < n /\ n \in 1..l
                                 /\ i < l
<1>1. KeyOf(s) \in Keys
  BY DEF KeyOf, Keys, Dialogue
<1>2. PICK l \in Nat : l = Len(lines)
  BY LenProperties
<1>3. i < n /\ n <= l
  BY <1>2 DEF Reading
<1>4. l \in Nat \ {0} /\ i \in 0..l /\ n \in 1..l /\ i < l
  BY <1>2, <1>3
<1>5. HasLines(l, lines)
  BY <1>2 DEF HasLines
<1> QED BY <1>1, <1>3, <1>4, <1>5

(* Whatever is on the way is of the reply that is awaited.                 *)
Joined3(x) == x.buf \o x.down \o x.flight
Awaited(s, e, u) == u[1] = "reply" => e.out = <<>> /\ u[3][1] = KeyOf(s)

LEMMA PendingUnits ==
  ASSUME NEW p \in Put, NEW s, NEW e, NEW x, Pending(p, s, e, x)
  PROVE  \A m \in DOMAIN Joined3(x) : Awaited(s, e, Joined3(x)[m])
<1>1. s \in Dialogue /\ e.out = <<>>
  BY DEF Pending
<1>2. PICK lines \in Seq(ReplyLine), i \in Nat, n \in Nat :
        Reading(s, lines, i, n, e.code) /\ Ahead(x, From(p, KeyOf(s), lines, i))
  BY DEF Pending
<1>3. PICK key \in Keys : key = KeyOf(s)
  BY <1>1, <1>2, PendingIs
<1>4. PICK l \in Nat \ {0} : HasLines(l, lines) /\ i \in 0..l
  BY <1>1, <1>2, PendingIs
<1>5. PICK rest : rest = From(p, key, lines, i)
  OBVIOUS
<1>6. \A m \in 1..Len(rest) : UnitOf(rest[m], p, key, lines)
  <2>1. \A m \in 1..Len(From(p, key, lines, i)) :
          UnitOf(From(p, key, lines, i)[m], p, key, lines)
    BY <1>4, FromIs
  <2> QED BY <1>5, <2>1
<1>7. Ahead(x, rest)
  BY <1>2, <1>3, <1>5
<1>8. PICK t \in Seq(Words) : t = Stream(x) /\ Len(t) \in Nat /\ Len(t) <= Len(rest) /\ Len(rest) \in Nat
  BY <1>7, AheadIs
<1>9. Joined3(x) = t
  <2>1. x.buf \in Seq(Words) /\ x.down \in Seq(Words) /\ x.flight \in Seq(Words)
    BY <1>7, AheadIs
  <2>2. JoinsThree(x.buf, x.down, x.flight)
    BY <2>1, JoinThree
  <2> QED BY <1>8, <2>2 DEF JoinsThree, Joined3, Stream
<1>10. DOMAIN t = 1..Len(t) /\ \A m \in 1..Len(t) : t[m] = rest[m]
  <2>1. Agrees(t, rest)
    BY <1>7, <1>8 DEF Ahead
  <2> QED BY <1>8, <2>1, LenProperties DEF Agrees
<1>11. ASSUME NEW m \in 1..Len(t)
       PROVE  Awaited(s, e, t[m])
  <2>1. PICK u : u = t[m]
    OBVIOUS
  <2>2. UnitOf(u, p, key, lines)
    <3>1. m \in 1..Len(rest)
      BY <1>8
    <3> QED BY <1>6, <1>10, <2>1, <3>1
  <2>3. CASE u = NL(p)
    <3>1. u[1] # "reply"
      BY <2>3 DEF NL, Unit
    <3> QED BY <2>1, <3>1 DEF Awaited
  <2>4. CASE \E j \in 1..Len(lines) : u = ReplyUnit(p, key, lines[j])
    <3>1. PICK j \in 1..Len(lines) : u = ReplyUnit(p, key, lines[j])
      BY <2>4
    <3>2. PICK line \in ReplyLine : line = lines[j]
      BY ElementOfSeq
    <3>3. u[3] = <<key>> \o line /\ (<<key>> \o line)[1] = key
      BY <3>1, <3>2, ReplyUnitIs
    <3> QED BY <1>1, <1>3, <2>1, <3>3 DEF Awaited
  <2> QED BY <2>2, <2>3, <2>4 DEF UnitOf
<1> QED BY <1>9, <1>10, <1>11

LEMMA CalmUnits ==
  ASSUME NEW p, NEW s, NEW e, NEW x, Calm(p, s, e, x)
  PROVE  \A m \in DOMAIN Joined3(x) : Awaited(s, e, Joined3(x)[m])
<1>1. x.buf = <<>> /\ x.down = <<>> /\ x.flight = <<>>
  BY DEF Calm, Silent
<1>2. Joined3(x) = <<>>
  BY <1>1 DEF Joined3
<1> QED BY <1>2

LEMMA StepsInStep ==
  ASSUME FInv, NoRequests => StepsOK
  PROVE  RepliesInStep
<1> SUFFICES ASSUME NEW p \in Put, put[p].channel # NULL,
                    at[p] \notin {"leave", "shut", "over"}
             PROVE  \A m \in DOMAIN Joined3(conn[put[p].channel]) :
                      Awaited(at[p], put[p], Joined3(conn[put[p].channel])[m])
  BY Zenon DEF RepliesInStep, Joined3, Awaited, KeyOf
<1>1. NoRequests
  BY PutFields DEF FInv
<1>2. UInv /\ StepsOK
  BY <1>1 DEF FInv
<1>3. at[p] \in Live
  <2>1. Stage(put[p], at[p])
    BY <1>2, PutHas
  <2>2. at[p] \in Live \cup {"new", "connect"}
    BY <1>2 DEF StepsOK, InStep
  <2>3. at[p] # "new" /\ at[p] # "connect"
    BY <2>1, PutFields DEF Stage
  <2> QED BY <2>2, <2>3
<1>4. \/ Calm(p, at[p], put[p], conn[put[p].channel])
      \/ Pending(p, at[p], put[p], conn[put[p].channel])
  BY <1>2, <1>3 DEF StepsOK, InStep
<1> QED BY <1>4, CalmUnits, PendingUnits

-----------------------------------------------------------------------------
(* A step of one upload, on a connection of its own.                       *)
AsideOf(c) == \A d \in Channel \ {c} : conn'[d] = conn[d]

LEMMA OneSteps ==
  ASSUME NULL \notin Channel, UInv, StepsOK, NEW p \in Put, NEW s, NEW e, Moves(p, s, e),
         NEW c, conn' = conn \/ (c \in Channel /\ AsideOf(c)),
         c = put[p].channel \/ c = put[p].data_ioc \/ conn[c] = NULL,
         e.channel = put[p].channel \/ e.channel = NULL
           \/ (e.channel = c /\ c \in Channel /\ conn[c] = NULL),
         InStep(p, s, e, conn'[e.channel])
  PROVE  StepsOK'
<1>1. \A q \in Put : /\ put[q].channel \in Channel \cup {NULL}
                     /\ put[q].channel # NULL => conn[put[q].channel] # NULL
                     /\ put[q].channel # NULL => put[q].channel # put[p].data_ioc
                     /\ Stage(put[q], at[q])
  BY PutHas DEF UInv, Apart
<1>2. \A q \in Put \ {p} : put[q].channel # NULL => put[q].channel # put[p].channel
  BY DEF StepsOK
<1>3. ASSUME NEW q \in Put \ {p}
      PROVE  InStep(q, at[q], put[q], conn'[put[q].channel])
  <2>1. InStep(q, at[q], put[q], conn[put[q].channel])
    BY DEF StepsOK
  <2>2. CASE put[q].channel = NULL
    <3>1. at[q] \notin Live
      BY <1>1, <2>2 DEF Stage, Live, Dialogue, Command
    <3> QED BY <2>1, <3>1 DEF InStep
  <2>3. CASE put[q].channel # NULL
    <3>1. PICK d \in Channel : d = put[q].channel
      BY <1>1, <2>3
    <3>2. d # c
      BY <1>1, <1>2, <2>3, <3>1
    <3>3. conn'[d] = conn[d]
      BY <3>2 DEF AsideOf
    <3> QED BY <2>1, <3>1, <3>3
  <2> QED BY <2>2, <2>3
<1>4. \A q \in Put : \/ q # p /\ put'[q] = put[q] /\ at'[q] = at[q]
                     \/ q = p /\ put'[q] = e /\ at'[q] = s
  BY DEF Moves
<1>5. \A q \in Put : InStep(q, at'[q], put'[q], conn'[put'[q].channel])
  <2>1. ASSUME NEW q \in Put
        PROVE  InStep(q, at'[q], put'[q], conn'[put'[q].channel])
    <3>1. CASE q # p
      <4>1. put'[q] = put[q] /\ at'[q] = at[q]
        BY <1>4, <3>1
      <4> QED BY <1>3, <3>1, <4>1
    <3>2. CASE q = p
      <4>1. put'[q] = e /\ at'[q] = s
        BY <1>4, <3>2
      <4> QED BY <3>2, <4>1
    <3> QED BY <3>1, <3>2
  <2> QED BY <2>1
<1>6. \A q \in Put \ {p} : /\ put[q].channel # NULL => put[q].channel # e.channel
                           /\ e.channel # NULL => e.channel # put[q].channel
  BY <1>1, <1>2
<1>7. \A q, r \in Put :
        q # r /\ put'[q].channel # NULL => put'[q].channel # put'[r].channel
  <2>1. \A q, r \in Put :
          q # r /\ put[q].channel # NULL => put[q].channel # put[r].channel
    BY DEF StepsOK
  <2> QED BY <1>4, <1>6, <2>1
<1> QED BY <1>5, <1>7 DEF StepsOK

(* A step of network or server.                                            *)
LEMMA NetSteps ==
  ASSUME NULL \notin Channel, UInv, StepsOK, NEW c \in Channel, AsideOf(c),
         at' = at, put' = put,
         \A p \in Put : put[p].channel = c /\ InStep(p, at[p], put[p], conn[c])
                          => InStep(p, at[p], put[p], conn'[c])
  PROVE  StepsOK'
<1>1. \A q \in Put : /\ put[q].channel \in Channel \cup {NULL}
                     /\ Stage(put[q], at[q])
  BY PutHas
<1>2. ASSUME NEW q \in Put
      PROVE  InStep(q, at[q], put[q], conn'[put[q].channel])
  <2>1. InStep(q, at[q], put[q], conn[put[q].channel])
    BY DEF StepsOK
  <2>2. CASE put[q].channel = NULL
    <3>1. at[q] \notin Live
      BY <1>1, <2>2 DEF Stage, Live, Dialogue, Command
    <3> QED BY <2>1, <3>1 DEF InStep
  <2>3. CASE put[q].channel # NULL
    <3>1. PICK d \in Channel : d = put[q].channel
      BY <1>1, <2>3
    <3>2. CASE d = c
      BY <2>1, <3>1, <3>2
    <3>3. CASE d # c
      <4>1. conn'[d] = conn[d]
        BY <3>3 DEF AsideOf
      <4> QED BY <2>1, <3>1, <4>1
    <3> QED BY <3>2, <3>3
  <2> QED BY <2>2, <2>3
<1> QED BY <1>2 DEF StepsOK

(* What an upload has when it is in the dialogue, or ends.                 *)
LEMMA LiveIs ==
  ASSUME UInv, StepsOK, NEW p \in Put, at[p] \in Live
  PROVE  /\ put[p].channel \in Channel /\ conn[put[p].channel] # NULL
         /\ DOMAIN conn[put[p].channel] = DOMAIN NewConn /\ DOMAIN conn = Channel
         /\ DOMAIN put[p] = DOMAIN NewPut /\ FieldsOK
         /\ \/ Calm(p, at[p], put[p], conn[put[p].channel])
            \/ Pending(p, at[p], put[p], conn[put[p].channel])
<1>1. Stage(put[p], at[p])
  BY PutHas
<1>2. put[p].channel # NULL
  BY <1>1 DEF Stage, Live, Dialogue, Command
<1>3. InStep(p, at[p], put[p], conn[put[p].channel])
  BY DEF StepsOK
<1> QED BY <1>2, <1>3, PutHas DEF InStep, UInv, FieldsOK

LEMMA Ended ==
  ASSUME NEW p, NEW s \in {"leave", "shut", "over"}, NEW e, NEW x
  PROVE  InStep(p, s, e, x)
BY DEF InStep, Live, Dialogue, Command

(* Line k of a reply is read, the rest is still to come.                   *)
LineRead(p, s, e, line, y, lines, n, k) ==
  /\ e.out = <<>> /\ y.got = <<>> /\ y.up = <<>>
  /\ \E i \in Nat : OneMore(i, k) /\ Reading(s, lines, i, n, e.code)
  /\ line = <<KeyOf(s)>> \o lines[k]
  /\ Ahead(y, From(p, KeyOf(s), lines, k))

LEMMA LineSteps ==
  ASSUME NULL \notin Nat, NEW p \in Put, NEW s \in Dialogue, NEW e, NEW c, NEW x, x = conn[c],
         Calm(p, s, e, x) \/ Pending(p, s, e, x), LineEnds(c) # {},
         NEW y, Reread(x, y), y.buf = Rest(x.buf, LineEnd(c)), y.down = x.down
  PROVE  \E lines \in Seq(ReplyLine) : \E n \in 1..Len(lines), k \in 1..Len(lines) :
           LineRead(p, s, e, Line(c)[1][3], y, lines, n, k)
<1>1. ~Calm(p, s, e, x)
  <2>1. ASSUME x.buf = <<>>
        PROVE  LineEnds(c) = {}
    BY <2>1 DEF LineEnds
  <2> QED BY <2>1 DEF Calm, Silent
<1>2. Pending(p, s, e, x)
  BY <1>1
<1>3. e.out = <<>> /\ y.got = <<>> /\ y.up = <<>> /\ y.flight = x.flight
      /\ (Broken(x) => Broken(y))
  BY <1>2, RereadIs DEF Pending
<1>4. PICK lines \in Seq(ReplyLine), i \in Nat, n \in Nat :
        Reading(s, lines, i, n, e.code) /\ Ahead(x, From(p, KeyOf(s), lines, i))
  BY <1>2 DEF Pending
<1>5. PICK key \in Keys : key = KeyOf(s)
  BY <1>4, PendingIs
<1>6. PICK l \in Nat \ {0} : HasLines(l, lines) /\ i \in 0..l /\ n \in 1..l /\ i < l
  BY <1>4, PendingIs
<1>7. PICK k \in 1..l : k = i + 1 /\ k \in 0..l
  BY <1>6
<1>8. OneMore(i, k) /\ l = Len(lines)
  BY <1>6, <1>7 DEF OneMore, HasLines
<1>9. PICK line \in ReplyLine : line = lines[k]
  BY <1>8, ElementOfSeq
<1>10. PICK u \in Words : u = ReplyUnit(p, key, line) /\ ~IsNL(u) /\ u[3] = <<key>> \o line
  <2>1. /\ ReplyUnit(p, key, line) \in Words /\ ~IsNL(ReplyUnit(p, key, line))
        /\ ReplyUnit(p, key, line)[3] = <<key>> \o line
    BY ReplyUnitIs
  <2> QED BY <2>1, Zenon
<1>11. PICK rest \in Seq(Words) : rest = From(p, key, lines, k)
  <2>1. k \in 0..l
    BY <1>7
  <2>2. From(p, key, lines, k) \in Seq(Words)
    BY <1>6, <2>1, FromIs
  <2> QED BY <2>2
<1>12. Ahead(x, <<u, NL(p)>> \o rest)
  <2>1. Behind(p, key, lines, i, k)
    <3>1. k \in 0..l /\ OneMore(i, k) /\ i \in 0..l /\ HasLines(l, lines)
      BY <1>6, <1>7, <1>8
    <3> QED BY <3>1, FromNext
  <2>2. From(p, key, lines, i) = <<u, NL(p)>> \o rest
    BY <1>9, <1>10, <1>11, <2>1 DEF Behind
  <2> QED BY <1>4, <1>5, <2>2
<1>13. Line(c) = <<u>> /\ Ahead(y, rest)
  <2>1. p \in Req \cup Put
    OBVIOUS
  <2>2. y.flight = x.flight
    BY <1>3
  <2>3. Broken(x) => Broken(y)
    BY <1>3
  <2>4. u \in Words /\ ~IsNL(u) /\ rest \in Seq(Words)
    BY <1>10, <1>11
  <2> QED BY <1>12, <2>1, <2>2, <2>3, <2>4, LineOfOne
<1>14. Line(c)[1][3] = <<KeyOf(s)>> \o lines[k]
  BY <1>5, <1>9, <1>10, <1>13
<1>15. n \in 1..Len(lines) /\ k \in 1..Len(lines)
  BY <1>6, <1>8
<1>16. /\ e.out = <<>> /\ y.got = <<>> /\ y.up = <<>>
       /\ \E j \in Nat : OneMore(j, k) /\ Reading(s, lines, j, n, e.code)
       /\ Line(c)[1][3] = <<KeyOf(s)>> \o lines[k]
       /\ Ahead(y, From(p, KeyOf(s), lines, k))
  BY <1>3, <1>4, <1>5, <1>8, <1>11, <1>13, <1>14
<1>17. LineRead(p, s, e, Line(c)[1][3], y, lines, n, k)
  BY <1>16 DEF LineRead
<1> QED BY <1>15, <1>17

-----------------------------------------------------------------------------
(* The steps of the dialogue.                                              *)
LEMMA TurnedAside ==
  ASSUME NEW c \in Channel, NEW y, Turned(c, y)
  PROVE  AsideOf(c) /\ conn'[c] = y
BY DEF Turned, AsideOf

LEMMA CommandLineIs ==
  ASSUME NEW p \in Put, NEW s
  PROVE  /\ CommandLine(p, s) \in Seq(Words)
         /\ s \notin Command => CommandLine(p, s) = <<>>
         /\ s \in Command => /\ CommandLine(p, s) = <<Unit("command", p, s), NL(p)>>
                             /\ Len(CommandLine(p, s)) = 2
<1>1. CASE s \in Command
  <2>1. NL(p) \in Words /\ Unit("command", p, s) \in Words
    BY <1>1, NLIsWord DEF Unit, Words
  <2>2. PICK u \in Words, v \in Words : u = Unit("command", p, s) /\ v = NL(p)
    BY <2>1
  <2>3. CommandLine(p, s) = <<u, v>>
    BY <1>1, <2>2 DEF CommandLine
  <2>4. <<u, v>> \in Seq(Words) /\ Len(<<u, v>>) = 2
    BY <2>2
  <2> QED BY <1>1, <2>2, <2>3, <2>4
<1>2. CASE s \notin Command
  BY <1>2, EmptySeq DEF CommandLine
<1> QED BY <1>1, <1>2

(* After a reply there is the next command, or none.                       *)
LEMMA CalmAgain ==
  ASSUME NEW p \in Put, NEW s, NEW e, NEW y, Silent(y), y.got = <<>>, y.up = <<>>,
         e.code = NULL, e.out = CommandLine(p, s)
  PROVE  Calm(p, s, e, y)
<1>1. OutOf(s, e) = CommandLine(p, s)
  BY CommandLineIs DEF OutOf, Command
<1>2. PICK t \in Seq(Words) : t = CommandLine(p, s)
  BY CommandLineIs
<1>3. <<>> \in Seq(Words) /\ <<>> \o t = t /\ Len(<<>>) = 0
  BY ConcatEmptySeq, EmptySeq
<1>4. 0 <= Window
  BY Nought
<1>5. Len(y.up) <= Window
  BY <1>3, <1>4
<1>6. y.got \o (y.up \o t) = t
  BY <1>3
<1>7. Asks(p, s, t, y)
  BY <1>2, <1>3, <1>5, <1>6 DEF Asks
<1> QED BY <1>1, <1>2, <1>7 DEF Calm

LEMMA EnterMoves ==
  ASSUME FieldsOK, NEW p \in Put, DOMAIN put[p] = DOMAIN NewPut, NEW s, Enter(p, s)
  PROVE  \E e : /\ Moves(p, s, e) /\ e.code = NULL /\ e.out = CommandLine(p, s)
                /\ e.channel = put[p].channel
<1>1. PICK e : e = [put[p] EXCEPT !.code = NULL, !.out = CommandLine(p, s)]
  OBVIOUS
<1>2. /\ e.code = NULL /\ e.out = CommandLine(p, s) /\ e.channel = put[p].channel
  BY <1>1, PutFields
<1>3. put' = [put EXCEPT ![p] = e] /\ Does(p, s)
  BY <1>1 DEF Enter
<1>4. Moves(p, s, e)
  BY <1>3, MovesIs
<1> QED BY <1>2, <1>4

LEMMA EndSteps ==
  ASSUME NULL \notin Channel, UInv, StepsOK, NEW p \in Put, at[p] \in Live,
         NEW s \in {"leave", "shut", "over"}, Enter(p, s),
         NEW c, conn' = conn \/ (c \in Channel /\ AsideOf(c)), c = put[p].channel
  PROVE  StepsOK'
<1>1. FieldsOK /\ DOMAIN put[p] = DOMAIN NewPut
  BY LiveIs
<1>2. PICK e : Moves(p, s, e) /\ e.channel = put[p].channel
  BY <1>1, EnterMoves
<1>3. InStep(p, s, e, conn'[e.channel])
  BY Ended
<1> QED BY <1>2, <1>3, OneSteps

LEMMA WriteCommandSteps ==
  ASSUME NULL \notin Channel, UInv, StepsOK, NEW p \in Put, WriteCommand(p)
  PROVE  StepsOK'
<1>1. at[p] \in Live /\ at[p] \in Command /\ put[p].out # <<>> /\ at' = at
  BY DEF WriteCommand, Puts, Live, Dialogue
<1>2. PICK c \in Channel : c = put[p].channel
  BY <1>1, LiveIs
<1>3. PICK x : x = conn[c]
  OBVIOUS
<1>4. conn[c] # NULL /\ FieldsOK /\ DOMAIN put[p] = DOMAIN NewPut
  BY <1>1, <1>2, LiveIs
<1>5. Calm(p, at[p], put[p], x)
  <2>1. ~Pending(p, at[p], put[p], x)
    BY <1>1 DEF Pending
  <2> QED BY <1>1, <1>2, <1>3, <2>1, LiveIs
<1>6. PICK s, d : s = at[p] /\ d = put[p].out
  OBVIOUS
<1>7. /\ WriteChars(p, c, d) /\ put' = [put EXCEPT ![p].out = Unwritten(c, d)]
  BY <1>2, <1>6 DEF WriteCommand
<1>8. PICK e : e = [put[p] EXCEPT !.out = Unwritten(c, d)]
  OBVIOUS
<1>9. e.out = Unwritten(c, d) /\ e.code = put[p].code /\ e.channel = c
  BY <1>2, <1>4, <1>8, PutFields
<1>10. Moves(p, s, e)
  <2>1. put' = [put EXCEPT ![p] = e]
    BY <1>7, <1>8
  <2> QED BY <1>1, <1>4, <1>6, <2>1, MovesIs
<1>11. /\ s # "send" /\ s \in Live /\ Silent(x) /\ e.code = NULL /\ d \in Seq(Words)
       /\ x.fin \/ Asks(p, s, d, x)
  BY <1>1, <1>5, <1>6, <1>9 DEF Calm, OutOf, Command
<1>12. ASSUME NEW y, Calm(p, s, e, y), conn'[c] = y, conn' = conn \/ AsideOf(c)
       PROVE  StepsOK'
  <2>1. InStep(p, s, e, conn'[e.channel])
    BY <1>9, <1>11, <1>12 DEF InStep, Live, Dialogue, Command
  <2> QED BY <1>2, <1>9, <1>10, <1>12, <2>1, OneSteps
<1>13. CASE x.fin
  <2>1. conn' = conn
    BY <1>3, <1>4, <1>7, <1>13, WriteMoves
  <2>2. PICK n \in Nat : n = Len(d) /\ n <= Len(d)
    BY <1>11, LenProperties
  <2>3. Accepted(c, d) = n
    BY <1>3, <1>13, <2>2 DEF Accepted
  <2>4. e.out = Rest(d, n)
    BY <1>9, <2>3 DEF Unwritten, Rest
  <2>5. e.out \in Seq(Words)
    BY <1>11, <2>2, <2>4, SplitIs
  <2>6. Calm(p, s, e, x)
    BY <1>11, <1>13, <2>5, Zenon DEF Calm, OutOf
  <2> QED BY <1>3, <1>12, <2>1, <2>6
<1>14. CASE ~x.fin
  <2>1. PICK y : /\ Turned(c, y) /\ Rewrote(x, y)
                 /\ y.up = x.up \o SubSeq(d, 1, Accepted(c, d))
    BY <1>3, <1>4, <1>7, <1>14, WriteMoves
  <2>2. (Silent(x) => Silent(y)) /\ y.got = x.got
    BY <2>1, RewroteIs
  <2>3. Asks(p, s, d, x)
    BY <1>11, <1>14
  <2>4. /\ x.got \in Seq(Words) /\ x.up \in Seq(Words) /\ Len(x.up) <= Window
        /\ x.got \o (x.up \o d) = CommandLine(p, s)
    BY <2>3 DEF Asks
  <2>5. PICK j \in Nat : j = Accepted(c, d) /\ j <= Len(d) /\ Len(x.up) + j <= Window
    <3>1. PICK m \in Nat, n \in Nat, w \in Nat :
            m = Len(x.up) /\ n = Len(d) /\ w = Window /\ m <= w
      BY <1>11, <2>4, LenProperties, ChannelsAssumption
    <3>2. Accepted(c, d) = IF w - m < n THEN w - m ELSE n
      BY <1>3, <1>14, <3>1 DEF Accepted
    <3>3. PICK j \in Nat : j = Accepted(c, d) /\ j <= n /\ m + j <= w
      BY <3>1, <3>2
    <3> QED BY <3>1, <3>3
  <2>6. PICK t \in Seq(Words), u \in Seq(Words) :
          /\ t = SubSeq(d, 1, j) /\ u = Rest(d, j) /\ Len(t) = j /\ t \o u = d
    <3>1. /\ SubSeq(d, 1, j) \in Seq(Words) /\ Len(SubSeq(d, 1, j)) = j
          /\ Rest(d, j) \in Seq(Words) /\ SubSeq(d, 1, j) \o Rest(d, j) = d
      BY <1>11, <2>5, SplitIs
    <3> QED BY <3>1, Zenon
  <2>7. e.out = u
    BY <1>9, <2>5, <2>6 DEF Unwritten, Rest
  <2>8. y.up = x.up \o t
    BY <2>1, <2>5, <2>6
  <2>9. y.up \in Seq(Words) /\ Len(y.up) = Len(x.up) + Len(t)
    BY <2>4, <2>6, <2>8, ConcatProperties
  <2>10. Len(y.up) <= Window
    BY <2>5, <2>6, <2>9
  <2>11. y.got \o (y.up \o e.out) = CommandLine(p, s)
    <3>1. JoinsThree(x.up, t, u)
      BY <2>4, <2>6, JoinThree
    <3>2. y.up \o e.out = x.up \o d
      BY <2>6, <2>7, <2>8, <3>1 DEF JoinsThree
    <3> QED BY <2>2, <2>4, <3>2
  <2>12. Asks(p, s, e.out, y)
    BY <2>2, <2>4, <2>9, <2>10, <2>11 DEF Asks
  <2>13. Calm(p, s, e, y)
    BY <1>11, <2>2, <2>6, <2>7, <2>12 DEF Calm, OutOf
  <2>14. AsideOf(c) /\ conn'[c] = y
    BY <2>1, TurnedAside
  <2> QED BY <1>12, <2>13, <2>14
<1> QED BY <1>13, <1>14

LEMMA CommandFailsSteps ==
  ASSUME NULL \notin Channel, UInv, StepsOK, NEW p \in Put, WriteCommandFails(p)
  PROVE  StepsOK'
<1>1. at[p] \in Live /\ at[p] \in Command /\ put[p].out # <<>> /\ conn' = conn
      /\ put' = [put EXCEPT ![p].out = <<>>] /\ conn[put[p].channel].fin
      /\ (at' = at \/ Does(p, LeaveFrom(at[p])))
  BY DEF WriteCommandFails, Puts, Live, Dialogue
<1>2. PICK c \in Channel : c = put[p].channel
  BY <1>1, LiveIs
<1>3. PICK x : x = conn[c]
  OBVIOUS
<1>4. FieldsOK /\ DOMAIN put[p] = DOMAIN NewPut
  BY <1>1, LiveIs
<1>5. Calm(p, at[p], put[p], x)
  <2>1. ~Pending(p, at[p], put[p], x)
    BY <1>1 DEF Pending
  <2> QED BY <1>1, <1>2, <1>3, <2>1, LiveIs
<1>6. PICK e : e = [put[p] EXCEPT !.out = <<>>]
  OBVIOUS
<1>7. e.out = <<>> /\ e.code = put[p].code /\ e.channel = c
  BY <1>2, <1>4, <1>6, PutFields
<1>8. put' = [put EXCEPT ![p] = e]
  BY <1>1, <1>6
<1>9. CASE at' = at
  <2>1. PICK s : s = at[p]
    OBVIOUS
  <2>2. Moves(p, s, e)
    BY <1>4, <1>8, <1>9, <2>1, MovesIs
  <2>3. OutOf(s, e) \in Seq(Words)
    BY <1>7, EmptySeq DEF OutOf
  <2>4. Calm(p, s, e, x)
    BY <1>1, <1>2, <1>3, <1>5, <1>7, <2>3, Zenon DEF Calm
  <2>5. InStep(p, s, e, conn'[e.channel])
    BY <1>1, <1>3, <1>7, <2>1, <2>4 DEF InStep, Live, Dialogue, Command
  <2> QED BY <1>1, <1>2, <1>7, <2>2, <2>5, OneSteps
<1>10. CASE Does(p, LeaveFrom(at[p]))
  <2>1. PICK s \in {"leave", "shut", "over"} : s = LeaveFrom(at[p])
    BY DEF LeaveFrom
  <2>2. Moves(p, s, e)
    BY <1>4, <1>8, <1>10, <2>1, MovesIs
  <2>3. InStep(p, s, e, conn'[e.channel])
    BY <2>1, Ended
  <2> QED BY <1>1, <1>2, <1>7, <2>2, <2>3, OneSteps
<1> QED BY <1>1, <1>9, <1>10

LEMMA LeaveEnds ==
  ASSUME NEW cmd
  PROVE  LeaveFrom(cmd) \in {"leave", "shut", "over"}
BY DEF LeaveFrom

LEMMA LastLineCloses ==
  ASSUME NEW p, NEW code, NEW sep
  PROVE  LastLine(p, code, sep) <=> Closes(put[p].code, code, sep)
BY Zenon DEF LastLine, Closes, Blank

LEMMA GetReplySteps ==
  ASSUME NULL \notin Nat, NULL \notin Channel, UInv, StepsOK, NEW p \in Put, GetReply(p)
  PROVE  StepsOK'
<1>1. at[p] \in Live /\ at[p] \in Dialogue /\ TakeLine(put[p].channel)
  BY DEF GetReply, Awaits, Puts, Live, Dialogue
<1>2. PICK c \in Channel : c = put[p].channel
  BY <1>1, LiveIs
<1>3. PICK x, s, x0 : x = conn[c] /\ s = at[p] /\ x0 = put[p]
  OBVIOUS
<1>4. conn[c] # NULL /\ FieldsOK /\ DOMAIN x0 = DOMAIN NewPut
  BY <1>1, <1>2, <1>3, LiveIs
<1>5. TakeLine(c) /\ LineEnds(c) # {} /\ s \in Dialogue
  BY <1>1, <1>2, <1>3 DEF TakeLine
<1>6. PICK y : /\ Turned(c, y) /\ Reread(x, y)
               /\ y.buf = Rest(x.buf, LineEnd(c)) /\ y.down = x.down
  BY <1>3, <1>4, <1>5, LineMoves
<1>7. Calm(p, s, x0, x) \/ Pending(p, s, x0, x)
  BY <1>1, <1>2, <1>3, LiveIs
<1>7a. PICK lines \in Seq(ReplyLine) :
        \E n \in 1..Len(lines), k \in 1..Len(lines) :
          LineRead(p, s, x0, Line(c)[1][3], y, lines, n, k)
  BY <1>3, <1>5, <1>6, <1>7, LineSteps
<1>7b. PICK n \in 1..Len(lines), k \in 1..Len(lines) :
        LineRead(p, s, x0, Line(c)[1][3], y, lines, n, k)
  BY <1>7a
<1>8. /\ x0.out = <<>> /\ y.got = <<>> /\ y.up = <<>>
      /\ \E i \in Nat : OneMore(i, k) /\ Reading(s, lines, i, n, x0.code)
      /\ Line(c)[1][3] = <<KeyOf(s)>> \o lines[k]
      /\ Ahead(y, From(p, KeyOf(s), lines, k))
  BY <1>7b DEF LineRead
<1>9. PICK i \in Nat : OneMore(i, k) /\ Reading(s, lines, i, n, x0.code)
  BY <1>8
<1>10. PICK code, sep : code = lines[k][1] /\ sep = lines[k][2]
  OBVIOUS
<1>11. n \in Nat /\ k \in Nat /\ Len(lines) \in Nat
  BY LenProperties
<1>12. Line(c)[1][3][2] = code /\ Line(c)[1][3][3] = sep
  <2>1. PICK key \in Keys : key = KeyOf(s)
    BY <1>5, <1>9, <1>11, PendingIs
  <2>2. PICK line \in ReplyLine : line = lines[k]
    BY ElementOfSeq
  <2>3. (<<key>> \o line)[2] = line[1] /\ (<<key>> \o line)[3] = line[2]
    BY ReplyUnitIs
  <2> QED BY <1>8, <1>10, <2>1, <2>2, <2>3
<1>13. /\ Closes(x0.code, code, sep) => k = n
       /\ ~Closes(x0.code, code, sep) =>
            Reading(s, lines, k, n, IF x0.code = NULL THEN code ELSE x0.code)
  <2>1. /\ Closes(x0.code, lines[k][1], lines[k][2]) => k = n
        /\ ~Closes(x0.code, lines[k][1], lines[k][2]) =>
             Reading(s, lines, k, n, IF x0.code = NULL THEN lines[k][1] ELSE x0.code)
    BY <1>9, <1>11, ReadingOn
  <2> QED BY <1>10, <2>1
<1>14. AsideOf(c) /\ conn'[c] = y
  BY <1>6, TurnedAside
<1>15. \/ Enter(p, LeaveFrom(s))
       \/ /\ ~Closes(x0.code, code, sep) /\ UNCHANGED at
          /\ put' = [put EXCEPT ![p].code = IF @ = NULL THEN code ELSE @]
       \/ /\ Closes(x0.code, code, sep) /\ Allowed(s, code)
          /\ Enter(p, After(s, code))
  <2>1. \/ Enter(p, LeaveFrom(s))
        \/ /\ ~LastLine(p, code, sep) /\ UNCHANGED at
           /\ put' = [put EXCEPT ![p].code = IF @ = NULL THEN code ELSE @]
        \/ /\ LastLine(p, code, sep) /\ Allowed(s, code)
           /\ Enter(p, After(s, code))
    BY <1>2, <1>3, <1>12, Zenon DEF GetReply
  <2> QED BY <1>3, <2>1, LastLineCloses
<1>16. CASE Enter(p, LeaveFrom(s))
  <2>1. PICK t \in {"leave", "shut", "over"} : t = LeaveFrom(s)
    BY LeaveEnds
  <2> QED BY <1>1, <1>2, <1>14, <1>16, <2>1, EndSteps
<1>17. CASE /\ ~Closes(x0.code, code, sep) /\ UNCHANGED at
            /\ put' = [put EXCEPT ![p].code = IF @ = NULL THEN code ELSE @]
  <2>1. PICK rc : rc = IF x0.code = NULL THEN code ELSE x0.code
    OBVIOUS
  <2>2. PICK e : e = [x0 EXCEPT !.code = rc]
    OBVIOUS
  <2>3. e.out = <<>> /\ e.code = rc /\ e.channel = c
    BY <1>2, <1>3, <1>4, <1>8, <2>2, PutFields
  <2>4. put' = [put EXCEPT ![p] = e]
    BY <1>3, <1>17, <2>1, <2>2
  <2>5. Moves(p, s, e)
    BY <1>3, <1>4, <1>17, <2>4, MovesIs
  <2>6. Reading(s, lines, k, n, e.code)
    BY <1>13, <1>17, <2>1, <2>3
  <2>7. Pending(p, s, e, y)
    BY <1>5, <1>8, <1>11, <2>3, <2>6 DEF Pending
  <2>8. InStep(p, s, e, conn'[e.channel])
    BY <1>1, <1>3, <1>14, <2>3, <2>7 DEF InStep, Live, Dialogue, Command
  <2> QED BY <1>2, <1>14, <2>3, <2>5, <2>8, OneSteps
<1>18. CASE /\ Closes(x0.code, code, sep) /\ Allowed(s, code)
            /\ Enter(p, After(s, code))
  <2>1. k = n /\ DOMAIN put[p] = DOMAIN NewPut
    BY <1>3, <1>4, <1>13, <1>18
  <2>2. PICK t \in Onward(s) : t = After(s, code) /\ Enter(p, t)
    BY <1>5, <1>18, GoesOnward
  <2>3. PICK e : /\ Moves(p, t, e) /\ e.code = NULL /\ e.out = CommandLine(p, t)
                 /\ e.channel = put[p].channel
    BY <1>4, <2>1, <2>2, EnterMoves
  <2>4. t \in Live \cup {"leave", "shut"} /\ t \notin {"new", "connect"}
    BY <1>5, <2>2 DEF Onward, Live, Dialogue, Command
  <2>5. ASSUME t \in Live => Calm(p, t, e, y) \/ Pending(p, t, e, y)
        PROVE  StepsOK'
    <3>1. InStep(p, t, e, conn'[e.channel])
      BY <1>2, <1>14, <2>3, <2>4, <2>5 DEF InStep
    <3> QED BY <1>2, <1>14, <2>3, <3>1, OneSteps
  <2>6. CASE n = Len(lines)
    <3>1. PICK key \in Keys : key = KeyOf(s)
      BY <1>5, <1>9, <1>11, PendingIs
    <3>2. PICK l \in Nat \ {0} : HasLines(l, lines)
      BY <1>5, <1>9, <1>11, PendingIs
    <3>3. From(p, key, lines, l) = <<>>
      BY <3>2, FromEnds
    <3>4. l = k
      BY <2>1, <2>6, <3>2 DEF HasLines
    <3>5. Ahead(y, <<>>)
      BY <1>8, <3>1, <3>3, <3>4
    <3>6. Silent(y)
      BY <3>5, AheadOfNothing
    <3>7. Calm(p, t, e, y)
      BY <1>8, <2>3, <3>6, CalmAgain
    <3> QED BY <2>5, <3>7
  <2>7. CASE n # Len(lines)
    <3>1. /\ s = "greeting" /\ lines[n][1] \div 100 = 1
          /\ Reading("ready", lines, n, Len(lines), NULL)
      BY <1>9, <1>11, <2>7, ReadingNext
    <3>2. t = "ready"
      BY <1>10, <2>1, <2>2, <3>1 DEF After
    <3>3. e.out = <<>>
      BY <2>3, <3>2 DEF CommandLine, Command
    <3>4. KeyOf(s) = KeyOf("ready") /\ "ready" \in Dialogue
      BY <3>1 DEF KeyOf, Dialogue
    <3>5. Ahead(y, From(p, KeyOf("ready"), lines, n))
      BY <1>8, <2>1, <3>4
    <3>6. Reading("ready", lines, n, Len(lines), e.code)
      BY <2>3, <3>1
    <3>7. Pending(p, "ready", e, y)
      BY <1>8, <1>11, <3>3, <3>4, <3>5, <3>6 DEF Pending
    <3> QED BY <2>5, <3>2, <3>7
  <2> QED BY <2>6, <2>7
<1> QED BY <1>15, <1>16, <1>17, <1>18

LEMMA AwaitReplySteps ==
  ASSUME NULL \notin Channel, UInv, StepsOK, NEW p \in Put, AwaitReply(p)
  PROVE  StepsOK'
<1>1. at[p] \in Live /\ at[p] \in Dialogue
  BY DEF AwaitReply, Awaits, Puts, Live, Dialogue
<1>2. PICK c \in Channel : c = put[p].channel
  BY <1>1, LiveIs
<1>3. PICK x, s, e : x = conn[c] /\ s = at[p] /\ e = put[p]
  OBVIOUS
<1>4. conn[c] # NULL /\ FieldsOK
  BY <1>1, <1>2, LiveIs
<1>5. CASE Enter(p, LeaveFrom(s)) /\ UNCHANGED conn
  <2>1. PICK t \in {"leave", "shut", "over"} : t = LeaveFrom(s)
    BY LeaveEnds
  <2> QED BY <1>1, <1>2, <1>5, <2>1, EndSteps
<1>6. CASE ReadMore(p, c) /\ UNCHANGED putVars
  <2>1. at' = at /\ put' = put
    BY <1>6 DEF putVars
  <2>2. Moves(p, s, e)
    BY <1>3, <1>4, <2>1, MovesIs
  <2>3. e.channel = c /\ InStep(p, s, e, x)
    BY <1>2, <1>3 DEF StepsOK
  <2>4. CASE UNCHANGED conn
    <3>1. InStep(p, s, e, conn'[e.channel])
      BY <1>3, <2>3, <2>4
    <3> QED BY <1>2, <2>2, <2>3, <2>4, <3>1, OneSteps
  <2>5. CASE /\ x.down # <<>>
             /\ \E y : /\ Turned(c, y) /\ Reread(x, y)
                       /\ y.buf = x.buf \o x.down /\ y.down = <<>>
    <3>1. PICK y : /\ Turned(c, y) /\ Reread(x, y)
                   /\ y.buf = x.buf \o x.down /\ y.down = <<>>
      BY <2>5
    <3>2. y.flight = x.flight /\ y.got = x.got /\ y.up = x.up
      BY <3>1, RereadIs
    <3>3. Broken(x) => Broken(y)
      BY <3>1, RereadIs
    <3>4. AsideOf(c) /\ conn'[c] = y
      BY <3>1, TurnedAside
    <3>5. Pending(p, s, e, x)
      <4>1. ~Calm(p, s, e, x)
        BY <2>5 DEF Calm, Silent
      <4> QED BY <1>1, <1>2, <1>3, <4>1, LiveIs
    <3>6. \A rest : Ahead(x, rest) => Ahead(y, rest)
      BY <3>1, <3>2, <3>3, ReadAhead
    <3>7. Pending(p, s, e, y)
      BY <3>2, <3>5, <3>6 DEF Pending
    <3>8. InStep(p, s, e, conn'[e.channel])
      BY <2>3, <3>4, <3>7 DEF InStep
    <3> QED BY <1>2, <2>2, <2>3, <3>4, <3>8, OneSteps
  <2> QED BY <1>3, <1>4, <1>6, <2>4, <2>5, ReadMoves
<1> QED BY <1>2, <1>3, <1>5, <1>6 DEF AwaitReply

(* Of three parts of nothing, none has anything.                           *)
LEMMA NoneAsked ==
  ASSUME NEW p, NEW s, NEW o \in Seq(Words), NEW x, Asks(p, s, o, x), CommandLine(p, s) = <<>>
  PROVE  x.got = <<>> /\ x.up = <<>> /\ o = <<>>
<1>1. PICK g \in Seq(Words), u \in Seq(Words) : g = x.got /\ u = x.up /\ g \o (u \o o) = <<>>
  BY DEF Asks
<1>2. PICK i \in Nat, j \in Nat, k \in Nat : i = Len(g) /\ j = Len(u) /\ k = Len(o)
  BY LenProperties
<1>3. PICK t \in Seq(Words) : t = u \o o /\ Len(t) = j + k
  BY <1>2, ConcatProperties
<1>4. Len(g \o t) = i + (j + k) /\ g \o t = <<>>
  BY <1>1, <1>2, <1>3, ConcatProperties
<1>5. i = 0 /\ j = 0 /\ k = 0
  BY <1>2, <1>4, EmptySeq
<1> QED BY <1>1, <1>2, <1>5, EmptySeq

-----------------------------------------------------------------------------
(* Begin and end of an upload, and the file.                               *)
LEMMA PutCoSteps ==
  ASSUME NULL \notin Channel, UInv, StepsOK, NEW p \in Put, NEW n \in FileSize, PutCo(p, n)
  PROVE  StepsOK'
<1>1. FieldsOK /\ Stage(put[p], "new") /\ put[p] = NewPut
  BY PutHas DEF UInv, PutCo, Stage
<1>2. PICK e : e = [put[p] EXCEPT !.size = n]
  OBVIOUS
<1>3. e.out = put[p].out /\ e.code = put[p].code /\ e.channel = put[p].channel
  BY <1>1, <1>2, PutFields
<1>4. e.out = <<>> /\ e.code = NULL
  BY <1>1, <1>3 DEF NewPut
<1>5. Moves(p, "connect", e) /\ conn' = conn
  BY <1>1, <1>2, MovesIs DEF PutCo
<1>6. InStep(p, "connect", e, conn'[e.channel])
  BY <1>4 DEF InStep, Live, Dialogue, Command
<1>7. PICK c : c = put[p].channel
  OBVIOUS
<1> QED BY <1>3, <1>5, <1>6, <1>7, OneSteps

LEMMA FailsSteps ==
  ASSUME NULL \notin Channel, UInv, StepsOK, NEW p \in Put, Fails(p)
  PROVE  StepsOK'
<1>1. FieldsOK /\ Does(p, "over") /\ conn' = conn /\ put' = [put EXCEPT ![p] = NewPut]
  BY DEF UInv, Fails
<1>2. PICK e : e = NewPut /\ e.channel = NULL
  BY PutFields
<1>3. Moves(p, "over", e)
  BY <1>1, <1>2, MovesIs
<1>4. InStep(p, "over", e, conn'[e.channel])
  BY Ended
<1>5. PICK c : c = put[p].channel
  OBVIOUS
<1> QED BY <1>1, <1>2, <1>3, <1>4, <1>5, OneSteps

LEMMA DiesSteps ==
  ASSUME NULL \notin Channel, UInv, StepsOK, NEW p \in Put, Dies(p)
  PROVE  StepsOK'
<1>1. /\ FieldsOK /\ at[p] \in {"leave", "shut"} /\ Stage(put[p], at[p])
      /\ Does(p, "over") /\ put' = put
  BY PutHas DEF UInv, Dies, Puts
<1>2. PICK c : /\ \/ c = put[p].channel /\ at[p] = "leave"
                  \/ c = put[p].data_ioc /\ at[p] = "shut"
               /\ conn' = ShutDown(c)
  <2>1. \/ at[p] = "leave" /\ conn' = ShutDown(put[p].channel)
        \/ at[p] = "shut" /\ conn' = ShutDown(put[p].data_ioc)
    BY DEF Dies, Puts
  <2> QED BY <2>1
<1>3. c \in Channel
  BY <1>1, <1>2 DEF Stage
<1>4. AsideOf(c)
  BY <1>1, <1>2 DEF ShutDown, AsideOf, FieldsOK
<1>5. PICK e : e = put[p]
  OBVIOUS
<1>6. Moves(p, "over", e)
  BY <1>1, <1>5, MovesIs
<1>7. InStep(p, "over", e, conn'[e.channel])
  BY Ended
<1>8. c = put[p].channel \/ c = put[p].data_ioc
  BY <1>2
<1> QED BY <1>3, <1>4, <1>5, <1>6, <1>7, <1>8, OneSteps

LEMMA ConnectDataSteps ==
  ASSUME NULL \notin Channel, UInv, StepsOK, NEW p \in Put, ConnectData(p)
  PROVE  StepsOK'
<1>1. at[p] = "data" /\ at[p] \in Live /\ at[p] \notin Dialogue
  BY DEF ConnectData, Puts, Live, Dialogue, Command
<1>2. PICK d \in Channel : d = put[p].channel
  BY <1>1, LiveIs
<1>3. conn[d] # NULL /\ FieldsOK /\ DOMAIN put[p] = DOMAIN NewPut
  BY <1>1, <1>2, LiveIs
<1>4. PICK c : c = NextChannel
  OBVIOUS
<1>5. Fresh(c)
  <2>1. conn' = [conn EXCEPT ![NextChannel] = NewConn] /\ Unused # {}
    BY DEF ConnectData
  <2> QED BY <1>3, <1>4, <2>1, NextIsFresh
<1>6. c \in Channel /\ conn[c] = NULL /\ AsideOf(c)
  BY <1>5 DEF Fresh, Touches, AsideOf
<1>7. conn'[d] = conn[d]
  BY <1>2, <1>3, <1>6 DEF AsideOf
<1>8. PICK e : e = [put[p] EXCEPT !.data_ioc = c, !.out = CommandLine(p, "stor")]
  OBVIOUS
<1>9. e.channel = put[p].channel /\ e.out = CommandLine(p, "stor") /\ e.code = put[p].code
  BY <1>3, <1>8, PutFields
<1>10. Moves(p, "stor", e)
  <2>1. put' = [put EXCEPT ![p] = e] /\ Does(p, "stor")
    BY <1>4, <1>8 DEF ConnectData
  <2> QED BY <1>3, <2>1, MovesIs
<1>11. PICK x, e0 : x = conn[d] /\ e0 = put[p]
  OBVIOUS
<1>12. Calm(p, "data", e0, x)
  <2>1. ~Pending(p, at[p], e0, x)
    BY <1>1 DEF Pending
  <2> QED BY <1>1, <1>2, <1>11, <2>1, LiveIs
<1>13. Silent(x) /\ e.code = NULL
  BY <1>9, <1>11, <1>12 DEF Calm
<1>14. ASSUME x.fin
       PROVE  Calm(p, "stor", e, x)
  <2>1. OutOf("stor", e) \in Seq(Words)
    BY <1>9, CommandLineIs DEF OutOf
  <2> QED BY <1>13, <1>14, <2>1, Zenon DEF Calm
<1>15. ASSUME ~x.fin
       PROVE  Calm(p, "stor", e, x)
  <2>1. PICK o : o = OutOf("data", e0)
    OBVIOUS
  <2>2. o \in Seq(Words) /\ Asks(p, "data", o, x)
    BY <1>12, <1>15, <2>1 DEF Calm
  <2>3. CommandLine(p, "data") = <<>>
    BY DEF CommandLine, Command
  <2>4. x.got = <<>> /\ x.up = <<>>
    BY <2>2, <2>3, NoneAsked
  <2> QED BY <1>9, <1>13, <2>4, CalmAgain
<1>16. Calm(p, "stor", e, x)
  BY <1>14, <1>15
<1>17. InStep(p, "stor", e, conn'[e.channel])
  BY <1>2, <1>7, <1>9, <1>11, <1>16 DEF InStep, Live, Dialogue, Command
<1> QED BY <1>6, <1>9, <1>10, <1>17, OneSteps

LEMMA ConnectDataFailsSteps ==
  ASSUME NULL \notin Channel, UInv, StepsOK, NEW p \in Put, ConnectDataFails(p)
  PROVE  StepsOK'
<1>1. at[p] \in Live /\ Enter(p, "leave") /\ conn' = conn
  BY DEF ConnectDataFails, Puts, Live
<1>2. PICK c : c = put[p].channel
  OBVIOUS
<1>3. PICK t \in {"leave", "shut", "over"} : t = "leave"
  OBVIOUS
<1> QED BY <1>1, <1>2, <1>3, EndSteps

LEMMA BlockFailsSteps ==
  ASSUME NULL \notin Channel, UInv, StepsOK, NEW p \in Put, BlockFails(p)
  PROVE  StepsOK'
<1>1. at[p] \in Live /\ Enter(p, "shut") /\ conn' = conn
  BY DEF BlockFails, Puts, Live
<1>2. PICK c : c = put[p].channel
  OBVIOUS
<1>3. PICK t \in {"leave", "shut", "over"} : t = "shut"
  OBVIOUS
<1> QED BY <1>1, <1>2, <1>3, EndSteps

(* While the file is sent, the dialogue rests.                             *)
LEMMA SendsOn ==
  ASSUME NULL \notin Channel, UInv, StepsOK, NEW p \in Put, at[p] = "send",
         NEW e, Moves(p, "send", e), e.channel = put[p].channel, e.code = put[p].code,
         NEW c, conn' = conn \/ (c \in Channel /\ AsideOf(c)), c = put[p].data_ioc
  PROVE  StepsOK'
<1>1. at[p] \in Live
  BY DEF Live
<1>2. PICK d \in Channel : d = put[p].channel
  BY <1>1, LiveIs
<1>3. PICK x, e0 : x = conn[d] /\ e0 = put[p]
  OBVIOUS
<1>4. Calm(p, "send", e0, x)
  <2>1. ~Pending(p, at[p], e0, x)
    BY DEF Pending, Dialogue, Command
  <2> QED BY <1>1, <1>2, <1>3, <2>1, LiveIs
<1>5. Calm(p, "send", e, x)
  BY <1>3, <1>4, Zenon DEF Calm, OutOf
<1>6. conn'[d] = x
  <2>1. d # c
    BY <1>2, NULL \notin Channel DEF UInv, Apart
  <2> QED BY <1>3, <2>1 DEF AsideOf
<1>7. InStep(p, "send", e, conn'[e.channel])
  BY <1>2, <1>5, <1>6 DEF InStep, Live, Dialogue, Command
<1> QED BY <1>7, OneSteps

LEMMA ReadSourceSteps ==
  ASSUME NULL \notin Channel, UInv, StepsOK, NEW p \in Put, ReadSource(p)
  PROVE  StepsOK'
<1>1. at[p] = "send" /\ at[p] \in Live /\ conn' = conn
  BY DEF ReadSource, Puts, Live
<1>2. FieldsOK /\ DOMAIN put[p] = DOMAIN NewPut
  BY <1>1, LiveIs
<1>3. PICK block : block = SourceBuffer(p, put[p].pos, put[p].size)
  OBVIOUS
<1>4. PICK c : c = put[p].data_ioc
  OBVIOUS
<1>5. CASE block = NULL
  <2>1. PICK e : e = [put[p] EXCEPT !.result = "sent"]
    OBVIOUS
  <2>2. e.channel = put[p].channel
    BY <1>2, <2>1, PutFields
  <2>3. put' = [put EXCEPT ![p] = e] /\ Does(p, "shut")
    BY <1>3, <1>5, <2>1 DEF ReadSource
  <2>4. Moves(p, "shut", e)
    BY <1>2, <2>3, MovesIs
  <2>5. InStep(p, "shut", e, conn'[e.channel])
    BY Ended
  <2> QED BY <1>1, <1>4, <2>2, <2>4, <2>5, OneSteps
<1>6. CASE block # NULL
  <2>1. PICK pos : pos = put[p].pos + Len(block)
    OBVIOUS
  <2>2. PICK e : e = [put[p] EXCEPT !.out = block, !.pos = pos]
    OBVIOUS
  <2>3. e.channel = put[p].channel /\ e.code = put[p].code
    BY <1>2, <2>2, PutFields
  <2>4. put' = [put EXCEPT ![p] = e] /\ at' = at
    BY <1>3, <1>6, <2>1, <2>2 DEF ReadSource
  <2>5. Moves(p, "send", e)
    BY <1>1, <1>2, <2>4, MovesIs
  <2> QED BY <1>1, <1>4, <2>3, <2>5, SendsOn
<1> QED BY <1>5, <1>6

LEMMA WriteBlockSteps ==
  ASSUME NULL \notin Channel, UInv, StepsOK, NEW p \in Put, WriteBlock(p)
  PROVE  StepsOK'
<1>1. at[p] = "send" /\ at[p] \in Live /\ at' = at
  BY DEF WriteBlock, Puts, Live
<1>2. FieldsOK /\ DOMAIN put[p] = DOMAIN NewPut /\ Stage(put[p], at[p])
  BY <1>1, LiveIs, PutHas
<1>3. PICK c \in Channel : c = put[p].data_ioc
  BY <1>1, <1>2 DEF Stage
<1>4. PICK u : u = Unwritten(c, put[p].out)
  OBVIOUS
<1>5. PICK e : e = [put[p] EXCEPT !.out = u]
  OBVIOUS
<1>6. e.channel = put[p].channel /\ e.code = put[p].code
  BY <1>2, <1>5, PutFields
<1>7. put' = [put EXCEPT ![p] = e] /\ WriteChars(p, c, put[p].out)
  BY <1>3, <1>4, <1>5 DEF WriteBlock
<1>8. Moves(p, "send", e)
  BY <1>1, <1>2, <1>7, MovesIs
<1>9. conn' = conn \/ AsideOf(c)
  <2>1. conn' = conn \/ \E v : conn' = [conn EXCEPT ![c].up = v]
    BY <1>7, Zenon DEF WriteChars
  <2> QED BY <1>2, <2>1 DEF AsideOf, FieldsOK
<1> QED BY <1>1, <1>3, <1>6, <1>8, <1>9, SendsOn

-----------------------------------------------------------------------------
(* The server greets, or answers: a reply is on its way.                   *)
LEMMA ReplySent ==
  ASSUME NEW p \in Put, NEW s \in Dialogue, NEW e, NEW lines \in Seq(ReplyLine), NEW n \in Nat,
         Reading(s, lines, 0, n, NULL), e.out = <<>>, e.code = NULL, NEW x, Silent(x),
         NEW y, y.got = <<>>, y.up = <<>>, y.buf = x.buf, y.down = x.down,
         y.flight = x.flight \o ReplyLines(p, KeyOf(s), lines)
  PROVE  Pending(p, s, e, y)
<1>1. PICK z \in Nat : z = 0
  OBVIOUS
<1>2. Reading(s, lines, z, n, e.code)
  BY <1>1
<1>3. PICK key \in Keys : key = KeyOf(s)
  BY <1>2, PendingIs
<1>4. PICK l \in Nat \ {0} : HasLines(l, lines)
  BY <1>2, PendingIs
<1>5. z \in 0..l
  BY <1>1
<1>6. From(p, key, lines, z) \in Seq(Words)
  BY <1>4, <1>5, FromIs
<1>7. From(p, key, lines, 0) = ReplyLines(p, key, lines)
  BY <1>4, FromEnds
<1>8. PICK rest \in Seq(Words) : /\ rest = From(p, KeyOf(s), lines, z)
                                 /\ rest = ReplyLines(p, KeyOf(s), lines)
  BY <1>1, <1>3, <1>6, <1>7
<1>9. y.flight = x.flight \o rest
  BY <1>8
<1>10. Ahead(y, rest)
  BY <1>9, SendAhead
<1>11. Ahead(y, From(p, KeyOf(s), lines, z))
  BY <1>8, <1>10
<1> QED BY <1>2, <1>11 DEF Pending

LEMMA ReplyBegins ==
  ASSUME NEW s, NEW lines \in Seq(ReplyLine), NEW n \in Nat, IsReply(lines, 0, n),
         n <= Len(lines), n = Len(lines) \/ (s = "greeting" /\ Twofold(lines, n))
  PROVE  Reading(s, lines, 0, n, NULL)
<1>1. 0 < n
  BY Zenon DEF IsReply
<1> QED BY <1>1, Zenon DEF Reading

LEMMA GreetingIs ==
  ASSUME NEW g \in Greeting
  PROVE  /\ g \in Seq(ReplyLine)
         /\ \E n \in Nat : Reading("greeting", g, 0, n, NULL)
<1>1. /\ g \in Seq(ReplyLine)
      /\ \/ IsReply(g, 0, Len(g))
         \/ \E n \in 1..Len(g) : Twofold(g, n)
  BY RepliesWhole, Zenon DEF Twofold
<1>2. PICK l \in Nat : l = Len(g) /\ l <= Len(g)
  BY <1>1, LenProperties
<1>3. CASE IsReply(g, 0, Len(g))
  <2>1. IsReply(g, 0, l)
    BY <1>2, <1>3
  <2>2. Reading("greeting", g, 0, l, NULL)
    BY <1>1, <1>2, <2>1, ReplyBegins
  <2> QED BY <1>1, <2>2
<1>4. CASE \E n \in 1..Len(g) : Twofold(g, n)
  <2>1. PICK n \in Nat : Twofold(g, n) /\ n <= Len(g)
    BY <1>4
  <2>2. IsReply(g, 0, n)
    BY <2>1, Zenon DEF Twofold
  <2>3. Reading("greeting", g, 0, n, NULL)
    BY <1>1, <2>1, <2>2, ReplyBegins
  <2> QED BY <1>1, <2>3
<1> QED BY <1>1, <1>3, <1>4

LEMMA AnswerIs ==
  ASSUME NEW s \in Command, NEW lines \in ServerReply[s]
  PROVE  /\ lines \in Seq(ReplyLine)
         /\ \E n \in Nat : Reading(s, lines, 0, n, NULL)
<1>1. lines \in Seq(ReplyLine) /\ IsReply(lines, 0, Len(lines))
  BY RepliesWhole, Zenon DEF Command
<1>2. PICK l \in Nat : l = Len(lines) /\ l <= Len(lines)
  BY <1>1, LenProperties
<1>3. IsReply(lines, 0, l)
  BY <1>1, <1>2
<1>4. Reading(s, lines, 0, l, NULL)
  BY <1>1, <1>2, <1>3, ReplyBegins
<1> QED BY <1>1, <1>4

LEMMA ConnectControlSteps ==
  ASSUME NULL \notin Channel, UInv, StepsOK, NEW p \in Put, ConnectControl(p)
  PROVE  StepsOK'
<1>1. /\ FieldsOK /\ at[p] = "connect" /\ DOMAIN put[p] = DOMAIN NewPut
      /\ Unused # {} /\ Does(p, "greeting")
  BY PutHas DEF UInv, ConnectControl, Puts
<1>2. PICK c : c = NextChannel
  OBVIOUS
<1>3. PICK g \in Greeting :
        conn' = [conn EXCEPT ![c] = [NewConn EXCEPT !.flight = ReplyLines(p, "greeting", g)]]
  BY <1>2 DEF ConnectControl
<1>4. PICK f, y : f = ReplyLines(p, "greeting", g) /\ y = [NewConn EXCEPT !.flight = f]
  OBVIOUS
<1>5. /\ DOMAIN y = DOMAIN NewConn /\ y.flight = f /\ y.buf = NewConn.buf
      /\ y.down = NewConn.down /\ y.got = NewConn.got /\ y.up = NewConn.up
  BY <1>4, ConnFields
<1>6. conn' = [conn EXCEPT ![NextChannel] = y]
  BY <1>2, <1>3, <1>4
<1>7. Fresh(c) /\ conn'[c] = y
  BY <1>1, <1>2, <1>5, <1>6, NextIsFresh
<1>8. c \in Channel /\ conn[c] = NULL /\ AsideOf(c)
  BY <1>7 DEF Fresh, Touches, AsideOf
<1>9. PICK e : e = [put[p] EXCEPT !.channel = c]
  OBVIOUS
<1>10. e.channel = c /\ e.out = put[p].out /\ e.code = put[p].code
  BY <1>1, <1>9, PutFields
<1>11. e.out = <<>> /\ e.code = NULL
  BY <1>1, <1>10 DEF StepsOK, InStep
<1>12. Moves(p, "greeting", e)
  <2>1. put' = [put EXCEPT ![p] = e]
    BY <1>2, <1>9 DEF ConnectControl
  <2> QED BY <1>1, <2>1, MovesIs
<1>13. PICK s \in Dialogue : s = "greeting" /\ KeyOf(s) = "greeting"
  BY DEF Dialogue, KeyOf
<1>14. g \in Seq(ReplyLine)
  BY GreetingIs
<1>15. PICK n \in Nat : Reading(s, g, 0, n, NULL)
  BY <1>13, GreetingIs
<1>16. PICK x : x = NewConn
  OBVIOUS
<1>17. Silent(x) /\ x.got = <<>> /\ x.up = <<>> /\ x.flight = <<>>
  BY <1>16 DEF Silent, NewConn
<1>18. y.flight = x.flight \o ReplyLines(p, KeyOf(s), g)
  <2>1. PICK z \in Nat : z = 0
    OBVIOUS
  <2>2. f \in Seq(Words)
    <3>1. Reading(s, g, z, n, NULL)
      BY <1>15, <2>1
    <3>2. PICK key \in Keys : key = KeyOf(s)
      BY <1>14, <3>1, PendingIs
    <3>3. PICK l \in Nat \ {0} : HasLines(l, g)
      BY <1>14, <3>1, PendingIs
    <3>4. ReplyLines(p, key, g) \in Seq(Words)
      BY <3>3, RepliesAre
    <3> QED BY <1>4, <1>13, <3>2, <3>4
  <2>3. <<>> \o f = f
    BY <2>2, ConcatEmptySeq
  <2> QED BY <1>4, <1>5, <1>13, <1>17, <2>3
<1>19. Pending(p, s, e, y)
  <2>1. y.got = <<>> /\ y.up = <<>> /\ y.buf = x.buf /\ y.down = x.down
    BY <1>5, <1>16, <1>17
  <2> QED BY <1>11, <1>14, <1>15, <1>17, <1>18, <2>1, ReplySent
<1>20. InStep(p, "greeting", e, conn'[e.channel])
  BY <1>7, <1>10, <1>13, <1>19 DEF InStep, Live, Dialogue
<1> QED BY <1>8, <1>10, <1>12, <1>20, OneSteps

(* A whole command is all that was written.                                *)
Full(g) == Len(g) = 2

LEMMA WholeCommand ==
  ASSUME NEW p \in Put, NEW s, NEW o \in Seq(Words), NEW x, Asks(p, s, o, x), Full(x.got)
  PROVE  s \in Command /\ x.got = CommandLine(p, s) /\ x.up = <<>> /\ o = <<>>
<1>1. PICK g \in Seq(Words), u \in Seq(Words), h \in Seq(Words) :
        /\ g = x.got /\ u = x.up /\ h = CommandLine(p, s) /\ g \o (u \o o) = h
  BY CommandLineIs DEF Asks
<1>2. PICK i \in Nat, j \in Nat, k \in Nat : i = Len(g) /\ j = Len(u) /\ k = Len(o)
  BY LenProperties
<1>3. PICK t \in Seq(Words) : t = u \o o /\ Len(t) = j + k
  BY <1>2, ConcatProperties
<1>4. g \o t = h
  BY <1>1, <1>3
<1>5. PICK a \in Nat, b \in Nat : a = Len(h) /\ b = Len(t) /\ b = j + k
  BY <1>3, LenProperties
<1>6. a = i + b
  <2>1. Len(g \o t) = Len(g) + Len(t)
    BY ConcatProperties
  <2>2. Len(h) = Len(g) + Len(t)
    BY <1>4, <2>1, Zenon
  <2> QED BY <1>2, <1>5, <2>2
<1>7. i = 2
  BY <1>1, <1>2 DEF Full
<1>8. s \in Command
  <2>1. a # 0
    BY <1>6, <1>7
  <2>2. h # <<>>
    BY <1>5, <2>1, EmptySeq
  <2> QED BY <1>1, <2>2, CommandLineIs
<1>9. a = 2
  BY <1>1, <1>5, <1>8, CommandLineIs
<1>10. b = 0 /\ j = 0 /\ k = 0
  BY <1>5, <1>6, <1>7, <1>9
<1>11. u = <<>> /\ o = <<>> /\ t = <<>>
  BY <1>2, <1>5, <1>10, EmptySeq
<1>12. g = h
  <2>1. g \o <<>> = g
    BY ConcatEmptySeq
  <2> QED BY <1>4, <1>11, <2>1
<1> QED BY <1>1, <1>8, <1>11, <1>12

LEMMA AnsweredIs ==
  ASSUME NEW p \in Put, NEW s, NEW e, NEW x, InStep(p, s, e, x), s \in Live, ~x.fin,
         Full(x.got)
  PROVE  /\ s \in Command /\ x.got[1] = Unit("command", p, s) /\ x.up = <<>>
         /\ e.out = <<>> /\ e.code = NULL /\ Silent(x)
<1>1. Calm(p, s, e, x)
  <2>1. ASSUME x.got = <<>>
        PROVE  FALSE
    <3>1. Len(x.got) = 0
      BY <2>1, EmptySeq
    <3> QED BY <3>1 DEF Full
  <2>2. ~Pending(p, s, e, x)
    BY <2>1, Zenon DEF Pending
  <2> QED BY <2>2 DEF InStep
<1>2. PICK o : o = OutOf(s, e)
  OBVIOUS
<1>3. o \in Seq(Words) /\ Asks(p, s, o, x) /\ Silent(x) /\ e.code = NULL
  BY <1>1, <1>2 DEF Calm
<1>4. s \in Command /\ x.got = CommandLine(p, s) /\ x.up = <<>> /\ o = <<>>
  BY <1>3, WholeCommand
<1>5. CommandLine(p, s)[1] = Unit("command", p, s)
  BY <1>4, CommandLineIs
<1>6. e.out = <<>>
  BY <1>2, <1>4 DEF OutOf, Command
<1> QED BY <1>3, <1>4, <1>5, <1>6

LEMMA AnswerCommandSteps ==
  ASSUME NULL \notin Channel, UInv, StepsOK, NEW c \in Channel, AnswerCommand(c)
  PROVE  StepsOK'
<1>1. PICK x : x = conn[c] /\ x # NULL /\ Full(x.got)
  BY DEF AnswerCommand, Alive, Full
<1>2. ~x.fin
  BY <1>1, Zenon DEF AnswerCommand, Alive
<1>3. DOMAIN conn = Channel /\ DOMAIN x = DOMAIN NewConn
  BY <1>1 DEF UInv, FieldsOK
<1>4. at' = at /\ put' = put
  BY DEF AnswerCommand, putVars
<1>5. PICK q, cmd : q = x.got[1][2] /\ cmd = x.got[1][3]
  OBVIOUS
<1>6. PICK lines \in ServerReply[cmd] :
        conn' = [conn EXCEPT ![c].got = <<>>, ![c].flight = @ \o ReplyLines(q, cmd, lines)]
  BY <1>1, <1>5, Zenon DEF AnswerCommand
<1>7. PICK f : f = x.flight \o ReplyLines(q, cmd, lines)
  OBVIOUS
<1>8. conn' = [conn EXCEPT ![c].got = <<>>, ![c].flight = f]
  BY <1>1, <1>3, <1>6, <1>7
<1>9. PICK y : y = [x EXCEPT !.got = <<>>, !.flight = f]
  OBVIOUS
<1>10. y.buf = x.buf /\ y.down = x.down /\ y.flight = f /\ y.got = <<>> /\ y.up = x.up
  BY <1>3, <1>9, ConnFields
<1>11. Turned(c, y)
  BY <1>1, <1>3, <1>8, <1>9 DEF Turned
<1>12. AsideOf(c) /\ conn'[c] = y
  BY <1>11, TurnedAside
<1>13. ASSUME NEW p \in Put, InStep(p, at[p], put[p], x)
       PROVE  InStep(p, at[p], put[p], y)
  <2>1. PICK s, e : s = at[p] /\ e = put[p]
    OBVIOUS
  <2>2. CASE s \notin Live
    BY <1>13, <2>1, <2>2 DEF InStep
  <2>3. CASE s \in Live
    <3>1. InStep(p, s, e, x)
      BY <1>13, <2>1
    <3>2. /\ s \in Command /\ x.got[1] = Unit("command", p, s) /\ x.up = <<>>
          /\ e.out = <<>> /\ e.code = NULL /\ Silent(x)
      BY <1>1, <1>2, <2>3, <3>1, AnsweredIs
    <3>3. q = p /\ cmd = s
      BY <1>5, <3>2 DEF Unit
    <3>4. s \in Dialogue /\ KeyOf(s) = s
      BY <3>2 DEF Dialogue, KeyOf, Command
    <3>5. PICK l \in ServerReply[s] : l = lines
      BY <3>3
    <3>6. l \in Seq(ReplyLine)
      BY <3>2, AnswerIs
    <3>7. PICK n \in Nat : Reading(s, l, 0, n, NULL)
      BY <3>2, AnswerIs
    <3>8. y.flight = x.flight \o ReplyLines(p, KeyOf(s), l)
      BY <1>7, <1>10, <3>3, <3>4, <3>5
    <3>9. y.got = <<>> /\ y.up = <<>> /\ y.buf = x.buf /\ y.down = x.down
      BY <1>10, <3>2
    <3>10. Pending(p, s, e, y)
      BY <3>2, <3>4, <3>6, <3>7, <3>8, <3>9, ReplySent
    <3>11. InStep(p, s, e, y)
      BY <3>1, <3>10, Zenon DEF InStep
    <3> QED BY <2>1, <3>11
  <2> QED BY <2>2, <2>3
<1> QED BY <1>1, <1>4, <1>12, <1>13, NetSteps

-----------------------------------------------------------------------------
(* Server and network.                                                     *)
LEMMA ServerReadsCalm ==
  ASSUME NEW p \in Put, NEW s, NEW e, NEW x, InStep(p, s, e, x), ~x.fin, x.up # <<>>,
         NEW y, y.buf = x.buf, y.down = x.down, y.flight = x.flight,
         y.got = x.got \o x.up, y.up = <<>>
  PROVE  InStep(p, s, e, y)
<1>1. CASE s \notin Live
  BY <1>1 DEF InStep
<1>2. CASE s \in Live
  <2>1. ~Pending(p, s, e, x)
    BY Zenon DEF Pending
  <2>2. Calm(p, s, e, x)
    BY <1>2, <2>1 DEF InStep
  <2>3. PICK o : o = OutOf(s, e)
    OBVIOUS
  <2>4. o \in Seq(Words) /\ Asks(p, s, o, x) /\ Silent(x) /\ e.code = NULL
    BY <2>2, <2>3 DEF Calm
  <2>5. x.got \in Seq(Words) /\ x.up \in Seq(Words) /\ x.got \o (x.up \o o) = CommandLine(p, s)
    BY <2>4 DEF Asks
  <2>6. y.got \in Seq(Words) /\ y.up \in Seq(Words) /\ Len(y.up) <= Window
    <3>1. 0 <= Window
      BY Nought
    <3>2. Len(y.up) = 0 /\ y.up \in Seq(Words)
      BY EmptySeq
    <3>3. x.got \o x.up \in Seq(Words)
      BY <2>5, ConcatProperties
    <3> QED BY <3>1, <3>2, <3>3
  <2>7. y.got \o (y.up \o o) = CommandLine(p, s)
    <3>1. JoinsThree(x.got, x.up, o)
      BY <2>4, <2>5, JoinThree
    <3>2. <<>> \o o = o
      BY <2>4, ConcatEmptySeq
    <3> QED BY <2>5, <3>1, <3>2 DEF JoinsThree
  <2>8. Asks(p, s, o, y)
    BY <2>6, <2>7 DEF Asks
  <2>9. Silent(y)
    BY <2>4 DEF Silent
  <2>10. Calm(p, s, e, y)
    BY <2>3, <2>4, <2>8, <2>9, Zenon DEF Calm
  <2> QED BY <1>2, <2>10 DEF InStep
<1> QED BY <1>1, <1>2

LEMMA DeliverPending ==
  ASSUME NEW p \in Put, NEW s, NEW e, NEW x, InStep(p, s, e, x), x.flight # <<>>,
         NEW y, y.buf = x.buf, y.down = Append(x.down, Head(x.flight)),
         y.flight = Tail(x.flight), y.got = x.got, y.up = x.up
  PROVE  InStep(p, s, e, y)
<1>1. CASE s \notin Live
  BY <1>1 DEF InStep
<1>2. CASE s \in Live
  <2>1. ~Calm(p, s, e, x)
    BY DEF Calm, Silent
  <2>2. Pending(p, s, e, x)
    BY <1>2, <2>1 DEF InStep
  <2>3. \A rest : Ahead(x, rest) => Ahead(y, rest)
    BY DeliverAhead
  <2>4. Pending(p, s, e, y)
    BY <2>2, <2>3 DEF Pending
  <2> QED BY <1>2, <2>4 DEF InStep
<1> QED BY <1>1, <1>2

LEMMA BreakInStep ==
  ASSUME NEW p \in Put, NEW s, NEW e, NEW x, InStep(p, s, e, x), Breaks,
         NEW y, y.buf = x.buf, y.down = x.down, y.flight = <<>>,
         y.got = x.got, y.up = x.up, y.fin
  PROVE  InStep(p, s, e, y)
<1>1. CASE s \notin Live
  BY <1>1, Zenon DEF InStep
<1>2. CASE s \in Live /\ Calm(p, s, e, x)
  <2>1. Silent(y)
    BY <1>2 DEF Calm, Silent
  <2>2. Calm(p, s, e, y)
    BY <1>2, <2>1, Zenon DEF Calm
  <2> QED BY <1>2, <2>2, Zenon DEF InStep
<1>3. CASE s \in Live /\ Pending(p, s, e, x)
  <2>1. Broken(y)
    BY DEF Broken
  <2>2. \A rest : Ahead(x, rest) => Ahead(y, rest)
    BY <2>1, BreakAhead
  <2>3. Pending(p, s, e, y)
    BY <1>3, <2>2 DEF Pending
  <2> QED BY <1>3, <2>3, Zenon DEF InStep
<1> QED BY <1>1, <1>2, <1>3 DEF InStep

LEMMA ServerReadsSteps ==
  ASSUME NULL \notin Channel, UInv, StepsOK, NEW c \in Channel, ServerReads(c),
         at' = at, put' = put
  PROVE  StepsOK'
<1>1. PICK x : x = conn[c] /\ x # NULL /\ x.up # <<>>
  BY DEF ServerReads, Alive
<1>2. ~x.fin
  BY <1>1, Zenon DEF ServerReads, Alive
<1>3. DOMAIN conn = Channel /\ DOMAIN x = DOMAIN NewConn
  BY <1>1 DEF UInv, FieldsOK
<1>4. PICK g : g = x.got \o x.up
  OBVIOUS
<1>5. conn' = [conn EXCEPT ![c].got = g, ![c].up = <<>>]
  BY <1>1, <1>4 DEF ServerReads
<1>6. PICK y : y = [x EXCEPT !.got = g, !.up = <<>>]
  OBVIOUS
<1>7. y.buf = x.buf /\ y.down = x.down /\ y.flight = x.flight /\ y.got = g /\ y.up = <<>>
  BY <1>3, <1>6, ConnFields
<1>8. Turned(c, y)
  BY <1>1, <1>3, <1>5, <1>6 DEF Turned
<1>9. AsideOf(c) /\ conn'[c] = y
  BY <1>8, TurnedAside
<1>10. ASSUME NEW p \in Put, InStep(p, at[p], put[p], x)
       PROVE  InStep(p, at[p], put[p], y)
  <2>1. PICK s, e : s = at[p] /\ e = put[p]
    OBVIOUS
  <2>2. InStep(p, s, e, x)
    BY <1>10, <2>1
  <2>3. InStep(p, s, e, y)
    BY <1>1, <1>2, <1>4, <1>7, <2>2, ServerReadsCalm
  <2> QED BY <2>1, <2>3
<1> QED BY <1>1, <1>9, <1>10, NetSteps

LEMMA DeliverSteps ==
  ASSUME NULL \notin Channel, UInv, StepsOK, NEW c \in Channel, Deliver(c),
         at' = at, put' = put
  PROVE  StepsOK'
<1>1. PICK x : x = conn[c] /\ x # NULL /\ x.flight # <<>>
  BY DEF Deliver
<1>2. DOMAIN conn = Channel /\ DOMAIN x = DOMAIN NewConn
  BY <1>1 DEF UInv, FieldsOK
<1>3. PICK d, f : d = Append(x.down, Head(x.flight)) /\ f = Tail(x.flight)
                  /\ conn' = [conn EXCEPT ![c].down = d, ![c].flight = f]
  BY <1>1 DEF Deliver
<1>4. PICK y : y = [x EXCEPT !.down = d, !.flight = f]
  OBVIOUS
<1>5. y.buf = x.buf /\ y.down = d /\ y.flight = f /\ y.got = x.got /\ y.up = x.up
  BY <1>2, <1>4, ConnFields
<1>6. Turned(c, y)
  BY <1>1, <1>2, <1>3, <1>4 DEF Turned
<1>7. AsideOf(c) /\ conn'[c] = y
  BY <1>6, TurnedAside
<1>8. ASSUME NEW p \in Put, InStep(p, at[p], put[p], x)
      PROVE  InStep(p, at[p], put[p], y)
  <2>1. PICK s, e : s = at[p] /\ e = put[p]
    OBVIOUS
  <2>2. InStep(p, s, e, x)
    BY <1>8, <2>1
  <2>3. InStep(p, s, e, y)
    BY <1>1, <1>3, <1>5, <2>2, DeliverPending
  <2> QED BY <2>1, <2>3
<1> QED BY <1>1, <1>7, <1>8, NetSteps

LEMMA BreakSteps ==
  ASSUME NULL \notin Channel, UInv, StepsOK, NEW c \in Channel, Break(c),
         at' = at, put' = put
  PROVE  StepsOK'
<1>1. PICK x : x = conn[c] /\ x # NULL
  BY DEF Break, Alive
<1>2. DOMAIN conn = Channel /\ DOMAIN x = DOMAIN NewConn
  BY <1>1 DEF UInv, FieldsOK
<1>3. conn' = [conn EXCEPT ![c].fin = TRUE, ![c].flight = <<>>] /\ Breaks
  BY Zenon DEF Break
<1>4. PICK y : y = [x EXCEPT !.fin = TRUE, !.flight = <<>>]
  OBVIOUS
<1>5. /\ y.buf = x.buf /\ y.down = x.down /\ y.flight = <<>> /\ y.got = x.got /\ y.up = x.up
      /\ y.fin = TRUE
  BY <1>2, <1>4, ConnFields
<1>6. y.fin
  BY <1>5, Zenon
<1>7. Turned(c, y)
  BY <1>1, <1>2, <1>3, <1>4 DEF Turned
<1>8. AsideOf(c) /\ conn'[c] = y
  BY <1>7, TurnedAside
<1>9. ASSUME NEW p \in Put, InStep(p, at[p], put[p], x)
      PROVE  InStep(p, at[p], put[p], y)
  <2>1. PICK s, e : s = at[p] /\ e = put[p]
    OBVIOUS
  <2>2. InStep(p, s, e, x)
    BY <1>9, <2>1
  <2>3. InStep(p, s, e, y)
    BY <1>3, <1>5, <1>6, <2>2, BreakInStep
  <2> QED BY <2>1, <2>3
<1> QED BY <1>1, <1>8, <1>9, NetSteps

-----------------------------------------------------------------------------
LEMMA StepsSame ==
  ASSUME StepsOK, at' = at, put' = put, conn' = conn
  PROVE  StepsOK'
BY DEF StepsOK

LEMMA UploadSteps ==
  ASSUME NULL \notin Nat, NULL \notin Channel, UInv, StepsOK, FtpNext
  PROVE  StepsOK'
<1>1. ASSUME NEW p \in Put, PutStep(p)
      PROVE  StepsOK'
  BY <1>1, FailsSteps, ConnectControlSteps, WriteCommandSteps, CommandFailsSteps,
     GetReplySteps, AwaitReplySteps, ConnectDataSteps, ConnectDataFailsSteps,
     ReadSourceSteps, WriteBlockSteps, BlockFailsSteps, DiesSteps DEF PutStep
<1>2. ASSUME NEW p \in Put, ResumePut(p)
      PROVE  StepsOK'
  BY <1>2, StepsSame DEF ResumePut, Resumed, putVars
<1> QED BY <1>1, <1>2, PutCoSteps, AnswerCommandSteps DEF FtpNext

LEMMA NewInStep ==
  ASSUME NEW p, NEW x
  PROVE  InStep(p, "new", NewPut, x) /\ NewPut.channel = NULL
BY DEF InStep, Live, Dialogue, Command, NewPut

LEMMA DInvInit ==
  ASSUME NULL # "sent"
  PROVE  Init => DInv
<1> SUFFICES ASSUME Init
             PROVE  DInv
  OBVIOUS
<1>1. FInv
  BY FInvInit
<1>2. at = [p \in Put |-> "new"] /\ put = [p \in Put |-> NewPut]
  BY DEF Init, FtpInit
<1>3. StepsOK
  BY <1>2, NewInStep DEF StepsOK
<1> QED BY <1>1, <1>3 DEF DInv

LEMMA DInvKeeps ==
  ASSUME NULL \notin Nat, "open" \notin DOMAIN NULL, NULL \notin Channel,
         \A p \in Put : NULL \notin Seq(Units(p)), \A n \in FileSize : Sendable(n),
         DInv, [Next]_vars
  PROVE  DInv'
<1>1. FInv /\ FInv'
  BY FInvKeeps DEF DInv
<1>2. SUFFICES ASSUME NoRequests'
               PROVE  StepsOK'
  BY <1>1 DEF DInv
<1>3. CASE HttpStep
  <2>1. (\A p \in Put : at[p] = "new") /\ at' = at /\ put' = put /\ HttpNext
    BY <1>3 DEF HttpStep, putVars
  <2>2. NoRequests
    BY <1>1, <1>2, <2>1, HttpOn DEF FInv
  <2>3. \A p \in Put : at[p] = "new" /\ put[p] = NewPut
    BY <1>1, <2>1, <2>2, PutHas DEF FInv, Stage
  <2>4. \A p \in Put : at'[p] = "new" /\ put'[p] = NewPut
    BY <2>1, <2>3
  <2> QED BY <2>4, NewInStep DEF StepsOK
<1>4. CASE FtpStep
  <2>1. NoRequests /\ UInv /\ StepsOK /\ FtpNext
    BY <1>1, <1>4 DEF FtpStep, FInv, DInv, NoRequests
  <2> QED BY <2>1, UploadSteps
<1>5. ASSUME pc' = pc, at' = at, put' = put,
             conn' = conn \/ \E c \in Channel : ServerReads(c) \/ Deliver(c) \/ Break(c)
      PROVE  StepsOK'
  <2>1. NoRequests
    BY <1>2, <1>5 DEF NoRequests
  <2>2. UInv /\ StepsOK
    BY <1>1, <2>1 DEF FInv, DInv
  <2> QED BY <1>5, <2>2, StepsSame, ServerReadsSteps, DeliverSteps, BreakSteps
<1>6. CASE \E c \in Channel : ConnStep(c)
  BY <1>5, <1>6 DEF ConnStep, requestVars, putVars
<1>7. CASE UNCHANGED vars
  BY <1>5, <1>7 DEF vars, channelVars, requestVars, putVars
<1> QED BY <1>3, <1>4, <1>6, <1>7 DEF Next

(* A reply is taken for the command it answers: when a command is written  *)
(* nothing of an earlier reply is left, and what is on its way, however    *)
(* the network cuts it, is the rest of the reply that is awaited           *)
(* (get_reply and receive_line, socket_co.lua; login and put_2,            *)
(* ftp_co.lua).  Servers keep to the form of replies (RepliesWhole).       *)
THEOREM Replies_In_Step ==
  ASSUME NULL # "sent", NULL \notin Nat, "open" \notin DOMAIN NULL,
         \A p \in Put : NULL \notin Seq(Units(p)), \A n \in FileSize : Sendable(n)
  PROVE  Spec => []RepliesInStep
<1>1. Init => DInv
  BY DInvInit
<1>2. DInv /\ [Next]_vars => DInv'
  <2>1. NULL \notin Channel
    BY NamesAssumption
  <2> QED BY <2>1, DInvKeeps
<1>3. DInv => RepliesInStep
  BY StepsInStep DEF DInv
<1> QED BY <1>1, <1>2, <1>3, PTL DEF Spec

(* Of a reply nothing is left for the next one, of HTTP or of FTP.         *)
THEOREM Nothing_Left ==
  ASSUME NULL \notin {"sent", "chunked"}, NULL \notin Nat,
         "open" \notin DOMAIN NULL, "body" \notin DOMAIN NULL,
         \A p \in Put : NULL \notin Seq(Units(p)), \A n \in FileSize : Sendable(n)
  PROVE  Spec /\ [][TakesOnce]_vars => []NothingLeft
<1>1. NULL # "sent" /\ NULL # "chunked"
  OBVIOUS
<1>2. Spec => []RepliesInStep
  BY <1>1, Replies_In_Step
<1>3. Spec /\ [][TakesOnce]_vars => []BufferDrained
  BY <1>1, Buffers_Drained
<1>4. BufferDrained /\ RepliesInStep => NothingLeft
  BY DEF NothingLeft
<1> QED BY <1>2, <1>3, <1>4, PTL
=============================================================================
