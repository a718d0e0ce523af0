-------------------------------- MODULE Http --------------------------------
(***************************************************************************)
(* HTTP requests in coroutines (lib/http_co.lua), against a server and a   *)
(* network that break what is sent anywhere.  A second request may start   *)
(* at any time, or in the `done' callback of the first one, whose          *)
(* connection it may take over.                                            *)
(***************************************************************************)
EXTENDS Channels

CONSTANTS
  Req,        (* requests                                                  *)
  UploadSize, (* possible lengths of the source of a request, 0 for none   *)
  Replies,    (* what servers answer: how the length of the body is told,  *)
              (* the length, Connection: close, a 100 before it            *)
  MaxTalking, (* bound: requests under way at a time                       *)
  Joined      (* a header that came twice: "v1, v2"                        *)

Framing == {"none", "length", "chunked", "identity"}

ASSUME RepliesAssumption ==
  /\ Replies \subseteq [framing : Framing, n : Nat, close : BOOLEAN, interim : BOOLEAN]
  /\ \A a \in Replies : a.framing = "none" => a.n = 0

ASSUME SizesAssumption == UploadSize \subseteq Nat

ASSUME NamesAssumption == NULL \notin Channel \cup Req

VARIABLES
  pc,      (* pc[r]: where the coroutine of the request is                 *)
  arg,     (* arg[r]: the argument table with the locals of the coroutine  *)
  answer   (* answer[r]: what the server has answered, or NULL             *)

requestVars == <<pc, arg, answer>>

Name == {"content-length", "transfer-encoding", "connection"}
NoHeaders == [n \in Name |-> NULL]

NewArg == [channel |-> NULL, do_not_shutdown |-> FALSE, response_headers |-> NULL,
           sink |-> <<>>, pos |-> 0, size |-> 0, data |-> <<>>, code |-> 100,
           headers |-> NoHeaders, count |-> 0, length |-> 0, chunk |-> <<>>, rc |-> ""]

HttpInit ==
  /\ pc = [r \in Req |-> "new"]
  /\ arg = [r \in Req |-> NewArg]
  /\ answer = [r \in Req |-> NULL]

-----------------------------------------------------------------------------
Running(r, at) == Runs(r) /\ pc[r] \in at
ChannelOf(r) == arg[r].channel
Chan(r) == conn[ChannelOf(r)]
Goto(r, at) == pc' = [pc EXCEPT ![r] = at]
Keep == UNCHANGED <<conn, answer>>

\* request_2 is left; its locals are gone, its caller cleans up.
Leave(r, rc) ==
  /\ arg' = [arg EXCEPT ![r] = [NewArg EXCEPT !.channel = arg[r].channel,
        !.do_not_shutdown = arg[r].do_not_shutdown, !.sink = arg[r].sink,
        !.response_headers = arg[r].response_headers, !.rc = rc]]
  /\ Goto(r, "cleanup") /\ GoOn
Failed(r) == Leave(r, "error")

Resume(r) == Resumed(r) /\ UNCHANGED requestVars
-----------------------------------------------------------------------------
UnderWay(r) == pc[r] \notin {"new", "cleanup", "done", "over"}

\* request_co: the coroutine begins at once.  The program, or the callback of
\* a request, makes it; k is its keep_alive, another request or none.
MayStart(r, k) ==
  /\ pc[r] = "new" /\ Cardinality({q \in Req : UnderWay(q)}) < MaxTalking
  /\ \/ stack = <<>> /\ k = NULL
     \/ stack # <<>> /\ pc[Head(stack)] = "done" /\ k \in {NULL, Head(stack)}

RequestCo(r, k, n) ==
  /\ MayStart(r, k)
  /\ stack' = <<r>> \o stack
  /\ Goto(r, "connect")
  /\ arg' = [q \in Req |->
       IF q = r THEN [NewArg EXCEPT !.size = n, !.pos = 1,
                        !.channel = IF k = NULL THEN NULL ELSE arg[k].channel]
       ELSE IF q = k THEN [arg[k] EXCEPT !.do_not_shutdown = TRUE]
       ELSE arg[q]]
  /\ UNCHANGED waiting /\ Keep

\* The source of the body cannot be opened: that is all there is to it.
OpenFails(r) ==
  /\ MayStart(r, NULL) /\ Breaks
  /\ Goto(r, "over")
  /\ UNCHANGED arg /\ GoOn /\ Keep

\* The request line and the headers are written before the body.
Lines(r) == <<Unit("request", r, 0), Unit("header", r, arg[r].size)>>

StartSending(r) ==
  /\ Goto(r, "send") /\ GoOn /\ UNCHANGED answer

Connect(r) ==
  /\ Running(r, {"connect"})
  /\ \/ /\ arg[r].channel # NULL
        /\ arg' = [arg EXCEPT ![r].data = Lines(r)]
        /\ StartSending(r) /\ UNCHANGED conn
     \/ /\ arg[r].channel = NULL /\ Unused # {}
        /\ conn' = [conn EXCEPT ![NextChannel] = NewConn]
        /\ arg' = [arg EXCEPT ![r].channel = NextChannel, ![r].data = Lines(r)]
        /\ StartSending(r)

\* No connection: neither cleanup nor `done', only the callback "error".
ConnectFails(r) ==
  /\ Running(r, {"connect"}) /\ Breaks /\ arg[r].channel = NULL
  /\ arg' = [arg EXCEPT ![r] = NewArg]
  /\ Goto(r, "over") /\ Ends /\ Keep

(* send: write_chars until everything is written. *)
Write(r) ==
  /\ Running(r, {"send"}) /\ arg[r].data # <<>>
  /\ WriteChars(r, ChannelOf(r), arg[r].data)
  /\ arg' = [arg EXCEPT ![r].data = Unwritten(ChannelOf(r), @)]
  /\ UNCHANGED <<pc, answer>>

WriteFails(r) ==
  /\ Running(r, {"send"}) /\ arg[r].data # <<>> /\ Chan(r).fin
  /\ Failed(r) /\ Keep

SourceRead(r) == SourceBuffer(r, arg[r].pos, arg[r].size)

\* send_body; when there is nothing left the response is awaited.
SendBody(r) ==
  /\ Running(r, {"send"}) /\ arg[r].data = <<>>
  /\ IF SourceRead(r) = NULL
     THEN Goto(r, "status") /\ UNCHANGED arg
     ELSE /\ arg' = [arg EXCEPT ![r].data = SourceRead(r),
                                ![r].pos = @ + Len(SourceRead(r))]
          /\ UNCHANGED pc
  /\ GoOn /\ Keep
-----------------------------------------------------------------------------
LineStates == {"status", "headers", "chunksize", "trailer", "chunkend"}

\* receive_line has no line: it reads more, or fails at the end.
NeedMore(r) ==
  /\ Running(r, LineStates)
  /\ \/ ReadMore(r, ChannelOf(r)) /\ UNCHANGED requestVars
     \/ NoMoreLines(ChannelOf(r)) /\ Failed(r) /\ Keep

HasLine(r, at) ==
  /\ Running(r, {at})
  /\ TakeLine(ChannelOf(r))
  /\ UNCHANGED answer

LineOf(r) == Line(ChannelOf(r))
IsA(line, k) == Len(line) = 1 /\ line[1][1] = k

StatusLineOf(r) ==
  /\ HasLine(r, "status")
  /\ IF IsA(LineOf(r), "status")
     THEN /\ arg' = [arg EXCEPT ![r].code = LineOf(r)[1][3]]
          /\ Goto(r, "headers") /\ GoOn
     ELSE Failed(r)

\* A header that is there already is joined to what it was.
AddHeader(h, u) == [h EXCEPT ![u[3][1]] = IF @ = NULL THEN u[3][2] ELSE Joined]

HeaderLineOf(r) ==
  /\ HasLine(r, "headers") /\ LineOf(r) # <<>>
  /\ IF IsA(LineOf(r), "header")
     THEN /\ arg' = [arg EXCEPT ![r].headers = AddHeader(@, LineOf(r)[1])]
          /\ UNCHANGED pc /\ GoOn
     ELSE Failed(r)

\* An interim response is taken for the response.
Interim_None(code) == FALSE

Interim(code) == code = 100
ExpectBody(code) == ~(code \in {204, 304} \/ code \in 100..199)

ChunkedReply(h) == h["transfer-encoding"] \notin {NULL, "identity"}
Decoder(r) == LET h == arg[r].headers IN
  CASE ~ExpectBody(arg[r].code) -> "ok"
    [] ExpectBody(arg[r].code) /\ ChunkedReply(h) -> "chunksize"
    [] ExpectBody(arg[r].code) /\ ~ChunkedReply(h)
       /\ h["content-length"] \in Nat -> "length"
    [] OTHER -> "identity"

\* The empty line: after an interim response the next one is read.
HeadersEnd(r) ==
  /\ HasLine(r, "headers") /\ LineOf(r) = <<>>
  /\ IF Interim(arg[r].code)
     THEN Goto(r, "status") /\ UNCHANGED arg
     ELSE /\ arg' = [arg EXCEPT
               ![r].response_headers = arg[r].headers,
               ![r].length = IF arg[r].headers["content-length"] \in Nat
                             THEN arg[r].headers["content-length"] ELSE 0]
          /\ Goto(r, Decoder(r))
  /\ GoOn
-----------------------------------------------------------------------------
\* Bytes still wanted; without a length, everything there is.
Wanted(r) == CASE pc[r] = "length"    -> arg[r].length - arg[r].count
               [] pc[r] = "chunkdata" -> arg[r].length - Len(arg[r].chunk)
               [] OTHER               -> Len(Available(ChannelOf(r)))

\* Characters of what follows are taken for the body.
AtMost_All(r) == Len(Available(ChannelOf(r)))

AtMost(r) ==
  LET there == Len(Available(ChannelOf(r)))
  IN IF Wanted(r) < there THEN Wanted(r) ELSE there

\* What a decoder does with the characters.
Consume(r, s) ==
  IF pc[r] = "chunkdata" THEN arg' = [arg EXCEPT ![r].chunk = @ \o s]
  ELSE arg' = [arg EXCEPT ![r].sink = @ \o s, ![r].count = @ + Len(s)]

Reads(r) == pc[r] = "identity" \/ Wanted(r) > 0

ReadChars(r) ==
  /\ Running(r, {"length", "identity", "chunkdata"}) /\ Reads(r)
  /\ Available(ChannelOf(r)) # <<>>
  /\ TakeChars(ChannelOf(r), AtMost(r))
  /\ Consume(r, SubSeq(Available(ChannelOf(r)), 1, AtMost(r)))
  /\ UNCHANGED <<pc, answer>> /\ GoOn

\* Nothing there: the end of the connection ends only a body without length.
ReadNothing(r) ==
  /\ Running(r, {"length", "identity", "chunkdata"}) /\ Reads(r)
  /\ Available(ChannelOf(r)) = <<>>
  /\ IF ~AtEnd(ChannelOf(r))
     THEN YieldIowait(r, ChannelOf(r), "in") /\ UNCHANGED <<pc, arg>>
     ELSE IF pc[r] = "identity" THEN Goto(r, "ok") /\ UNCHANGED arg /\ GoOn
                                ELSE Failed(r)
  /\ Keep

\* All that was announced is there.
ReadAll(r) ==
  /\ Running(r, {"length", "chunkdata"}) /\ ~Reads(r)
  /\ Goto(r, IF pc[r] = "length" THEN "ok" ELSE "chunkend")
  /\ UNCHANGED arg /\ GoOn /\ Keep

ChunkSize(r) ==
  /\ HasLine(r, "chunksize")
  /\ IF IsA(LineOf(r), "chunk")
     THEN /\ arg' = [arg EXCEPT ![r].length = LineOf(r)[1][3], ![r].chunk = <<>>]
          /\ Goto(r, IF LineOf(r)[1][3] = 0 THEN "trailer" ELSE "chunkdata")
          /\ GoOn
     ELSE Failed(r)

ChunkEnd(r) ==
  /\ HasLine(r, "chunkend")
  /\ arg' = [arg EXCEPT ![r].sink = @ \o arg[r].chunk]
  /\ Goto(r, "chunksize") /\ GoOn

\* Headers behind the last chunk join those of the response.
Trailer(r) ==
  /\ HasLine(r, "trailer")
  /\ IF LineOf(r) = <<>> THEN Goto(r, "ok") /\ UNCHANGED arg /\ GoOn
     ELSE IF IsA(LineOf(r), "header")
     THEN /\ arg' = [arg EXCEPT ![r].response_headers = AddHeader(@, LineOf(r)[1])]
          /\ UNCHANGED pc /\ GoOn
     ELSE Failed(r)

RequestOk(r) ==
  /\ Running(r, {"ok"})
  /\ Leave(r, "http ok") /\ Keep
-----------------------------------------------------------------------------
Shut(c) == [conn EXCEPT ![c] = [NewConn EXCEPT !.open = FALSE, !.fin = TRUE]]

MustClose(r) == \/ arg[r].response_headers = NULL
                \/ arg[r].response_headers["connection"] = "close"

\* What is received has been handed over; of the argument table only the
\* connection still matters.
Cleanup(r) ==
  /\ Running(r, {"cleanup"})
  /\ conn' = IF MustClose(r) THEN Shut(arg[r].channel) ELSE conn
  /\ arg' = [arg EXCEPT ![r] = [NewArg EXCEPT
               !.channel = IF MustClose(r) THEN NULL ELSE arg[r].channel]]
  /\ answer' = [answer EXCEPT ![r] = NULL]
  /\ Goto(r, "done") /\ GoOn

\* No connection is closed after `done'.
KeepOpen_Always(r) == TRUE

\* After the callback `done', in which another request may have begun.  Then
\* the coroutine is over and its argument table is of no more use.
KeepOpen(r) == arg[r].do_not_shutdown
Finish(r) ==
  /\ Running(r, {"done"})
  /\ conn' = IF ~KeepOpen(r) /\ arg[r].channel # NULL THEN Shut(arg[r].channel) ELSE conn
  /\ arg' = [arg EXCEPT ![r] = NewArg]
  /\ Goto(r, "over") /\ Ends /\ UNCHANGED answer
-----------------------------------------------------------------------------
\* The server answers a request that it has completely.
\* A request is the line, the headers with the length, and so much of a body.
Complete(g) ==
  /\ Len(g) >= 2 /\ g[1][1] = "request"
  /\ Len(g) >= 2 + g[2][3]

Header(r, n, v) == <<Unit("header", r, <<n, v>>), NL(r)>>
Status(r, code) == <<Unit("status", r, code), NL(r)>>
Chunk(r, i, n) == <<Unit("chunk", r, n), NL(r)>> \o SubSeq(Body(r, i + n), i, i + n - 1)
Chunks(r, n) == IF n < 2 THEN Chunk(r, 1, n) \o <<NL(r)>>
                ELSE Chunk(r, 1, 1) \o <<NL(r)>> \o Chunk(r, 2, n - 1) \o <<NL(r)>>

Response(r, a) ==
  (IF a.interim THEN Status(r, 100) \o <<NL(r)>> ELSE <<>>)
  \o Status(r, IF a.framing = "none" THEN 204 ELSE 200)
  \o (IF a.close /\ a.framing # "chunked" THEN Header(r, "connection", "close") ELSE <<>>)
  \o CASE a.framing = "length"  -> Header(r, "content-length", a.n)
                                   \o <<NL(r)>> \o Body(r, a.n)
       [] a.framing = "chunked" -> Header(r, "transfer-encoding", "chunked")
                                   \o <<NL(r)>>
                                   \o (IF a.n = 0 THEN <<>> ELSE Chunks(r, a.n))
                                   \o <<Unit("chunk", r, 0), NL(r)>>
                                   \o (IF a.close THEN Header(r, "connection", "close")
                                                  ELSE <<>>)
                                   \o <<NL(r)>>
       [] OTHER                 -> <<NL(r)>> \o Body(r, a.n)

ServerAnswers(c, a) ==
  /\ Alive(c) /\ Complete(conn[c].got)
  /\ LET g == conn[c].got
         r == g[1][2]
     IN /\ conn' = [conn EXCEPT
             ![c].flight = @ \o Response(r, a),
             ![c].got = SubSeq(g, 3 + g[2][3], Len(g)),
             ![c].fin = a.close \/ a.framing = "identity"]
        /\ answer' = [answer EXCEPT ![r] = [body |-> Body(r, a.n), framing |-> a.framing]]
  /\ UNCHANGED <<pc, arg>> /\ GoOn
-----------------------------------------------------------------------------
Step(r) ==
  \/ Connect(r) \/ Write(r) \/ WriteFails(r) \/ SendBody(r) \/ NeedMore(r)
  \/ StatusLineOf(r) \/ HeaderLineOf(r) \/ HeadersEnd(r)
  \/ ReadChars(r) \/ ReadNothing(r) \/ ReadAll(r)
  \/ ChunkSize(r) \/ ChunkEnd(r) \/ Trailer(r)
  \/ RequestOk(r) \/ Cleanup(r) \/ Finish(r)

Begin(r) ==
  \/ \E k \in Req \cup {NULL}, n \in UploadSize : RequestCo(r, k, n)
  \/ OpenFails(r)

HttpNext ==
  \/ \E r \in Req : Begin(r) \/ Step(r) \/ ConnectFails(r) \/ Resume(r)
  \/ \E c \in Channel, a \in Replies : ServerAnswers(c, a)

-----------------------------------------------------------------------------
TypeOK ==
  /\ pc \in [Req -> LineStates \cup {"new", "connect", "send", "length", "identity",
                                      "chunkdata", "ok", "cleanup", "done", "over"}]
  /\ \A r \in Req : /\ DOMAIN arg[r] = DOMAIN NewArg
                    /\ arg[r].channel \in Channel \cup {NULL}
                    /\ arg[r].rc \in {"", "error", "http ok"}
  /\ \A c \in Channel : conn[c] # NULL => DOMAIN conn[c] = DOMAIN NewConn

(* What reaches the sink is, at all times, a beginning of the body of the    *)
(* response to this very request, however the network cuts it, whoever used  *)
(* the connection before; after "http ok" it is the whole body.  Only where  *)
(* the end of the connection is the end of the body, a broken connection     *)
(* shortens it unnoticed (http_co.lua:392-405).                              *)
SinkExact ==
  \A r \in Req :
    LET body == IF answer[r] = NULL THEN <<>> ELSE answer[r].body IN
    /\ IsPrefix(arg[r].sink, body)
    /\ arg[r].rc = "http ok" =>
         /\ answer[r] # NULL
         /\ arg[r].sink = body \/ (Breaks /\ answer[r].framing = "identity")

(* "input buffer should now be empty" (http_co.lua:286): a request that      *)
(* ended well leaves nothing on a channel the next one may take over.        *)
BufferDrained ==
  \A r \in Req :
    pc[r] = "cleanup" /\ arg[r].rc = "http ok" /\ arg[r].channel # NULL
    => Chan(r).buf = <<>> /\ Chan(r).down = <<>> /\ Chan(r).flight = <<>>

(* A request on a connection is alone on it, and the connection is open: the *)
(* first has let go of it when the second takes it over (keep_alive).  When  *)
(* all are over every connection has been closed by somebody, also those     *)
(* handed on (http_co.lua:159-163, 206-224).                                 *)
Talking(r) == UnderWay(r) /\ pc[r] # "connect"
RequestsOver == \A r \in Req : pc[r] \in {"new", "over"}
ConnectionsOwned ==
  /\ \A r \in Req : Talking(r) =>
       /\ arg[r].channel # NULL /\ Chan(r).open
       /\ \A q \in Req \ {r} : Talking(q) => arg[q].channel # arg[r].channel
  /\ (\E r \in Req : pc[r] = "over") /\ RequestsOver =>
       \A c \in Channel : conn[c] # NULL => ~conn[c].open
=============================================================================
