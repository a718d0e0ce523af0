-------------------------------- MODULE Ftp --------------------------------
(***************************************************************************)
(* FTP uploads in coroutines (lib/ftp_co.lua): a dialogue of commands and  *)
(* replies on one connection, the file on a second one.                    *)
(*                                                                         *)
(* put ends with "gtk.widgets[...] = nil" (lines 139 and 190) once a       *)
(* connection was shut down.  gtk.widgets exists no more, so an error ends *)
(* the coroutine there: no socket is closed, no callback `done' is called, *)
(* and the reply to the transfer is not awaited.                           *)
(***************************************************************************)
EXTENDS Channels

CONSTANTS
  Put,         (* uploads                                                  *)
  FileSize,    (* possible lengths of the file, a buffer in memory         *)
  Greeting,    (* how servers greet: sequences of the lines of replies     *)
  ServerReply  (* how they answer each command                             *)

ASSUME FtpAssumption == FileSize \subseteq Nat

(* A line of a reply is a code with "-", if more lines follow, or with " ";*)
(* or a text (code 0).  Lines i + 1 to n are a reply: one line, or those   *)
(* from the first to the next one with its code and " ".                   *)
ReplyLine == Nat \X {"-", " ", ""}

IsReply(lines, i, n) ==
  /\ i < n
  /\ IF lines[i + 1][2] # "-" THEN n = i + 1
     ELSE LET last == <<lines[i + 1][1], " ">> IN
          /\ i + 1 < n /\ lines[n] = last
          /\ \A m \in (i + 2)..(n - 1) : lines[m] # last

\* A server gives one reply to each command, and greets with one or, when the
\* first says that it is not yet ready, with two.
ASSUME RepliesWhole ==
  /\ \A cmd \in {"user", "pass", "type", "pasv", "stor"} :
       \A lines \in ServerReply[cmd] :
         lines \in Seq(ReplyLine) /\ IsReply(lines, 0, Len(lines))
  /\ \A g \in Greeting :
       /\ g \in Seq(ReplyLine)
       /\ \/ IsReply(g, 0, Len(g))
          \/ \E n \in 1..Len(g) : /\ IsReply(g, 0, n) /\ g[1][1] \div 100 = 1
                                  /\ IsReply(g, n, Len(g))

VARIABLES
  at,  (* at[p]: the command whose reply is next, or what put does         *)
  put  (* put[p]: the argument table, with the locals of the coroutine     *)

putVars == <<at, put>>

Command == {"user", "pass", "type", "pasv", "stor"}

(* out is what of a command or block is still to be written; code that of  *)
(* a reply with several lines, while it is read.                           *)
NewPut == [channel |-> NULL, data_ioc |-> NULL, pos |-> 1, size |-> 0,
           out |-> <<>>, code |-> NULL, result |-> NULL]

FtpInit ==
  /\ at = [p \in Put |-> "new"]
  /\ put = [p \in Put |-> NewPut]

Puts(p, where) == Runs(p) /\ at[p] \in where

Does(p, what) == at' = [at EXCEPT ![p] = what]

-----------------------------------------------------------------------------
(* put_co, called by the program: the source is opened and the server is   *)
(* connected; it greets.  If one of them fails, there is the callback      *)
(* `failure'.                                                              *)
PutCo(p, n) ==
  /\ stack = <<>> /\ at[p] = "new"
  /\ stack' = <<p>> /\ UNCHANGED <<waiting, conn>>
  /\ Does(p, "connect")
  /\ put' = [put EXCEPT ![p].size = n]

Fails(p) ==
  /\ Puts(p, {"connect"}) /\ Breaks
  /\ Does(p, "over") /\ Ends /\ UNCHANGED conn
  /\ put' = [put EXCEPT ![p] = NewPut]

ReplyLines(p, cmd, lines) ==
  FlattenSeq([i \in DOMAIN lines |->
                <<Unit("reply", p, <<cmd>> \o lines[i]), NL(p)>>])

ConnectControl(p) ==
  /\ Puts(p, {"connect"}) /\ Unused # {}
  /\ \E g \in Greeting :
       conn' = [conn EXCEPT ![NextChannel] =
                  [NewConn EXCEPT !.flight = ReplyLines(p, "greeting", g)]]
  /\ put' = [put EXCEPT ![p].channel = NextChannel]
  /\ Does(p, "greeting") /\ GoOn

-----------------------------------------------------------------------------
(* check: the codes that are allowed.                                      *)
Allowed(cmd, code) ==
  CASE cmd \in {"greeting", "stor"}          -> code \div 100 \in {1, 2}
    [] cmd = "user"                          -> code \div 100 = 2 \/ code = 331
    [] cmd = "type"                          -> code = 200
    [] cmd \in {"ready", "pass", "pasv"}     -> code \div 100 = 2

(* What comes after a good reply: a greeting may announce another one, a   *)
(* password is asked for or not, the address for the file must be there.   *)
After(cmd, code) ==
  CASE cmd = "greeting" /\ code \div 100 = 1 -> "ready"
    [] cmd = "greeting" /\ code \div 100 = 2 -> "user"
    [] cmd = "ready"                         -> "user"
    [] cmd = "user" /\ code = 331            -> "pass"
    [] cmd = "user" /\ code # 331            -> "type"
    [] cmd = "pass"                          -> "type"
    [] cmd = "type"                          -> "pasv"
    [] cmd = "pasv" /\ code = 227            -> "data"
    [] cmd = "pasv" /\ code # 227            -> "leave"
    [] cmd = "stor"                          -> "send"

(* put_2 returns nil, or put_3, after which the file's connection is shut. *)
LeaveFrom(cmd) == IF cmd = "stor" THEN "shut" ELSE "leave"

CommandLine(p, what) ==
  IF what \in Command THEN <<Unit("command", p, what), NL(p)>> ELSE <<>>

Awaits(p) ==
  Puts(p, Command \cup {"greeting", "ready"}) /\ put[p].out = <<>>

Enter(p, what) ==
  /\ Does(p, what)
  /\ put' = [put EXCEPT ![p].code = NULL, ![p].out = CommandLine(p, what)]

(* command                                                                 *)
WriteCommand(p) ==
  /\ Puts(p, Command) /\ put[p].out # <<>>
  /\ WriteChars(p, put[p].channel, put[p].out)
  /\ put' = [put EXCEPT ![p].out = Unwritten(put[p].channel, @)]
  /\ UNCHANGED at

(* login pays no attention to it. *)
WriteCommandFails(p) ==
  /\ Puts(p, Command) /\ put[p].out # <<>>
  /\ conn[put[p].channel].fin
  /\ put' = [put EXCEPT ![p].out = <<>>]
  /\ IF at[p] \in {"user", "pass"} THEN UNCHANGED at
                                   ELSE Does(p, LeaveFrom(at[p]))
  /\ GoOn /\ UNCHANGED conn

(* get_reply, with receive_line: a reply ends at its first line, or at the *)
(* line with the same code and a space.                                    *)
LastLine_AnySeparator(p, code, sep) ==
  IF put[p].code = NULL THEN sep # "-" ELSE code = put[p].code

LastLine(p, code, sep) ==
  IF put[p].code = NULL THEN sep # "-" ELSE code = put[p].code /\ sep = " "

GetReply(p) ==
  /\ Awaits(p) /\ TakeLine(put[p].channel) /\ GoOn
  /\ LET line == Line(put[p].channel)[1][3]
         code == line[2]
         sep  == line[3]
     IN IF put[p].code = NULL /\ code = 0
        THEN Enter(p, LeaveFrom(at[p]))
        ELSE IF ~LastLine(p, code, sep)
        THEN /\ put' = [put EXCEPT ![p].code = IF @ = NULL THEN code ELSE @]
             /\ UNCHANGED at
        ELSE IF Allowed(at[p], code) THEN Enter(p, After(at[p], code))
        ELSE Enter(p, LeaveFrom(at[p]))

AwaitReply(p) ==
  /\ Awaits(p)
  /\ \/ ReadMore(p, put[p].channel) /\ UNCHANGED putVars
     \/ /\ NoMoreLines(put[p].channel)
        /\ Enter(p, LeaveFrom(at[p]))
        /\ GoOn /\ UNCHANGED conn

-----------------------------------------------------------------------------
(* put_2: the connection for the file. *)
ConnectData(p) ==
  /\ Puts(p, {"data"}) /\ Unused # {}
  /\ conn' = [conn EXCEPT ![NextChannel] = NewConn]
  /\ put' = [put EXCEPT ![p].data_ioc = NextChannel,
                        ![p].out = CommandLine(p, "stor")]
  /\ Does(p, "stor") /\ GoOn

ConnectDataFails(p) ==
  /\ Puts(p, {"data"}) /\ Breaks
  /\ Enter(p, "leave")
  /\ GoOn /\ UNCHANGED conn

(* put_3: block by block, until the source is at its end, ...              *)
ReadSource(p) ==
  LET block == SourceBuffer(p, put[p].pos, put[p].size) IN
    /\ Puts(p, {"send"}) /\ put[p].out = <<>>
    /\ IF block = NULL
       THEN /\ put' = [put EXCEPT ![p].result = "sent"]
            /\ Does(p, "shut")
       ELSE /\ put' = [put EXCEPT ![p].out = block, ![p].pos = @ + Len(block)]
            /\ UNCHANGED at
    /\ GoOn /\ UNCHANGED conn

WriteBlock(p) ==
  /\ Puts(p, {"send"}) /\ put[p].out # <<>>
  /\ WriteChars(p, put[p].data_ioc, put[p].out)
  /\ put' = [put EXCEPT ![p].out = Unwritten(put[p].data_ioc, @)]
  /\ UNCHANGED at

(* ... or writing fails, or the callback `progress' returns false.         *)
BlockFails(p) ==
  /\ Puts(p, {"send"})
  /\ \/ put[p].out # <<>> /\ conn[put[p].data_ioc].fin
     \/ put[p].out = <<>> /\ put[p].pos > 1
  /\ Enter(p, "shut")
  /\ GoOn /\ UNCHANGED conn

(* Both ends of put.  What was written still reaches the server.           *)
ShutDown(c) == [conn EXCEPT ![c].open = FALSE, ![c].buf = <<>>, ![c].down = <<>>,
                            ![c].flight = <<>>]

Dies(p) ==
  \/ /\ Puts(p, {"leave"}) /\ conn' = ShutDown(put[p].channel)
     /\ Does(p, "over") /\ Ends /\ UNCHANGED put
  \/ /\ Puts(p, {"shut"}) /\ conn' = ShutDown(put[p].data_ioc)
     /\ Does(p, "over") /\ Ends /\ UNCHANGED put

ResumePut(p) == Resumed(p) /\ UNCHANGED putVars

-----------------------------------------------------------------------------
(* The server answers a command. *)
AnswerCommand(c) ==
  /\ Alive(c) /\ Len(conn[c].got) = 2 /\ conn[c].got[1][1] = "command"
  /\ LET p   == conn[c].got[1][2]
         cmd == conn[c].got[1][3]
     IN \E lines \in ServerReply[cmd] :
          conn' = [conn EXCEPT ![c].got = <<>>,
                     ![c].flight = @ \o ReplyLines(p, cmd, lines)]
  /\ GoOn /\ UNCHANGED putVars

PutStep(p) ==
  \/ Fails(p) \/ ConnectControl(p)
  \/ WriteCommand(p) \/ WriteCommandFails(p) \/ GetReply(p) \/ AwaitReply(p)
  \/ ConnectData(p) \/ ConnectDataFails(p)
  \/ ReadSource(p) \/ WriteBlock(p) \/ BlockFails(p)
  \/ Dies(p)

FtpNext ==
  \/ \E p \in Put :
       \/ \E n \in FileSize : PutCo(p, n)
       \/ PutStep(p) \/ ResumePut(p)
  \/ \E c \in Channel : AnswerCommand(c)

-----------------------------------------------------------------------------
(* What the server has of the file is a beginning of it, and the whole of  *)
(* it when the upload has found its source at the end, however the blocks  *)
(* were cut, unless the server broke the connection (socket_co.lua:27,     *)
(* "the next len bytes; nil at EOF").                                      *)
UploadExact ==
  \A p \in Put : put[p].data_ioc # NULL =>
    LET d    == conn[put[p].data_ioc]
        has  == d.got \o d.up
        file == Body(p, put[p].size)
    IN /\ IsPrefix(has, file)
       /\ put[p].result = "sent" /\ ~d.fin => has = file

(* Replies are taken for the commands they answer: when a command is       *)
(* written, nothing of an earlier reply is left, in whatever lines it came *)
(* (get_reply, socket_co.lua:283).                                         *)
RepliesInStep ==
  \A p \in Put : put[p].channel # NULL /\ at[p] \notin {"leave", "shut", "over"} =>
    LET c == conn[put[p].channel] IN
      \A i \in DOMAIN (c.buf \o c.down \o c.flight) :
        LET u == (c.buf \o c.down \o c.flight)[i] IN
          u[1] = "reply" =>
            /\ put[p].out = <<>>
            /\ u[3][1] = IF at[p] = "ready" THEN "greeting" ELSE at[p]

UploadsOver == \A p \in Put : at[p] \in {"new", "over"}
=============================================================================
