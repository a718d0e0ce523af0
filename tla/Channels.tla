------------------------------ MODULE Channels ------------------------------
(***************************************************************************)
(* Lines and characters over channels (lib/socket_co.lua, and              *)
(* glib/channel.c below it), for coroutines that wait in the main loop.    *)
(* A coroutine runs until an operation returns "timeout"; it is resumed    *)
(* when its channel is ready, which is what Coroutines promises.           *)
(*                                                                         *)
(* What travels is a sequence of units: a piece of a line, the end of a    *)
(* line or a piece of a body, each with the coroutine it belongs to.  The  *)
(* network delivers them one by one, so it breaks messages anywhere.       *)
(***************************************************************************)
EXTENDS Naturals, SequencesExt

CONSTANTS
  Channel,    (* connections: the GIOChannel and its socket                *)
  BlockSize,  (* how much is read from a source at once                    *)
  Window,     (* bound: units the kernel takes before the server reads     *)
  Breaks,     (* whether servers break connections                         *)
  NULL        (* nil                                                       *)

ASSUME ChannelsAssumption == BlockSize \in Nat \ {0} /\ Window \in Nat \ {0}

VARIABLES
  stack,   (* coroutines that run, the innermost first                     *)
  waiting, (* those that have yielded "iowait", with the channel and the   *)
           (* condition                                                    *)
  conn     (* conn[c]: the connection, or NULL before connect              *)

channelVars == <<stack, waiting, conn>>

Unit(k, r, v) == <<k, r, v>>
NL(r) == Unit("nl", r, 0)
Body(r, n) == [i \in 1..n |-> Unit("body", r, i)]
IsNL(u) == u[1] = "nl"

(* buf is the unread part of the channel's _buffer; down has arrived and   *)
(* not been read, flight is on its way; up is not yet read by the server,  *)
(* got is.                                                                 *)
NewConn == [open |-> TRUE, buf |-> <<>>, down |-> <<>>, flight |-> <<>>,
            up |-> <<>>, got |-> <<>>, fin |-> FALSE]

ChannelsInit ==
  /\ stack = <<>> /\ waiting = {}
  /\ conn = [c \in Channel |-> NULL]

(* socket_co.connect uses the next channel. *)
Unused == {c \in Channel : conn[c] = NULL}
NextChannel == CHOOSE c \in Unused : TRUE

-----------------------------------------------------------------------------
Runs(r) == stack # <<>> /\ Head(stack) = r
GoOn == UNCHANGED <<stack, waiting>>
Ends == stack' = Tail(stack) /\ UNCHANGED waiting

YieldIowait(r, c, cond) ==
  /\ stack' = Tail(stack)
  /\ waiting' = waiting \cup {[co |-> r, channel |-> c, cond |-> cond]}

AtEnd(c) == conn[c].fin /\ conn[c].flight = <<>> /\ conn[c].down = <<>>
Ready(w) ==
  IF w.cond = "in" THEN conn[w.channel].down # <<>> \/ AtEnd(w.channel)
  ELSE Len(conn[w.channel].up) < Window \/ conn[w.channel].fin

(* The main loop resumes a coroutine whose channel is ready. *)
Resumed(r) ==
  /\ stack = <<>> /\ stack' = <<r>>
  /\ \E w \in waiting : w.co = r /\ Ready(w) /\ waiting' = waiting \ {w}
  /\ UNCHANGED conn

-----------------------------------------------------------------------------
(* receive_line: the line ends in the buffer, the first line, the rest.    *)
LineEnds(c) == {i \in DOMAIN conn[c].buf : IsNL(conn[c].buf[i])}
LineEnd(c) == CHOOSE i \in LineEnds(c) : \A j \in LineEnds(c) : i <= j
Line(c) == SubSeq(conn[c].buf, 1, LineEnd(c) - 1)

TakeLine(c) ==
  /\ LineEnds(c) # {}
  /\ conn' = [conn EXCEPT ![c].buf = SubSeq(@, LineEnd(c) + 1, Len(@))]

(* There is no line yet: read what has arrived, or wait.                   *)
ReadMore(r, c) ==
  /\ LineEnds(c) = {} /\ ~AtEnd(c)
  /\ IF conn[c].down # <<>>
     THEN /\ conn' = [conn EXCEPT ![c].buf = @ \o conn[c].down,
                                  ![c].down = <<>>]
          /\ GoOn
     ELSE YieldIowait(r, c, "in") /\ UNCHANGED conn

NoMoreLines(c) == LineEnds(c) = {} /\ AtEnd(c)

(* read_chars: what is in the buffer, then what is in the channel, up to n.*)
Available(c) == IF conn[c].buf # <<>> THEN conn[c].buf ELSE conn[c].down
TakeChars(c, n) ==
  IF conn[c].buf # <<>>
  THEN conn' = [conn EXCEPT ![c].buf = SubSeq(@, n + 1, Len(@))]
  ELSE conn' = [conn EXCEPT ![c].down = SubSeq(@, n + 1, Len(@))]

(* write_chars; channel.c makes a partial write a "timeout".  What is      *)
(* written to a connection the server has closed fails, or is lost.        *)
Accepted(c, data) ==
  LET room == IF conn[c].fin THEN Len(data) ELSE Window - Len(conn[c].up)
  IN IF room < Len(data) THEN room ELSE Len(data)

Unwritten(c, data) == SubSeq(data, Accepted(c, data) + 1, Len(data))

WriteChars(r, c, data) ==
  /\ conn' = IF conn[c].fin THEN conn
             ELSE [conn EXCEPT ![c].up =
                     @ \o SubSeq(data, 1, Accepted(c, data))]
  /\ IF Unwritten(c, data) = <<>> THEN GoOn ELSE YieldIowait(r, c, "out")

(* Where a block ends; the last one may be shorter. *)
BlockEnd(pos, size) == IF pos + BlockSize > size THEN size ELSE pos + BlockSize - 1

(* The end of the source is found too early. *)
SourceBuffer_StopsEarly(r, pos, size) ==
  IF pos + 1 >= size THEN NULL
  ELSE SubSeq(Body(r, size), pos, BlockEnd(pos, size))

(* source_buffer: the next block, or NULL at the end. *)
SourceBuffer(r, pos, size) ==
  IF pos >= size THEN NULL
  ELSE SubSeq(Body(r, size), pos, BlockEnd(pos, size))

-----------------------------------------------------------------------------
(* The server and the network. *)
Alive(c) == conn[c] # NULL /\ ~conn[c].fin

ServerReads(c) ==
  /\ Alive(c) /\ conn[c].up # <<>>
  /\ conn' = [conn EXCEPT ![c].got = @ \o conn[c].up, ![c].up = <<>>]
  /\ GoOn

(* The network delivers the next unit. *)
Deliver(c) ==
  /\ conn[c] # NULL /\ conn[c].flight # <<>>
  /\ conn' = [conn EXCEPT ![c].down = Append(@, Head(conn[c].flight)),
                          ![c].flight = Tail(@)]
  /\ GoOn

(* The server breaks the connection; what has not arrived is lost. *)
Break(c) ==
  /\ Breaks /\ Alive(c)
  /\ conn' = [conn EXCEPT ![c].fin = TRUE, ![c].flight = <<>>]
  /\ GoOn
=============================================================================
