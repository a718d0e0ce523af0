----------------------------- MODULE MCNetwork -----------------------------
(* Instances of Network for TLC. *)
EXTENDS Network

Reply(f, n, close, interim) ==
  [framing |-> f, n |-> n, close |-> close, interim |-> interim]

\* Every framing, with and without a body, an end of the connection and an
\* interim response.
MCReplies == {Reply("none", 0, FALSE, FALSE), Reply("length", 2, FALSE, TRUE),
              Reply("length", 1, TRUE, FALSE),
              Reply("chunked", 2, FALSE, FALSE), Reply("chunked", 0, TRUE, FALSE),
              Reply("identity", 1, FALSE, FALSE)}

\* FTP replies of one and several lines; the lines between may look like
\* replies, too.  Servers that refuse a command, or give no address.
One(code) == <<<<code, " ">>>>
Text == <<0, "">>

MCGreeting == {One(120) \o One(220), One(421),
               <<<<220, "-">>, Text, <<220, " ">>>>}
MCServerReply ==
  [cmd \in Command |->
     CASE cmd = "user" -> {One(230), One(331), One(500)}
       [] cmd = "pass" -> {One(530),
                           <<<<230, "-">>, <<230, "-">>, <<200, " ">>, <<230, " ">>>>}
       [] cmd = "type" -> {One(200), One(230)}
       [] cmd = "pasv" -> {One(227), One(200), <<Text>>}
       [] cmd = "stor" -> {One(150), One(550)}]
=============================================================================
