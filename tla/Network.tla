------------------------------ MODULE Network ------------------------------
(***************************************************************************)
(* Requests and uploads in one main loop, with their servers.              *)
(***************************************************************************)
EXTENDS Http, Ftp

vars == <<channelVars, requestVars, putVars>>

Init == ChannelsInit /\ HttpInit /\ FtpInit

(* Bound: a program makes either requests or uploads.  They share the      *)
(* functions of Channels, but no connection.                               *)
HttpStep ==
  /\ \A p \in Put : at[p] = "new"
  /\ HttpNext
  /\ UNCHANGED putVars

FtpStep ==
  /\ \A r \in Req : pc[r] = "new"
  /\ FtpNext
  /\ UNCHANGED requestVars

ConnStep(c) ==
  /\ ServerReads(c) \/ Deliver(c) \/ Break(c)
  /\ UNCHANGED <<requestVars, putVars>>

Next == HttpStep \/ FtpStep \/ \E c \in Channel : ConnStep(c)

Spec == Init /\ [][Next]_vars

(* A coroutine goes on as long as it does not wait, a ready one is         *)
(* resumed, and server and network do their work.                          *)
Serve(c) ==
  \/ ServerReads(c) /\ UNCHANGED <<requestVars, putVars>>
  \/ (\E a \in Replies : ServerAnswers(c, a)) /\ UNCHANGED putVars
  \/ AnswerCommand(c) /\ UNCHANGED requestVars

Fairness ==
  /\ \A r \in Req : /\ WF_vars(Step(r) /\ UNCHANGED putVars)
                    /\ SF_vars(Resume(r) /\ UNCHANGED putVars)
  /\ \A p \in Put : /\ WF_vars(PutStep(p) /\ UNCHANGED requestVars)
                    /\ SF_vars(ResumePut(p) /\ UNCHANGED requestVars)
  /\ \A c \in Channel :
       /\ WF_vars(Serve(c))
       /\ WF_vars(Deliver(c) /\ UNCHANGED <<requestVars, putVars>>)

FairSpec == Spec /\ Fairness

-----------------------------------------------------------------------------
(* What arrives is what was sent: bodies in the sink of their request,     *)
(* files at the server (see SinkExact and UploadExact).                    *)
TransfersExact == SinkExact /\ UploadExact

(* Of each reply nothing is left for the next one (see BufferDrained and   *)
(* RepliesInStep).                                                         *)
NothingLeft == BufferDrained /\ RepliesInStep

(* Every request and every upload ends, whatever is broken or refused:     *)
(* client and server never wait for each other (request, http_co.lua:189-  *)
(* 224; put, ftp_co.lua:118-244).                                          *)
AllEnd == []<>(RequestsOver /\ UploadsOver)
=============================================================================
