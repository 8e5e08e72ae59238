----------------------------- MODULE NackRequests -----------------------------
(***************************************************************************)
(* NackContext with the history of the requests for one number: what a     *)
(* sender that counts them and has a clock of its own would see, whatever  *)
(* _nack_send_status says.  Any number may be the one that is watched.     *)
(***************************************************************************)
EXTENDS NackContext

VARIABLES
  watched,  \* the number whose requests are followed
  request   \* what became of the last loss seen under it

requestVars == <<nackVars, watched, request>>

(* How often it was asked for, how long ago first and last, and whether     *)
(* more than NackMaxSize requests were open at once since then.  Nothing is *)
(* open when it was answered, is too old or was asked for often enough.    *)
Nothing == [times |-> 0, first |-> 0, since |-> 0, crowded |-> FALSE]
IsOpen  == request.times > 0

(* recordNack forgets the smallest numbers when there are too many.        *)
Crowds ==
  Cardinality({t \in DOMAIN nack.status \union asks' : t >= watched}) > NackMaxSize

(* The packet arrives after it was passed over: on the RTX stream, or with  *)
(* a number behind the position.  Where received() sees a wrap, and while  *)
(* the position is the last number, it is taken for a packet to come.      *)
Answers(s, isRtx) ==
  /\ s = watched /\ ~Wrapped(nack, s)
  /\ isRtx \/ (s < nack.nackSeq /\ nack.nackSeq # SeqMax)

WatchedReceive(s, isRtx) ==
  /\ Receive(s, isRtx)
  /\ request' = IF watched \in asks' THEN [Nothing EXCEPT !.times = 1, !.crowded = Crowds]
                ELSE IF ~IsOpen \/ Answers(s, isRtx) THEN Nothing
                ELSE [request EXCEPT !.crowded = @ \/ Crowds]
  /\ UNCHANGED watched

WatchedReSend ==
  /\ ReSend
  /\ request' = IF watched \notin asks' THEN request
                ELSE IF request.times + 1 >= NackMaxCount THEN Nothing
                ELSE [request EXCEPT !.times = @ + 1, !.since = 0]
  /\ UNCHANGED watched

WatchedTick ==
  /\ Tick
  /\ request' = IF ~IsOpen \/ request.first = NackMaxMS THEN Nothing
                ELSE [request EXCEPT !.first = @ + 1,
                                     !.since = IF @ < RttMax THEN @ + 1 ELSE RttMax]
  /\ UNCHANGED watched

WatchedInit == Init /\ watched \in Seqs /\ request = Nothing

WatchedNext ==
  \/ \E s \in Seqs, isRtx \in BOOLEAN : WatchedReceive(s, isRtx)
  \/ WatchedReSend
  \/ WatchedTick

WatchedSpec == WatchedInit /\ [][WatchedNext]_requestVars

-----------------------------------------------------------------------------
(***************************************************************************)
(* A packet is asked for again only while its loss is open: not after it   *)
(* came in late, not NackMaxMS after the first request, not more than       *)
(* NackMaxCount times in all, and each time at least an rtt after the last *)
(* (reSendNack, clearNackStatus, recordNack).                              *)
(***************************************************************************)
RetriesAreSpaced ==
  [][ReSend /\ watched \in asks' => IsOpen /\ request.since >= nack.rtt]_requestVars

(***************************************************************************)
(* As long as it is open, each call of reSendNack an rtt or more after the *)
(* last request asks for it, unless recordNack had to forget numbers.      *)
(***************************************************************************)
RetriesGoOn ==
  [][ReSend /\ IsOpen /\ ~request.crowded /\ request.since >= nack.rtt
       => watched \in asks']_requestVars
=============================================================================
