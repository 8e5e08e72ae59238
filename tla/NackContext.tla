----------------------------- MODULE NackContext -----------------------------
(***************************************************************************)
(* Which lost packets a receive channel asks for again, and how often:     *)
(* NackContext of src/rtcp/RtcpNack.cpp.  The whole object is one record,  *)
(* and each method maps a record to the next one, so that RtpChannel can   *)
(* run two of them in one call.  A time stamp is kept as its age in ticks, *)
(* which stops growing once every comparison of the code is decided; an    *)
(* FCI_NACK is the set of the packets it asks for.                         *)
(***************************************************************************)
EXTENDS Integers, FiniteSets

CONSTANTS
  SeqMod,       \* 2^16 in the code
  BitSize,      \* FCI_NACK::kBitSize, 16
  NackRtpSize,  \* kNackRtpSize, 8
  MaxNack,      \* FCIs made by one call of makeNack, 10
  WrapWindow,   \* 1024: how near the two ends a wrap is recognised
  NackMaxSize,  \* kNackMaxSize, 2048
  NackMaxMS,    \* kNackMaxMS, in ticks
  NackMaxCount, \* kNackMaxCount, 15
  RttInit, RttMin, RttMax   \* 50, 10 and kNackMaxMS / kNackMaxCount, in ticks

ASSUME NackAssumption ==
  /\ {SeqMod, BitSize, MaxNack, WrapWindow, NackMaxSize} \subseteq Nat \ {0}
  /\ {NackMaxMS, NackRtpSize} \subseteq Nat
  /\ NackMaxCount \in Nat \ {0, 1}
  /\ RttMin \in Nat /\ RttInit \in RttMin .. RttMax /\ RttMax \in Nat

VARIABLES
  nack,   \* the NackContext
  asks    \* what the last operation asked for through _cb

nackVars == <<nack, asks>>

Seqs   == 0 .. SeqMod - 1
SeqMax == SeqMod - 1

Smallest(S) == CHOOSE s \in S : \A t \in S : s <= t
Largest(S)  == CHOOSE s \in S : \A t \in S : t <= s

(* _started, _seq, _nack_seq, _rtt and _nack_send_status *)
NackStatus == [age : 0 .. NackMaxMS + 1, idle : 0 .. RttMax, count : 1 .. NackMaxCount - 1]

EmptyNack ==
  [started |-> FALSE, seq |-> {}, nackSeq |-> 0, rtt |-> RttInit, status |-> << >>]

Result(n, a) == [ctx |-> n, asks |-> a]

-----------------------------------------------------------------------------
(* recordNack: a fresh status for each packet asked for; beyond            *)
(* NackMaxSize the smallest numbers are forgotten.                         *)
RecordNoTrim(status, asked) ==
  [s \in DOMAIN status \union asked |->
     IF s \in asked THEN [age |-> 0, idle |-> 0, count |-> 1] ELSE status[s]]
Record(status, asked) ==
  LET all  == DOMAIN status \union asked
      kept == {s \in all : Cardinality({t \in all : t >= s}) <= NackMaxSize}
  IN  [s \in kept |-> IF s \in asked THEN [age |-> 0, idle |-> 0, count |-> 1]
                      ELSE status[s]]

(* clearNackStatus: the age of the first request is taken for the rtt *)
ClearNackStatusUnclamped(n, s) ==
  IF s \notin DOMAIN n.status THEN n
  ELSE [n EXCEPT !.status = [t \in DOMAIN n.status \ {s} |-> n.status[t]],
                 !.rtt = n.status[s].age]
ClearNackStatusKept(n, s) ==
  IF s \notin DOMAIN n.status THEN n
  ELSE LET rtt == IF n.status[s].age > RttMax THEN RttMax ELSE n.status[s].age
       IN  [n EXCEPT !.rtt = IF rtt < RttMin THEN RttMin ELSE rtt]
ClearNackStatus(n, s) ==
  IF s \notin DOMAIN n.status THEN n
  ELSE LET rtt == IF n.status[s].age > RttMax THEN RttMax ELSE n.status[s].age
       IN  [n EXCEPT !.status = [t \in DOMAIN n.status \ {s} |-> n.status[t]],
                     !.rtt = IF rtt < RttMin THEN RttMin ELSE rtt]

(* eraseFrontSeq: step over the numbers received in a row after nackSeq *)
EraseFrontSeq(n) ==
  LET next == (n.nackSeq + 1) % SeqMod
      gap  == CHOOSE k \in next .. SeqMod :
                k \notin n.seq /\ next .. (k - 1) \subseteq n.seq
  IN  IF n.seq = {} \/ next # Smallest(n.seq) THEN n
      ELSE [n EXCEPT !.nackSeq = gap - 1, !.seq = n.seq \ (next .. gap - 1)]

(* One turn of makeNack's loop.  The first packet of an FCI counts as      *)
(* lost, whether it was received or not.                                   *)
FciCount(n, max) ==
  LET span == (max - (n.nackSeq + 1)) % SeqMod
  IN  IF span < BitSize THEN span ELSE BitSize

FciNackShort(n, max) ==
  {(n.nackSeq + 1) % SeqMod} \union
    {s \in {(n.nackSeq + i + 1) % SeqMod : i \in 1 .. FciCount(n, max) - 1} : s \notin n.seq}
FciNack(n, max) ==
  {(n.nackSeq + 1) % SeqMod} \union
    {s \in {(n.nackSeq + i + 1) % SeqMod : i \in 1 .. FciCount(n, max)} : s \notin n.seq}

MakeNackTurn(r, max, flush) ==
  LET n     == r.ctx
      count == FciCount(n, max)
      asked == FciNack(n, max)
      upTo  == (n.nackSeq + count + 1) % SeqMod
  IN  IF n.nackSeq = max \/ (~flush /\ count < NackRtpSize) THEN r
      ELSE Result([n EXCEPT !.status  = Record(n.status, asked),
                            !.nackSeq = upTo,
                            !.seq     = {s \in n.seq : s > upTo}],
                  r.asks \union asked)

MakeNack(n, max, flush) ==
  LET turn[i \in 0 .. MaxNack] ==
        IF i = 0 THEN Result(EraseFrontSeq(n), {})
        ELSE MakeNackTurn(turn[i - 1], max, flush)
  IN  turn[MaxNack]

-----------------------------------------------------------------------------
(* received(seq, is_rtx) *)
WrappedNoWindow(n, s) == s < n.nackSeq /\ n.nackSeq # SeqMax
Wrapped(n, s) ==
  /\ s < n.nackSeq /\ n.nackSeq # SeqMax
  /\ s < WrapWindow /\ n.nackSeq > SeqMax - WrapWindow

Recovered(n, s, isRtx) == isRtx \/ (s < n.nackSeq /\ n.nackSeq # SeqMax)

ReceiveNew(n, s) ==
  LET seq  == n.seq \union {s}
      max  == Largest(seq)
      min  == Smallest(seq)
      diff == max - min
      m    == [n EXCEPT !.seq = seq]
  IN  IF diff > SeqMax \div 2
      THEN Result([n EXCEPT !.seq = seq \ {max}], {})
      ELSE IF min = (n.nackSeq + 1) % SeqMod /\ Cardinality(seq) = diff + 1
      THEN Result([n EXCEPT !.seq = {}, !.nackSeq = max], {})
      ELSE MakeNack(m, max, FALSE)

Received(ctx, s, isRtx) ==
  LET n == IF ctx.started THEN ctx
           ELSE [ctx EXCEPT !.started = TRUE, !.nackSeq = (s - 1) % SeqMod]
      flushed == MakeNack(n, SeqMax, TRUE)
  IN  CASE Wrapped(n, s) ->
             [flushed EXCEPT !.ctx.seq = flushed.ctx.seq \union {s}]
        [] ~Wrapped(n, s) /\ Recovered(n, s, isRtx) ->
             Result(ClearNackStatus(n, s), {})
        [] ~Wrapped(n, s) /\ ~Recovered(n, s, isRtx) /\ s \in n.seq -> Result(n, {})
        [] OTHER -> ReceiveNew(n, s)

(* reSendNack: expire what is too old, ask again for what waited an rtt,   *)
(* and give up on what was asked for NackMaxCount times.                   *)
ReSendOneLess(n) ==
  LET alive == {s \in DOMAIN n.status : n.status[s].age <= NackMaxMS}
      due   == {s \in alive : n.status[s].idle >= n.rtt}
      spent == {s \in due : n.status[s].count + 2 = NackMaxCount}
      again(st) == [st EXCEPT !.idle = 0, !.count = st.count + 1]
  IN  Result([n EXCEPT !.status =
                [s \in alive \ spent |-> IF s \in due THEN again(n.status[s])
                                         ELSE n.status[s]]],
             due)
ReSendNack(n) ==
  LET alive == {s \in DOMAIN n.status : n.status[s].age <= NackMaxMS}
      due   == {s \in alive : n.status[s].idle >= n.rtt}
      spent == {s \in due : n.status[s].count + 1 = NackMaxCount}
      again(st) == [st EXCEPT !.idle = 0, !.count = st.count + 1]
  IN  Result([n EXCEPT !.status =
                [s \in alive \ spent |-> IF s \in due THEN again(n.status[s])
                                         ELSE n.status[s]]],
             due)

(* One tick of the clock *)
Older(n) ==
  LET up(x, bound) == IF x < bound THEN x + 1 ELSE bound
  IN  [n EXCEPT !.status = [s \in DOMAIN n.status |->
        [n.status[s] EXCEPT !.age  = up(n.status[s].age, NackMaxMS + 1),
                            !.idle = up(n.status[s].idle, RttMax)]]]

-----------------------------------------------------------------------------
Become(r) == nack' = r.ctx /\ asks' = r.asks

Receive(s, isRtx) == Become(Received(nack, s, isRtx))
ReSend == Become(ReSendNack(nack))
Tick   == Become(Result(Older(nack), {}))

Init == nack = EmptyNack /\ asks = {}

Next ==
  \/ \E s \in Seqs, isRtx \in BOOLEAN : Receive(s, isRtx)
  \/ ReSend
  \/ Tick

Spec == Init /\ [][Next]_nackVars

-----------------------------------------------------------------------------
(* At most NackMaxSize requests are remembered, however wide the losses.   *)
TypeOK ==
  /\ Cardinality(DOMAIN nack.status) <= NackMaxSize
  /\ asks \in SUBSET Seqs
  /\ nack.started \in BOOLEAN
  /\ nack.seq \in SUBSET Seqs
  /\ nack.nackSeq \in Seqs
  /\ nack.rtt \in RttMin .. RttMax
  /\ DOMAIN nack.status \subseteq Seqs
  /\ \A s \in DOMAIN nack.status : nack.status[s] \in NackStatus

(***************************************************************************)
(* No loss is passed over in silence: when nackSeq advances, each number   *)
(* it advances over was received, or is asked for in the same call.        *)
(***************************************************************************)
NoGapSkipped ==
  [][nack.started /\ nack'.nackSeq # nack.nackSeq =>
      \A s \in Seqs, isRtx \in BOOLEAN : Receive(s, isRtx) =>
        \A k \in 1 .. (nack'.nackSeq - nack.nackSeq) % SeqMod :
          (nack.nackSeq + k) % SeqMod \in nack.seq \union {s} \union asks'
    ]_nackVars
=============================================================================
